---------------------------- MODULE SerialProofs ----------------------------
(***************************************************************************)
(* Theorems about IngestionPipeline with a single worker, for every number *)
(* of documents, requests, jobs, runs and crashes: the properties that two *)
(* workers on one document break.                                          *)
(***************************************************************************)
EXTENDS IngestionLifecycle, IngestionPipelineProofs

\* No two processes run workers/ingestion_runner.py.
OneWorker == \A v, w \in Workers : v = w

-----------------------------------------------------------------------------
(* The inductive invariants                                                  *)

\* Where the run of w has started.
HasStarted(w) == pc[w] \notin {"idle", "opened", "loaded"}

\* The session believes the columns its job row has.
SeenInv ==
    \A w \in Workers : pc[w] # "idle" => seenJob[w] = Columns(jobs[job[w]])

\* The stage of the row of a job at each point of its run.
RowStage(label) ==
    CASE label \in {"chunked", "chunksRead"} -> "chunking"
      [] label = "embedded"                  -> "embedding"
      [] OTHER                               -> "parsing"

\* A run that has started is the last one; its job is RUNNING in the stage of the run.
RunInv ==
    \A w \in Workers : HasStarted(w) =>
        /\ run[w] = Len(runs) /\ runs[Len(runs)] = job[w]
        /\ jobs[job[w]].status = "RUNNING"
        /\ jobs[job[w]].stage = RowStage(pc[w])

\* The rows of jobs: a worker has the document of its job, a job that is RUNNING
\* is in a stage of a run, only jobs that exist have been run, and as often as
\* `attempts` says.
JobsInv ==
    /\ \A w \in Workers : pc[w] # "idle" => jobs[job[w]].doc = target[w]
    /\ \A j \in DOMAIN jobs : jobs[j].status = "RUNNING" => jobs[j].stage \in Lifecycle!Running
    /\ \A r \in DOMAIN runs : runs[r] \in DOMAIN jobs
    /\ AttemptsCountRuns

SerialInv == SeenInv /\ RunInv /\ JobsInv

\* Chunks have identities of their own, and come from runs that have started.
ChunkIdsInv ==
    /\ \A c, e \in chunks : c.id = e.id => c = e
    /\ \A c \in chunks : c.id.run <= Len(runs)

\* A transaction that has deleted chunks has deleted all of its document.
DeletedOf(a) ==
    delC[a] # {} => /\ pc[a] \in {"clearedChunks", "deletingPages", "cleared"}
                    /\ delC[a] = Ids(ChunksOf(target[a]))

\* No two transactions have deleted the same chunk.
DeletedApart == \A a, b \in Actors : a # b => delC[a] \cap delC[b] = {}

\* A DELETE under way works from all the chunks of its document, or from chunks
\* that are all gone; none of them is of a run that has yet to chunk.
WaitsOf(a) ==
    pc[a] = "deletingChunks" =>
        /\ \A i \in rows[a] : /\ i.src.doc = target[a] /\ i.run <= Len(runs)
                              /\ \A w \in Workers : Unchunked(w) => i.run # run[w]
        /\ rows[a] \cap Ids(chunks) # {} => Ids(ChunksOf(target[a])) \subseteq rows[a]

\* What a run that has not chunked yet leaves of its document's chunks: those it
\* is deleting or has deleted, and none once it has committed its parse.
ClearedOf(w) ==
    /\ Unchunked(w) => \A c \in chunks : c.id.run # run[w]
    /\ pc[w] = "deletingChunks" => Ids(ChunksOf(target[w])) \subseteq rows[w]
    /\ pc[w] \in {"clearedChunks", "deletingPages", "cleared"}
         => delC[w] = Ids(ChunksOf(target[w]))
    /\ pc[w] \in {"parsed", "pagesRead"} => ChunksOf(target[w]) = {}

\* A run has read finitely many pages, of its document.
ReadOf(w) ==
    pc[w] = "pagesRead" => IsFiniteSet(rows[w]) /\ \A p \in rows[w] : p.doc = target[w]

ChunksInv ==
    /\ ChunksOfOneRun /\ ChunkIdsInv /\ DeletedApart /\ IsFiniteSet(pages)
    /\ \A a \in Actors : DeletedOf(a) /\ WaitsOf(a)
    /\ \A w \in Workers : ClearedOf(w) /\ ReadOf(w)

\* Job j is the newest of document d.
IsNewest(d, j) == j \in JobsOf(d) /\ \A i \in JobsOf(d) : i <= j

\* No reprocess of d has committed since the last run of it was loaded.
Current(d) == \E j \in DOMAIN jobs : IsNewest(d, j) /\ jobs[j].status # "PENDING"

\* The pairs of a page and a place in it that have a chunk, and that should have.
Places(C)    == {<<c.id.src, c.id.k>> : c \in C}
PlacesIn(P)  == UNION {{<<p, k>> : k \in 1..p.size} : p \in P}

\* What a run has made of its document if no reprocess has come between.
ProgressOf(w) ==
    Current(target[w]) =>
        /\ pc[w] = "pagesRead" => rows[w] = PagesOf(target[w])
        /\ pc[w] \in {"chunked", "chunksRead", "embedded"} =>
             /\ Places(ChunksOf(target[w])) = PlacesIn(PagesOf(target[w]))
             /\ \A c \in ChunksOf(target[w]) : c.linked
        /\ pc[w] = "chunksRead" => rows[w] = Ids(ChunksOf(target[w]))
        /\ pc[w] = "embedded" => \A c \in ChunksOf(target[w]) : c.embedded

\* A document that exists has a newest job.
NewestOf(d) ==
    docStatus[d] # "none" \/ JobsOf(d) # {} => \E j \in DOMAIN jobs : IsNewest(d, j)

\* If the newest job has SUCCEEDED and the document is INDEXED, its artifacts are
\* complete unless a run of it is under way or has died.
IndexedOf(d) ==
    (/\ docStatus[d] = "indexed" /\ LastRunRecorded(d)
     /\ \E j \in DOMAIN jobs : IsNewest(d, j) /\ jobs[j].status = "SUCCEEDED")
       => ArtifactsComplete(d)

CompleteInv ==
    /\ \A w \in Workers : ProgressOf(w)
    /\ \A d \in Docs : NewestOf(d) /\ IndexedOf(d)

-----------------------------------------------------------------------------
(* Lemmas about steps                                                        *)

\* A step of a request leaves the workers and what they hold alone.
LEMMA RequestStepFrame ==
    ASSUME NEW r \in Requests, TypeOK,
           \/ \E d \in Docs : OpenReprocess(r, d)
           \/ ReprocessStep(r) \/ AbortReprocess(r)
    PROVE  /\ runs' = runs /\ deleted' = deleted
           /\ \A w \in Workers : /\ pc'[w] = pc[w] /\ target'[w] = target[w]
                                 /\ job'[w] = job[w] /\ run'[w] = run[w]
                                 /\ seenJob'[w] = seenJob[w] /\ rows'[w] = rows[w]
                                 /\ delC'[w] = delC[w] /\ delP'[w] = delP[w]
           /\ \/ UNCHANGED db
              \/ CommitReprocess(r)
  <1> r \in Actors /\ \A w \in Workers : w # r /\ w \in Actors
    BY PipelineAssumptions DEF Actors, ActorsAssumption
  <1> USE DEF TypeOK, LocalsTypeOK, TxTypeOK, Goto, CloseTx, db, locals, tx
  <1>1. ASSUME NEW d \in Docs, OpenReprocess(r, d) PROVE UNCHANGED db /\ UNCHANGED runs
    BY <1>1 DEF OpenReprocess
  <1>2. ASSUME NEW d \in Docs, OpenReprocess(r, d), NEW w \in Workers
        PROVE  /\ pc'[w] = pc[w] /\ target'[w] = target[w]
               /\ job'[w] = job[w] /\ run'[w] = run[w]
               /\ seenJob'[w] = seenJob[w] /\ rows'[w] = rows[w]
               /\ delC'[w] = delC[w] /\ delP'[w] = delP[w]
    BY <1>2 DEF OpenReprocess
  <1>3. ASSUME ClearStep(r)
        PROVE  /\ UNCHANGED <<db, locals, runs>>
               /\ \A w \in Workers : /\ pc'[w] = pc[w] /\ rows'[w] = rows[w]
                                     /\ delC'[w] = delC[w] /\ delP'[w] = delP[w]
    BY <1>3 DEF ClearStep, DeleteChunks, ChunksDeleted, DeletePages, PagesDeleted
  <1>7. LockRow(r) => UNCHANGED <<db, pc, locals, rows, delC, delP, runs>>
    BY DEF LockRow, db, locals
  <1>4. ASSUME Leave(r), NEW w \in Workers
        PROVE  /\ pc'[w] = pc[w] /\ target'[w] = target[w]
               /\ job'[w] = job[w] /\ run'[w] = run[w]
               /\ seenJob'[w] = seenJob[w] /\ rows'[w] = rows[w]
               /\ delC'[w] = delC[w] /\ delP'[w] = delP[w]
    BY <1>4 DEF Leave
  <1>5. CommitReprocess(r) => Leave(r) /\ UNCHANGED <<deleted, runs>>
    BY DEF CommitReprocess
  <1>6. AbortReprocess(r) => Leave(r) /\ UNCHANGED db /\ UNCHANGED runs
    BY DEF AbortReprocess
  <1> HIDE DEF TypeOK, LocalsTypeOK, TxTypeOK, Goto, CloseTx, tx
  <1> QED
    BY <1>1, <1>2, <1>3, <1>4, <1>5, <1>6, <1>7 DEF ReprocessStep

\* What an UPDATE writes when the session's belief of the row is true.
LEMMA MergedCurrent ==
    ASSUME NEW row \in JobRow, NEW new \in JobColumns
    PROVE  LET merged == Merged(row, Columns(row), new)
           IN  /\ merged \in JobRow
               /\ merged.doc = row.doc /\ Columns(merged) = new
               /\ merged.status = new.status /\ merged.stage = new.stage
               /\ merged.attempts = new.attempts
  <1>1. Columns(row) \in JobColumns
    BY ColumnsOfRow
  <1>2. Merged(row, Columns(row), new) \in JobRow
    BY <1>1, MergedRow
  <1> QED
    BY <1>2 DEF JobRow, JobColumns, Merged, Written, Columns

\* Then the worker's row gets the columns meant for it, and no other row changes.
LEMMA UpdateCurrent ==
    ASSUME NEW w \in Workers, NEW new \in JobColumns, TypeOK, SeenInv, pc[w] # "idle",
           UpdateJob(w, new)
    PROVE  /\ DOMAIN jobs' = DOMAIN jobs /\ job[w] \in DOMAIN jobs
           /\ \A j \in DOMAIN jobs : jobs'[j].doc = jobs[j].doc
           /\ \A j \in DOMAIN jobs : j # job[w] => jobs'[j] = jobs[j]
           /\ Columns(jobs'[job[w]]) = new
           /\ jobs'[job[w]].status = new.status /\ jobs'[job[w]].stage = new.stage
           /\ jobs'[job[w]].attempts = new.attempts
  <1> DEFINE merged == Merged(jobs[job[w]], Columns(jobs[job[w]]), new)
  <1>1. job[w] \in 1..Len(jobs) /\ jobs[job[w]] \in JobRow /\ DOMAIN jobs = 1..Len(jobs)
    BY DEF TypeOK, DbTypeOK, BusyOK, Actors
  <1>2. seenJob[w] = Columns(jobs[job[w]])
    BY DEF SeenInv
  <1>3. jobs' = [jobs EXCEPT ![job[w]] = merged]
    BY <1>2 DEF UpdateJob
  <1>4. /\ merged.doc = jobs[job[w]].doc /\ Columns(merged) = new
        /\ merged.status = new.status /\ merged.stage = new.stage
        /\ merged.attempts = new.attempts
    BY <1>1, MergedCurrent
  <1> HIDE DEF merged
  <1> QED
    BY <1>1, <1>3, <1>4

\* A sequence with one more element.
LEMMA RowAppended ==
    ASSUME NEW S, NEW s \in Seq(S), NEW x \in S
    PROVE  LET n == Len(s) + 1
               t == Append(s, x)
           IN  /\ n \notin DOMAIN s /\ DOMAIN t = DOMAIN s \cup {n} /\ t[n] = x
               /\ DOMAIN s = 1..Len(s) /\ DOMAIN t = 1..n /\ Len(t) = n
               /\ n \in Nat \ {0} /\ \A i \in DOMAIN s : t[i] = s[i]
  OBVIOUS

\* One more element of a sequence equal to k is one more of them to count.
LEMMA CountAppend ==
    ASSUME NEW s \in Seq(Nat), NEW j \in Nat, NEW k \in Nat
    PROVE  /\ Cardinality({r \in DOMAIN s : s[r] = j}) \in Nat
           /\ Cardinality({r \in DOMAIN Append(s, k) : Append(s, k)[r] = j})
                = Cardinality({r \in DOMAIN s : s[r] = j}) + (IF j = k THEN 1 ELSE 0)
  <1> DEFINE S == {r \in DOMAIN s : s[r] = j}
             T == {r \in DOMAIN Append(s, k) : Append(s, k)[r] = j}
             n == Len(s) + 1
  <1>1. DOMAIN s = 1..Len(s) /\ Len(s) \in Nat /\ DOMAIN Append(s, k) = 1..n
    OBVIOUS
  <1>2. IsFiniteSet(1..Len(s)) /\ S \in SUBSET (1..Len(s))
    BY <1>1, FS_Interval
  <1>3. IsFiniteSet(S) /\ Cardinality(S) \in Nat
    BY <1>2, FS_Subset, FS_CardinalityType
  <1>4. (\A r \in 1..Len(s) : Append(s, k)[r] = s[r]) /\ Append(s, k)[n] = k /\ n \notin S
    BY <1>1
  <1>5. 1..n = 1..Len(s) \cup {n}
    BY <1>1
  <1>6. T = IF j = k THEN S \cup {n} ELSE S
    BY <1>1, <1>4, <1>5
  <1> HIDE DEF S, T, n
  <1>7. Cardinality(S \cup {n}) = Cardinality(S) + 1
    BY <1>3, <1>4, FS_AddElement
  <1>8. /\ Cardinality(S) \in Nat
        /\ Cardinality(T) = Cardinality(S) + (IF j = k THEN 1 ELSE 0)
    BY <1>3, <1>6, <1>7
  <1> QED
    BY <1>8 DEF S, T

-----------------------------------------------------------------------------
(* Job rows: attempts, stages and what the session believes                  *)

\* The rows keep what SerialInv says of them if their attempts, their documents and
\* the runs stay.
LEMMA JobRowsKept ==
    ASSUME TypeOK, SerialInv, UNCHANGED runs, DOMAIN jobs' = DOMAIN jobs,
           \A j \in DOMAIN jobs : jobs'[j].attempts = jobs[j].attempts
    PROVE  /\ AttemptsCountRuns'
           /\ \A r \in DOMAIN runs' : runs'[r] \in DOMAIN jobs'
  BY DEF SerialInv, JobsInv, AttemptsCountRuns

\* Steps that change nothing of jobs, workers and runs.
LEMMA UnchangedSerial ==
    ASSUME SerialInv, UNCHANGED <<jobs, pc, target, job, run, seenJob, runs>>
    PROVE  SerialInv'
  BY DEF SerialInv, SeenInv, RunInv, JobsInv, AttemptsCountRuns, HasStarted

\* Steps that leave the workers alone: at most a new job, which no run has.
LEMMA WorkersAlone ==
    ASSUME TypeOK, SerialInv, UNCHANGED runs,
           \A w \in Workers : /\ pc'[w] = pc[w] /\ target'[w] = target[w]
                              /\ job'[w] = job[w] /\ run'[w] = run[w]
                              /\ seenJob'[w] = seenJob[w],
           UNCHANGED jobs \/ \E d \in Docs : jobs' = Append(jobs, NewJob(d))
    PROVE  SerialInv'
  <1>1. CASE UNCHANGED jobs
    BY <1>1 DEF SerialInv, SeenInv, RunInv, JobsInv, AttemptsCountRuns, HasStarted
  <1>2. ASSUME NEW d \in Docs, jobs' = Append(jobs, NewJob(d)) PROVE SerialInv'
    <2> DEFINE n == Len(jobs) + 1
    <2>1. /\ jobs \in Seq(JobRow) /\ Len(jobs) \in Nat /\ DOMAIN jobs = 1..Len(jobs)
          /\ NewJob(d) \in JobRow /\ runs \in Seq(Nat)
      BY DEF TypeOK, DbTypeOK, NewJob, JobRow, JobStatus, Stage
    <2>2. /\ DOMAIN jobs' = DOMAIN jobs \cup {n} /\ n \notin DOMAIN jobs
          /\ jobs'[n] = NewJob(d) /\ \A j \in DOMAIN jobs : jobs'[j] = jobs[j]
      <3>1. LET t == Append(jobs, NewJob(d))
            IN  /\ n \notin DOMAIN jobs /\ DOMAIN t = DOMAIN jobs \cup {n} /\ t[n] = NewJob(d)
                /\ \A j \in DOMAIN jobs : t[j] = jobs[j]
        BY <2>1, RowAppended
      <3> QED
        BY <1>2, <3>1
    <2>3. \A w \in Workers : pc[w] # "idle" => job[w] \in DOMAIN jobs
      BY DEF TypeOK, BusyOK
    <2>4. SeenInv' /\ RunInv'
      BY <2>2, <2>3 DEF SerialInv, SeenInv, RunInv, HasStarted
    <2>5. \A r \in DOMAIN runs : runs[r] \in DOMAIN jobs
      BY DEF SerialInv, JobsInv
    <2>6. AttemptsCountRuns'
      <3>1. {r \in DOMAIN runs : runs[r] = n} = {}
        BY <2>2, <2>5
      <3>2. jobs'[n].attempts = Cardinality({r \in DOMAIN runs : runs[r] = n})
        <4>1. Cardinality({r \in DOMAIN runs : runs[r] = n}) = 0
          BY <3>1, FS_EmptySet
        <4>2. jobs'[n].attempts = 0
          BY <2>2 DEF NewJob
        <4> QED
          BY <4>1, <4>2
      <3>3. \A j \in DOMAIN jobs :
              jobs'[j].attempts = Cardinality({r \in DOMAIN runs : runs[r] = j})
        BY <2>2 DEF SerialInv, JobsInv, AttemptsCountRuns
      <3> QED
        BY <2>2, <3>2, <3>3 DEF AttemptsCountRuns
    <2>7. JobsInv'
      BY <2>2, <2>3, <2>5, <2>6 DEF SerialInv, JobsInv, NewJob
    <2> QED
      BY <2>4, <2>7 DEF SerialInv
  <1> QED
    BY <1>1, <1>2

\* The only worker moves on, or ends in any way, without a word to its job row.
LEMMA JobsAlone ==
    ASSUME OneWorker, NEW w \in Workers, TypeOK, SerialInv,
           UNCHANGED <<jobs, runs>>,
           \/ Leave(w)
           \/ /\ UNCHANGED <<target, job, run, seenJob>>
              /\ pc[w] # "idle" /\ pc'[w] # "idle" /\ (HasStarted(w)' <=> HasStarted(w))
              /\ RowStage(pc'[w]) = RowStage(pc[w])
    PROVE  SerialInv'
  <1> w \in Actors /\ \A v \in Workers : v = w
    BY DEF Actors, OneWorker
  <1>1. /\ AttemptsCountRuns'
        /\ \A r \in DOMAIN runs' : runs'[r] \in DOMAIN jobs'
    BY JobRowsKept
  <1>2. CASE Leave(w)
    <2>1. pc'[w] = "idle"
      BY <1>2 DEF Leave, Goto, TypeOK, LocalsTypeOK
    <2> QED
      BY <1>1, <2>1 DEF SerialInv, SeenInv, RunInv, JobsInv, HasStarted
  <1>3. CASE /\ UNCHANGED <<target, job, run, seenJob>>
             /\ pc[w] # "idle" /\ pc'[w] # "idle" /\ (HasStarted(w)' <=> HasStarted(w))
             /\ RowStage(pc'[w]) = RowStage(pc[w])
    <2>1. SeenInv'
      BY <1>3 DEF SerialInv, SeenInv
    <2>2. RunInv'
      BY <1>3 DEF SerialInv, RunInv
    <2>3. JobsInv'
      BY <1>1, <1>3 DEF SerialInv, JobsInv
    <2> QED
      BY <2>1, <2>2, <2>3 DEF SerialInv
  <1> QED
    BY <1>2, <1>3

\* A run starts: it is the last, its job is RUNNING, and there is one attempt more.
LEMMA StartSerial ==
    ASSUME OneWorker, NEW w \in Workers, TypeOK, SerialInv, Start(w)
    PROVE  SerialInv'
  <1> w \in Actors /\ \A v \in Workers : v = w
    BY DEF Actors, OneWorker
  <1> DEFINE j0  == job[w]
             new == [status |-> "RUNNING", stage |-> "parsing", error |-> FALSE,
                     attempts |-> seenJob[w].attempts + 1]
  <1>1. /\ pc[w] = "loaded" /\ UpdateJob(w, new) /\ seenJob' = [seenJob EXCEPT ![w] = new]
        /\ runs' = Append(runs, j0) /\ run' = [run EXCEPT ![w] = Len(runs) + 1]
        /\ pc' = [pc EXCEPT ![w] = "started"] /\ UNCHANGED <<target, job>>
    BY DEF Start, FlushJob, Goto
  <1>2. new \in JobColumns /\ new.attempts = seenJob[w].attempts + 1
    BY DEF TypeOK, LocalsTypeOK, JobColumns, JobStatus, Stage
  <1>3. new.status = "RUNNING" /\ new.stage = "parsing"
    OBVIOUS
  <1> HIDE DEF new
  <1>4. /\ DOMAIN jobs' = DOMAIN jobs /\ j0 \in DOMAIN jobs
        /\ \A j \in DOMAIN jobs : jobs'[j].doc = jobs[j].doc
        /\ \A j \in DOMAIN jobs : j # j0 => jobs'[j] = jobs[j]
        /\ Columns(jobs'[j0]) = new /\ jobs'[j0].status = "RUNNING"
        /\ jobs'[j0].stage = "parsing" /\ jobs'[j0].attempts = seenJob[w].attempts + 1
    BY <1>1, <1>2, <1>3, UpdateCurrent DEF SerialInv
  <1>5. seenJob[w].attempts = jobs[j0].attempts
    <2>1. seenJob[w] = Columns(jobs[j0])
      BY <1>1 DEF SerialInv, SeenInv
    <2> QED
      BY <2>1 DEF Columns
  <1>6. /\ runs \in Seq(Nat) /\ DOMAIN jobs \subseteq Nat
        /\ seenJob \in [Workers -> JobColumns] /\ run \in [Workers -> Nat]
        /\ pc \in [Actors -> PC]
    BY DEF TypeOK, DbTypeOK, LocalsTypeOK
  <1>7. Len(runs') = Len(runs) + 1 /\ runs'[Len(runs) + 1] = j0
    BY <1>1, <1>4, <1>6
  <1>8. SeenInv'
    BY <1>1, <1>4, <1>6 DEF SeenInv
  <1>9. RunInv'
    BY <1>1, <1>4, <1>6, <1>7 DEF RunInv, RowStage
  <1>10. AttemptsCountRuns'
    <2> SUFFICES ASSUME NEW j \in DOMAIN jobs
                 PROVE  jobs'[j].attempts = Cardinality({r \in DOMAIN runs' : runs'[r] = j})
      BY <1>4 DEF AttemptsCountRuns
    <2>1. jobs[j].attempts = Cardinality({r \in DOMAIN runs : runs[r] = j})
      BY DEF SerialInv, JobsInv, AttemptsCountRuns
    <2>2. Cardinality({r \in DOMAIN runs' : runs'[r] = j})
            = Cardinality({r \in DOMAIN runs : runs[r] = j}) + (IF j = j0 THEN 1 ELSE 0)
          /\ Cardinality({r \in DOMAIN runs : runs[r] = j}) \in Nat
      <3>1. runs \in Seq(Nat) /\ j \in Nat /\ j0 \in Nat
        BY <1>4, <1>6
      <3> HIDE DEF j0
      <3>2. /\ Cardinality({r \in DOMAIN runs : runs[r] = j}) \in Nat
            /\ Cardinality({r \in DOMAIN Append(runs, j0) : Append(runs, j0)[r] = j})
                 = Cardinality({r \in DOMAIN runs : runs[r] = j}) + (IF j = j0 THEN 1 ELSE 0)
        BY <3>1, CountAppend
      <3> QED
        BY <1>1, <3>2
    <2>3. jobs[j].attempts \in Nat
      BY <2>1, <2>2
    <2> QED
      BY <1>4, <1>5, <2>1, <2>2, <2>3
  <1>11. \A r \in DOMAIN runs' : runs'[r] \in DOMAIN jobs
    <2>1. DOMAIN runs' = DOMAIN runs \cup {Len(runs) + 1}
          /\ \A r \in DOMAIN runs : runs'[r] = runs[r]
      BY <1>1, <1>4, <1>6
    <2> QED
      BY <1>4, <1>7, <2>1 DEF SerialInv, JobsInv
  <1>12. JobsInv'
    BY <1>1, <1>4, <1>10, <1>11 DEF SerialInv, JobsInv, Lifecycle!Running
  <1> QED
    BY <1>8, <1>9, <1>12 DEF SerialInv

\* A stage commits what it has to say of the job: the columns it believes, with `stage`.
LEMMA StageSerial ==
    ASSUME OneWorker, NEW w \in Workers, NEW stage \in Stage, NEW label \in PC,
           TypeOK, SerialInv, HasStarted(w),
           FlushJob(w, [seenJob[w] EXCEPT !.stage = stage]),
           Goto(w, label), label \notin {"idle", "opened", "loaded"},
           RowStage(label) = stage, UNCHANGED <<target, job, run, runs>>
    PROVE  SerialInv'
  <1> w \in Actors /\ \A v \in Workers : v = w
    BY DEF Actors, OneWorker
  <1> DEFINE new == [seenJob[w] EXCEPT !.stage = stage]
  <1>1. /\ seenJob[w] \in JobColumns /\ new \in JobColumns
        /\ new.stage = stage /\ new.status = seenJob[w].status
        /\ new.attempts = seenJob[w].attempts
    BY DEF TypeOK, LocalsTypeOK, JobColumns
  <1>2. UpdateJob(w, new) /\ seenJob' = [seenJob EXCEPT ![w] = new]
    BY DEF FlushJob
  <1> HIDE DEF new
  <1>3. /\ DOMAIN jobs' = DOMAIN jobs /\ job[w] \in DOMAIN jobs
        /\ \A j \in DOMAIN jobs : jobs'[j].doc = jobs[j].doc
        /\ \A j \in DOMAIN jobs : j # job[w] => jobs'[j] = jobs[j]
        /\ Columns(jobs'[job[w]]) = new
        /\ jobs'[job[w]].status = new.status /\ jobs'[job[w]].stage = new.stage
        /\ jobs'[job[w]].attempts = new.attempts
    BY <1>1, <1>2, UpdateCurrent DEF SerialInv, HasStarted
  <1>4. jobs[job[w]].status = "RUNNING"
    BY DEF SerialInv, RunInv
  <1>5. new.status = jobs[job[w]].status /\ new.attempts = jobs[job[w]].attempts
    <2>1. seenJob[w] = Columns(jobs[job[w]])
      BY DEF SerialInv, SeenInv, HasStarted
    <2> QED
      BY <1>1, <2>1 DEF Columns
  <1>6. /\ seenJob \in [Workers -> JobColumns] /\ pc' = [pc EXCEPT ![w] = label]
        /\ pc \in [Actors -> PC]
    BY DEF TypeOK, LocalsTypeOK, Goto
  <1>7. SeenInv'
    BY <1>2, <1>3, <1>6 DEF SeenInv
  <1>8. RunInv'
    BY <1>1, <1>3, <1>4, <1>5, <1>6 DEF SerialInv, RunInv, RowStage
  <1>9. /\ AttemptsCountRuns'
        /\ \A r \in DOMAIN runs' : runs'[r] \in DOMAIN jobs'
    BY <1>3, <1>5, JobRowsKept
  <1>10. stage \in Lifecycle!Running
    BY DEF RowStage, Lifecycle!Running
  <1>11. JobsInv'
    BY <1>1, <1>3, <1>6, <1>9, <1>10 DEF SerialInv, JobsInv, HasStarted
  <1> QED
    BY <1>7, <1>8, <1>11 DEF SerialInv

\* A run that gets to its end records it: its job is no longer RUNNING.
LEMMA EndSerial ==
    ASSUME OneWorker, NEW w \in Workers, TypeOK, SerialInv, Finalize(w)
    PROVE  /\ SerialInv' /\ pc[w] # "idle"
           /\ jobs'[job[w]].status = "SUCCEEDED"
           /\ DOMAIN jobs' = DOMAIN jobs
           /\ \A j \in DOMAIN jobs : jobs'[j].doc = jobs[j].doc
           /\ \A j \in DOMAIN jobs : j # job[w] => jobs'[j] = jobs[j]
  <1> w \in Actors /\ \A v \in Workers : v = w
    BY DEF Actors, OneWorker
  <1>1. Leave(w) /\ UNCHANGED runs /\ pc[w] = "embedded"
    BY DEF Finalize
  <1>2. pc' = [pc EXCEPT ![w] = "idle"] /\ pc'[w] = "idle" /\ job[w] \in DOMAIN jobs
    BY <1>1 DEF Leave, Goto, TypeOK, LocalsTypeOK, BusyOK
  <1>3. /\ DOMAIN jobs' = DOMAIN jobs
        /\ \A j \in DOMAIN jobs : jobs'[j].doc = jobs[j].doc
        /\ \A j \in DOMAIN jobs : j # job[w] => jobs'[j] = jobs[j]
        /\ jobs'[job[w]].attempts = jobs[job[w]].attempts
        /\ jobs'[job[w]].status = "SUCCEEDED"
    <2> DEFINE new == [seenJob[w] EXCEPT !.status = "SUCCEEDED", !.stage = "indexed",
                                         !.error = FALSE]
    <2>1. /\ new \in JobColumns /\ new.status = "SUCCEEDED"
          /\ new.attempts = seenJob[w].attempts
      BY DEF TypeOK, LocalsTypeOK, JobColumns, JobStatus, Stage
    <2>2. UpdateJob(w, new)
      BY DEF Finalize
    <2>3. seenJob[w].attempts = jobs[job[w]].attempts
      <3>1. seenJob[w] = Columns(jobs[job[w]])
        BY <1>1 DEF SerialInv, SeenInv
      <3> QED
        BY <3>1 DEF Columns
    <2> HIDE DEF new
    <2> QED
      BY <1>1, <2>1, <2>2, <2>3, UpdateCurrent DEF SerialInv
  <1>4. /\ AttemptsCountRuns'
        /\ \A r \in DOMAIN runs' : runs'[r] \in DOMAIN jobs'
    BY <1>1, <1>3, JobRowsKept
  <1>5. JobsInv'
    BY <1>1, <1>2, <1>3, <1>4 DEF SerialInv, JobsInv
  <1>6. SeenInv' /\ RunInv'
    BY <1>2 DEF SeenInv, RunInv, HasStarted
  <1> QED
    BY <1>1, <1>3, <1>5, <1>6 DEF SerialInv

LEMMA RunStepSerial ==
    ASSUME OneWorker, NEW w \in Workers, TypeOK, SerialInv,
           \/ \E j \in DOMAIN jobs : LoadJob(w, j)
           \/ RunStep(w) \/ StageFails(w) \/ Crash(w)
    PROVE  SerialInv'
  <1> w \in Actors /\ \A v \in Workers : v = w
    BY DEF Actors, OneWorker
  <1> pc \in [Actors -> PC]
    BY DEF TypeOK, LocalsTypeOK
  <1>1. ASSUME NEW j \in DOMAIN jobs, LoadJob(w, j) PROVE SerialInv'
    <2>1. /\ pc' = [pc EXCEPT ![w] = "opened"] /\ job' = [job EXCEPT ![w] = j]
          /\ seenJob' = [seenJob EXCEPT ![w] = Columns(jobs[j])]
          /\ target' = [target EXCEPT ![w] = jobs[j].doc] /\ UNCHANGED <<jobs, run, runs>>
      BY <1>1 DEF LoadJob, Goto, db
    <2>2. /\ job \in [Workers -> Nat] /\ seenJob \in [Workers -> JobColumns]
          /\ target \in [Actors -> Docs \cup {NoDoc}]
      BY DEF TypeOK, LocalsTypeOK
    <2>3. /\ AttemptsCountRuns'
          /\ \A r \in DOMAIN runs' : runs'[r] \in DOMAIN jobs'
      BY <2>1, JobRowsKept
    <2> QED
      BY <2>1, <2>2, <2>3 DEF SerialInv, SeenInv, RunInv, JobsInv, HasStarted
  <1>2. CASE LoadDocument(w)
    BY <1>2, JobsAlone DEF LoadDocument, HasStarted, RowStage, Goto, db, tx
  <1>3. CASE Start(w)
    BY <1>3, StartSerial
  <1>4. CASE ClearStep(w)
    <2>1. /\ UNCHANGED <<jobs, runs, target, job, run, seenJob>>
          /\ pc[w] \in {"started"} \cup Clearing /\ pc'[w] \in Clearing
      BY <1>4 DEF ClearStep, DeleteChunks, ChunksDeleted, DeletePages,
                  PagesDeleted, Goto, Clearing, db, locals
    <2>2. RowStage(pc'[w]) = RowStage(pc[w])
      BY <2>1 DEF RowStage, Clearing
    <2> QED
      BY <2>1, <2>2, JobsAlone DEF HasStarted, Clearing
  <1>5. ASSUME NEW layout \in Layouts, CommitParse(w, layout) PROVE SerialInv'
    <2>1. /\ UNCHANGED <<jobs, runs>> /\ pc[w] = "cleared"
          /\ \/ Leave(w)
             \/ pc' = [pc EXCEPT ![w] = "parsed"] /\ UNCHANGED <<target, job, run, seenJob>>
      BY <1>5 DEF CommitParse, Goto, locals
    <2> QED
      BY <2>1, JobsAlone DEF HasStarted, RowStage
  <1>6. CASE ReadPages(w) \/ ReadChunks(w)
    BY <1>6, JobsAlone DEF ReadPages, ReadChunks, HasStarted, RowStage, Goto, db, locals
  <1>7. CASE CommitChunks(w)
    <2>1. /\ pc[w] = "pagesRead" /\ UNCHANGED runs
          /\ \/ Leave(w) /\ UNCHANGED jobs
             \/ /\ FlushJob(w, [seenJob[w] EXCEPT !.stage = "chunking"]) /\ Goto(w, "chunked")
                /\ UNCHANGED <<target, job, run>>
      BY <1>7 DEF CommitChunks
    <2> QED
      BY <2>1, JobsAlone, StageSerial DEF HasStarted, RowStage, Stage, PC
  <1>8. CASE CommitEmbeddings(w)
    BY <1>8, StageSerial DEF CommitEmbeddings, HasStarted, RowStage, Stage, PC
  <1>9. CASE Finalize(w)
    BY <1>9, EndSerial
  <1>10. CASE StageFails(w)
    BY <1>10, JobsAlone DEF StageFails, db
  <1>11. CASE Crash(w)
    BY <1>11, JobsAlone DEF Crash, db
  <1>12. CASE LockRow(w)
    BY <1>12, UnchangedSerial DEF LockRow, db, locals
  <1> QED
    BY <1>1, <1>2, <1>3, <1>4, <1>5, <1>6, <1>7, <1>8, <1>9, <1>10, <1>11, <1>12 DEF RunStep

LEMMA RequestStepSerial ==
    ASSUME NEW r \in Requests, TypeOK, SerialInv,
           \/ \E d \in Docs : OpenReprocess(r, d)
           \/ ReprocessStep(r) \/ AbortReprocess(r)
    PROVE  SerialInv'
  <1>1. UNCHANGED jobs \/ \E d \in Docs : jobs' = Append(jobs, NewJob(d))
    <2>1. CASE CommitReprocess(r)
      BY <2>1 DEF CommitReprocess, TypeOK, BusyOK, Actors
    <2> QED
      BY <2>1, RequestStepFrame DEF db
  <1> QED
    BY <1>1, RequestStepFrame, WorkersAlone

LEMMA SerialNext ==
    ASSUME OneWorker, TypeOK, SerialInv, [Next]_vars
    PROVE  SerialInv'
  <1>1. ASSUME NEW d \in Docs, CreateDocument(d) \/ SoftDelete(d) PROVE SerialInv'
    BY <1>1, WorkersAlone DEF CreateDocument, SoftDelete, locals, tx
  <1>2. CASE UNCHANGED vars
    BY <1>2, WorkersAlone DEF vars, db, locals
  <1> QED
    BY <1>1, <1>2, RunStepSerial, RequestStepSerial DEF Next, Quiescent

LEMMA SerialInit == Init => SerialInv
  <1> SUFFICES ASSUME Init PROVE SerialInv
    OBVIOUS
  <1>1. AttemptsCountRuns /\ \A r \in DOMAIN runs : runs[r] \in DOMAIN jobs
    BY DEF Init, AttemptsCountRuns
  <1> QED
    BY <1>1 DEF Init, SerialInv, SeenInv, RunInv, JobsInv, HasStarted, Actors

LEMMA SerialCorrect ==
    ASSUME OneWorker
    PROVE  Spec => [](TypeOK /\ SerialInv)
  <1>1. TypeOK /\ SerialInv /\ [Next]_vars => SerialInv'
    BY SerialNext
  <1> QED
    BY <1>1, SerialInit, TypeCorrect, PTL DEF Spec

\* With a single worker `attempts` of a job counts the runs that started on it,
\* however many of them crash or fail and however many requests create jobs meanwhile.
THEOREM AttemptsCorrect ==
    ASSUME OneWorker
    PROVE  Spec => []AttemptsCountRuns
  <1>1. SerialInv => AttemptsCountRuns
    BY DEF SerialInv, JobsInv
  <1> QED
    BY <1>1, SerialCorrect, PTL

-----------------------------------------------------------------------------
(* A single worker implements JobLifecycle                                   *)

\* The refinement mapping of IngestionLifecycle, by name.
Phases == [j \in DOMAIN jobs |-> PhaseOf(jobs[j])]
Live   == IF Started = {} THEN 0 ELSE job[CHOOSE w \in Started : TRUE]

\* The job being worked on is that of the only worker, once its run has started.
LEMMA LiveJob ==
    ASSUME OneWorker, NEW w \in Workers
    PROVE  Live = IF HasStarted(w) THEN job[w] ELSE 0
  <1>1. \A v \in Workers : v = w
    BY DEF OneWorker
  <1>2. Started = IF HasStarted(w) THEN {w} ELSE {}
    BY <1>1 DEF Started, HasStarted
  <1> QED
    BY <1>2 DEF Live

\* The same after a step.
LEMMA LiveJobNext ==
    ASSUME OneWorker, NEW w \in Workers
    PROVE  Live' = IF HasStarted(w)' THEN job'[w] ELSE 0
  <1>1. \A v \in Workers : v = w
    BY DEF OneWorker
  <1>2. Started' = IF HasStarted(w)' THEN {w} ELSE {}
    BY <1>1 DEF Started, HasStarted
  <1> QED
    BY <1>2 DEF Live

\* Without a worker nothing is being worked on.
LEMMA NothingLive ==
    ASSUME Workers = {}
    PROVE  Live = 0 /\ Live' = 0
  BY DEF Live, Started

\* A row that changes changes the phase of its job only.
LEMMA PhaseChanged ==
    ASSUME TypeOK, TypeOK', NEW k \in DOMAIN jobs, DOMAIN jobs' = DOMAIN jobs,
           \A j \in DOMAIN jobs : j # k => jobs'[j] = jobs[j]
    PROVE  Phases' = [Phases EXCEPT ![k] = PhaseOf(jobs'[k])]
  BY DEF Phases

\* A job that is RUNNING is in the phase its stage names.
LEMMA RunningPhase ==
    ASSUME TypeOK, SerialInv, NEW w \in Workers, HasStarted(w)
    PROVE  /\ job[w] \in DOMAIN jobs /\ job[w] # 0 /\ Phases[job[w]] \in Lifecycle!Running
           /\ Phases[job[w]] = RowStage(pc[w])
  <1>1. job[w] \in DOMAIN jobs /\ job[w] # 0
    BY DEF TypeOK, DbTypeOK, BusyOK, HasStarted
  <1>2. jobs[job[w]].status = "RUNNING" /\ jobs[job[w]].stage \in Lifecycle!Running
    BY <1>1 DEF SerialInv, RunInv, JobsInv
  <1>3. Phases[job[w]] = jobs[job[w]].stage
    BY <1>1, <1>2 DEF Phases, PhaseOf
  <1> QED
    BY <1>1, <1>2, <1>3 DEF SerialInv, RunInv

\* Nothing the abstraction sees.
LEMMA StutterStep ==
    ASSUME OneWorker, NEW w \in Workers, UNCHANGED jobs, HasStarted(w)' <=> HasStarted(w),
           HasStarted(w) => job'[w] = job[w]
    PROVE  UNCHANGED <<Phases, Live>>
  <1>1. Phases' = Phases
    BY DEF Phases
  <1> QED
    BY <1>1, LiveJob, LiveJobNext

\* A new job is enqueued, whatever the worker does.
LEMMA EnqueueStep ==
    ASSUME OneWorker, TypeOK, NEW d \in Docs, jobs' = Append(jobs, NewJob(d)),
           \A w \in Workers : pc'[w] = pc[w] /\ job'[w] = job[w]
    PROVE  Lifecycle!Enqueue
  <1>1. jobs \in Seq(JobRow) /\ NewJob(d) \in JobRow
    BY DEF TypeOK, DbTypeOK, NewJob, JobRow, JobStatus, Stage
  <1> DEFINE n == Len(jobs) + 1
  <1>2. /\ n \notin DOMAIN jobs /\ DOMAIN jobs' = DOMAIN jobs \cup {n}
        /\ jobs'[n] = NewJob(d) /\ \A j \in DOMAIN jobs : jobs'[j] = jobs[j]
        /\ DOMAIN jobs = 1..Len(jobs) /\ DOMAIN jobs' = 1..n /\ n \in Nat
    <2>1. LET t == Append(jobs, NewJob(d))
          IN  /\ n \notin DOMAIN jobs /\ DOMAIN t = DOMAIN jobs \cup {n} /\ t[n] = NewJob(d)
              /\ \A j \in DOMAIN jobs : t[j] = jobs[j]
              /\ DOMAIN jobs = 1..Len(jobs) /\ DOMAIN t = 1..n /\ n \in Nat
      BY <1>1, RowAppended
    <2> QED
      BY <2>1
  <1>3. PhaseOf(NewJob(d)) = "pending"
    BY DEF PhaseOf, NewJob
  <1>4. Phases' = Append(Phases, "pending")
    <2> DEFINE P == {PhaseOf(jobs[j]) : j \in DOMAIN jobs} \cup {"pending"}
    <2>1. Phases \in Seq(P) /\ Len(Phases) = Len(jobs)
      <3>1. Len(jobs) \in Nat
        BY <1>1
      <3>2. Phases \in [1..Len(jobs) -> P]
        BY <1>2 DEF Phases
      <3> HIDE DEF P
      <3> QED
        BY <3>1, <3>2
    <2> HIDE DEF P
    <2>2. "pending" \in P
      BY DEF P
    <2>3. LET t == Append(Phases, "pending")
          IN  /\ DOMAIN t = 1..n /\ t[n] = "pending" /\ DOMAIN Phases = 1..Len(jobs)
              /\ \A j \in DOMAIN Phases : t[j] = Phases[j]
      BY <2>1, <2>2, RowAppended
    <2>4. /\ DOMAIN Phases' = 1..n /\ Phases'[n] = "pending"
          /\ \A j \in DOMAIN jobs : Phases'[j] = Phases[j]
      BY <1>2, <1>3 DEF Phases
    <2>5. Append(Phases, "pending") \in Seq(P) /\ Len(Append(Phases, "pending")) = n
      BY <2>1, <2>2
    <2>6. Phases' \in Seq(P) /\ Len(Phases') = n
      <3>1. \A j \in 1..n : Phases'[j] \in P
        <4>1. \A j \in DOMAIN jobs : Phases'[j] \in P
          BY <2>4 DEF P, Phases
        <4> QED
          BY <1>2, <2>2, <2>4, <4>1
      <3>2. Phases' \in [1..n -> P]
        BY <1>2, <3>1 DEF Phases
      <3> HIDE DEF n
      <3> QED
        BY <1>2, <3>2
    <2>7. \A j \in 1..n : Phases'[j] = Append(Phases, "pending")[j]
      BY <1>2, <2>3, <2>4
    <2> HIDE DEF n
    <2> QED
      BY <2>5, <2>6, <2>7, SeqEqual
  <1>5. Live' = Live
    <2>1. CASE Workers = {}
      BY <2>1, NothingLive
    <2>2. ASSUME NEW w \in Workers PROVE Live' = Live
      <3>1. HasStarted(w)' <=> HasStarted(w)
        BY DEF HasStarted
      <3> QED
        BY <3>1, LiveJob, LiveJobNext
    <2> QED
      BY <2>1, <2>2
  <1> QED
    BY <1>4, <1>5 DEF Lifecycle!Enqueue, Phases, Live

\* Every step of the worker is one of the job it works on, or none.
LEMMA RunStepRefines ==
    ASSUME OneWorker, NEW w \in Workers, TypeOK, TypeOK', SerialInv, SerialInv',
           \/ \E j \in DOMAIN jobs : LoadJob(w, j)
           \/ RunStep(w) \/ StageFails(w) \/ Crash(w)
    PROVE  Lifecycle!Next \/ UNCHANGED <<Phases, Live>>
  <1> w \in Actors
    BY DEF Actors
  <1> pc \in [Actors -> PC]
    BY DEF TypeOK, LocalsTypeOK
  <1> USE DEF HasStarted
  <1>1. ASSUME UNCHANGED jobs, Leave(w) PROVE Lifecycle!Next \/ UNCHANGED <<Phases, Live>>
    <2>1. pc'[w] = "idle" /\ Phases' = Phases
      BY <1>1 DEF Leave, Goto, Phases
    <2>2. CASE HasStarted(w)
      <3>1. Live # 0 /\ Live' = 0
        BY <2>1, <2>2, LiveJob, LiveJobNext, RunningPhase
      <3> QED
        BY <2>1, <3>1 DEF Lifecycle!Next, Lifecycle!Abandon, Phases, Live
    <2>3. CASE ~HasStarted(w)
      BY <1>1, <2>1, <2>3, StutterStep
    <2> QED
      BY <2>2, <2>3
  <1>2. CASE LockRow(w)
    BY <1>2, StutterStep DEF LockRow, db, locals
  <1>3. ASSUME NEW label \in Stage, NEW next \in Stage, HasStarted(w),
               DOMAIN jobs' = DOMAIN jobs, UNCHANGED job, HasStarted(w)',
               \A j \in DOMAIN jobs : j # job[w] => jobs'[j] = jobs[j],
               RowStage(pc[w]) = label, PhaseOf(jobs'[job[w]]) = next,
               <<label, next>> \in {<<"parsing", "chunking">>, <<"chunking", "embedding">>}
        PROVE  Lifecycle!Next
    <2>1. /\ job[w] \in DOMAIN jobs /\ job[w] # 0
          /\ Phases[job[w]] = label /\ label \in Lifecycle!Running
      BY <1>3, RunningPhase
    <2>2. Phases' = [Phases EXCEPT ![job[w]] = next]
      BY <1>3, <2>1, PhaseChanged
    <2>3. Live = job[w] /\ Live' = job[w]
      BY <1>3, LiveJob, LiveJobNext
    <2>4. Lifecycle!After[label] = next /\ label # "embedding"
      BY <1>3 DEF Lifecycle!After
    <2>5. /\ Live # 0 /\ Phases[Live] \in Lifecycle!Running
          /\ Phases' = [Phases EXCEPT ![Live] = Lifecycle!After[@]]
          /\ Live' = IF Phases[Live] = "embedding" THEN 0 ELSE Live
      BY <2>1, <2>2, <2>3, <2>4
    <2> QED
      BY <2>5 DEF Lifecycle!Next, Lifecycle!Advance, Phases, Live
  <1>4. ASSUME NEW j \in DOMAIN jobs, LoadJob(w, j) PROVE UNCHANGED <<Phases, Live>>
    BY <1>4, StutterStep DEF LoadJob, Goto, db
  <1>5. CASE LoadDocument(w)
    <2>1. CASE target[w] \in deleted
      BY <1>1, <1>5, <2>1 DEF LoadDocument, db
    <2>2. CASE target[w] \notin deleted
      BY <1>5, <2>2, StutterStep DEF LoadDocument, Goto, db
    <2> QED
      BY <2>1, <2>2
  <1>6. CASE Start(w)
    <2> DEFINE new == [status |-> "RUNNING", stage |-> "parsing", error |-> FALSE,
                       attempts |-> seenJob[w].attempts + 1]
    <2>1. /\ pc[w] = "loaded" /\ UpdateJob(w, new) /\ UNCHANGED job /\ pc'[w] = "started"
      BY <1>6 DEF Start, FlushJob, Goto
    <2>2. new \in JobColumns /\ new.status = "RUNNING" /\ new.stage = "parsing"
      BY DEF TypeOK, LocalsTypeOK, JobColumns, JobStatus, Stage
    <2> HIDE DEF new
    <2>3. /\ DOMAIN jobs' = DOMAIN jobs /\ job[w] \in DOMAIN jobs
          /\ \A j \in DOMAIN jobs : j # job[w] => jobs'[j] = jobs[j]
          /\ jobs'[job[w]].status = "RUNNING" /\ jobs'[job[w]].stage = "parsing"
      BY <2>1, <2>2, UpdateCurrent DEF SerialInv
    <2>4. Phases' = [Phases EXCEPT ![job[w]] = "parsing"]
      <3>1. PhaseOf(jobs'[job[w]]) = "parsing"
        BY <2>3 DEF PhaseOf
      <3> QED
        BY <2>3, <3>1, PhaseChanged
    <2>5. Live = 0 /\ Live' = job[w]
      BY <2>1, LiveJob, LiveJobNext
    <2>6. job[w] \in DOMAIN Phases
      BY <2>3 DEF Phases
    <2>7. Lifecycle!Start(job[w])
      BY <2>4, <2>5 DEF Lifecycle!Start, Phases, Live
    <2> QED
      BY <2>6, <2>7 DEF Lifecycle!Next, Phases
  <1>7. CASE ClearStep(w)
    <2>1. /\ UNCHANGED <<jobs, job>>
          /\ pc[w] \in {"started"} \cup Clearing /\ pc'[w] \in Clearing
      BY <1>7 DEF ClearStep, DeleteChunks, ChunksDeleted, DeletePages,
                  PagesDeleted, Goto, Clearing, db, locals
    <2> QED
      BY <2>1, StutterStep DEF Clearing
  <1>8. ASSUME NEW layout \in Layouts, CommitParse(w, layout)
        PROVE  Lifecycle!Next \/ UNCHANGED <<Phases, Live>>
    <2>1. UNCHANGED jobs /\ pc[w] = "cleared"
          /\ (Leave(w) \/ (pc' = [pc EXCEPT ![w] = "parsed"] /\ UNCHANGED job))
      BY <1>8 DEF CommitParse, Goto, locals
    <2> QED
      BY <1>1, <2>1, StutterStep
  <1>9. CASE ReadPages(w) \/ ReadChunks(w)
    BY <1>9, StutterStep DEF ReadPages, ReadChunks, Goto, db, locals
  <1>10. ASSUME NEW stage \in Stage, NEW label \in PC, HasStarted(w),
                FlushJob(w, [seenJob[w] EXCEPT !.stage = stage]), UNCHANGED job,
                Goto(w, label), label \notin {"idle", "opened", "loaded"},
                RowStage(label) = stage,
                <<RowStage(pc[w]), stage>>
                  \in {<<"parsing", "chunking">>, <<"chunking", "embedding">>}
         PROVE  Lifecycle!Next
    <2> DEFINE new == [seenJob[w] EXCEPT !.stage = stage]
    <2>1. new \in JobColumns
      BY DEF TypeOK, LocalsTypeOK, JobColumns
    <2>2. UpdateJob(w, new)
      BY <1>10 DEF FlushJob
    <2> HIDE DEF new
    <2>3. /\ DOMAIN jobs' = DOMAIN jobs /\ job[w] \in DOMAIN jobs
          /\ \A j \in DOMAIN jobs : j # job[w] => jobs'[j] = jobs[j]
      BY <1>10, <2>1, <2>2, UpdateCurrent DEF SerialInv
    <2>4. HasStarted(w)' /\ pc'[w] = label
      BY <1>10 DEF Goto
    <2>5. jobs'[job[w]].status = "RUNNING" /\ jobs'[job[w]].stage = stage
      BY <1>10, <2>4 DEF SerialInv, RunInv
    <2>6. PhaseOf(jobs'[job[w]]) = stage
      BY <2>5 DEF PhaseOf
    <2>7. RowStage(pc[w]) \in Stage
      BY <1>10 DEF Stage
    <2> QED
      BY <1>3, <1>10, <2>3, <2>4, <2>6, <2>7
  <1>11. CASE CommitChunks(w)
    <2>1. /\ pc[w] = "pagesRead" /\ UNCHANGED runs
          /\ \/ Leave(w) /\ UNCHANGED jobs
             \/ /\ FlushJob(w, [seenJob[w] EXCEPT !.stage = "chunking"]) /\ Goto(w, "chunked")
                /\ UNCHANGED <<target, job, run>>
      BY <1>11 DEF CommitChunks
    <2> QED
      BY <1>1, <1>10, <2>1 DEF RowStage, Stage, PC
  <1>12. CASE CommitEmbeddings(w)
    BY <1>10, <1>12 DEF CommitEmbeddings, RowStage, Stage, PC
  <1>13. CASE Finalize(w)
    <2>1. Leave(w) /\ pc[w] = "embedded"
      BY <1>13 DEF Finalize
    <2>2. pc'[w] = "idle"
      BY <2>1 DEF Leave, Goto
    <2>3. /\ jobs'[job[w]].status = "SUCCEEDED" /\ DOMAIN jobs' = DOMAIN jobs
          /\ \A j \in DOMAIN jobs : j # job[w] => jobs'[j] = jobs[j]
      BY <1>13, EndSerial
    <2>4. Live = job[w] /\ Live' = 0
      BY <2>1, <2>2, LiveJob, LiveJobNext
    <2>5. /\ job[w] \in DOMAIN jobs /\ job[w] # 0 /\ Phases[job[w]] \in Lifecycle!Running
          /\ Phases[job[w]] = "embedding"
      BY <2>1, RunningPhase DEF RowStage
    <2>6. PhaseOf(jobs'[job[w]]) = "succeeded"
      BY <2>3 DEF PhaseOf
    <2>7. Phases' = [Phases EXCEPT ![job[w]] = "succeeded"]
      BY <2>3, <2>5, <2>6, PhaseChanged
    <2>8. /\ Live # 0 /\ Phases[Live] \in Lifecycle!Running
          /\ Phases' = [Phases EXCEPT ![Live] = Lifecycle!After[@]]
          /\ Live' = IF Phases[Live] = "embedding" THEN 0 ELSE Live
      <3>1. Lifecycle!After["embedding"] = "succeeded"
        BY DEF Lifecycle!After
      <3> QED
        BY <2>4, <2>5, <2>7, <3>1
    <2> QED
      BY <2>8 DEF Lifecycle!Next, Lifecycle!Advance, Phases, Live
  <1>14. CASE StageFails(w)
    BY <1>1, <1>14 DEF StageFails, db
  <1>15. CASE Crash(w)
    BY <1>1, <1>15 DEF Crash, db
  <1> QED
    BY <1>2, <1>4, <1>5, <1>6, <1>7, <1>8, <1>9, <1>11, <1>12, <1>13, <1>14, <1>15 DEF RunStep

\* With a single worker the rows of ingestion_jobs move only as JobLifecycle allows:
\* no crash, failure, re-run or overlapping reprocess request makes a job skip a stage,
\* change while another is worked on, or keep a column of an earlier attempt.
THEOREM JobLifecycleImplemented ==
    ASSUME OneWorker
    PROVE  Spec => ImplementsJobLifecycle
  <1>1. Init => Lifecycle!Init
    <2> SUFFICES ASSUME Init PROVE Lifecycle!Init
      OBVIOUS
    <2>1. jobs = <<>> /\ \A w \in Workers : pc[w] = "idle"
      BY DEF Init, Actors
    <2>2. Phases = <<>>
      BY <2>1 DEF Phases
    <2>3. Live = 0
      BY <2>1 DEF Live, Started
    <2> QED
      BY <2>2, <2>3 DEF Lifecycle!Init, Phases, Live
  <1>2. ASSUME TypeOK, TypeOK', SerialInv, SerialInv', [Next]_vars
        PROVE  [Lifecycle!Next]_<<Phases, Live>>
    <2>1. ASSUME NEW r \in Requests,
                 \/ \E d \in Docs : OpenReprocess(r, d)
                 \/ ReprocessStep(r) \/ AbortReprocess(r)
          PROVE  Lifecycle!Enqueue \/ UNCHANGED <<Phases, Live>>
      <3>1. /\ \A w \in Workers : pc'[w] = pc[w] /\ job'[w] = job[w]
            /\ UNCHANGED jobs \/ CommitReprocess(r)
        BY <1>2, <2>1, RequestStepFrame DEF db
      <3>2. CASE CommitReprocess(r)
        BY <1>2, <3>1, <3>2, EnqueueStep DEF CommitReprocess, TypeOK, BusyOK, Actors
      <3>3. CASE UNCHANGED jobs
        <4>1. Phases' = Phases
          BY <3>3 DEF Phases
        <4>2. CASE Workers = {}
          BY <4>1, <4>2, NothingLive
        <4>3. ASSUME NEW w \in Workers PROVE UNCHANGED <<Phases, Live>>
          BY <3>1, <3>3, StutterStep DEF HasStarted
        <4> QED
          BY <4>2, <4>3
      <3> QED
        BY <3>1, <3>2, <3>3
    <2>2. ASSUME NEW d \in Docs, CreateDocument(d) PROVE Lifecycle!Enqueue
      BY <1>2, <2>2, EnqueueStep DEF CreateDocument, locals
    <2>3. ASSUME NEW d \in Docs, SoftDelete(d) PROVE UNCHANGED <<Phases, Live>>
      BY <2>3 DEF SoftDelete, locals, Phases, Live, Started
    <2>4. CASE UNCHANGED vars
      BY <2>4 DEF vars, db, locals, Phases, Live, Started
    <2> QED
      BY <1>2, <2>1, <2>2, <2>3, <2>4, RunStepRefines DEF Next, Quiescent, Lifecycle!Next
  <1>3. TypeOK /\ TypeOK' /\ SerialInv /\ SerialInv' /\ [Next]_vars
          => [Lifecycle!Next]_<<Phases, Live>>
    BY <1>2
  <1> QED
    BY <1>1, <1>3, SerialCorrect, PTL DEF Spec, ImplementsJobLifecycle, Lifecycle!Spec, Phases, Live

-----------------------------------------------------------------------------
(* The chunks of a document come from one run                                *)

\* Steps that change nothing of what the invariant looks at.
LEMMA UnchangedChunks ==
    ASSUME ChunksInv, UNCHANGED <<chunks, pages, runs, pc, target, run, rows, delC>>
    PROVE  ChunksInv'
  BY DEF ChunksInv, ChunksOfOneRun, ChunkIdsInv, DeletedApart, DeletedOf, WaitsOf,
         ClearedOf, ReadOf, Unchunked, ChunksOf, Ids

\* Only actor a moves, no chunk does, and no worker begins to chunk anew.
LEMMA OneMoves ==
    ASSUME NEW a \in Actors, TypeOK, ChunksInv, UNCHANGED <<chunks, runs>>, IsFiniteSet(pages'),
           \A b \in Actors \ {a} : /\ pc'[b] = pc[b] /\ target'[b] = target[b]
                                   /\ rows'[b] = rows[b] /\ delC'[b] = delC[b]
                                   /\ delC'[a] \cap delC[b] = {},
           \A w \in Workers \ {a} : run'[w] = run[w],
           \A w \in Workers : Unchunked(w)' => Unchunked(w) /\ run'[w] = run[w],
           DeletedOf(a)', WaitsOf(a)', a \in Workers => ClearedOf(a)' /\ ReadOf(a)'
    PROVE  ChunksInv'
  <1>1. ChunksOfOneRun' /\ ChunkIdsInv'
    BY DEF ChunksInv, ChunksOfOneRun, ChunkIdsInv, ChunksOf
  <1>2. DeletedApart'
    BY DEF ChunksInv, DeletedApart
  <1>3. ASSUME NEW b \in Actors \ {a} PROVE DeletedOf(b)' /\ WaitsOf(b)'
    <2>1. /\ Ids(ChunksOf(target[b]))' = Ids(ChunksOf(target[b]))
          /\ Ids(chunks)' = Ids(chunks)
      BY <1>3 DEF ChunksOf, Ids
    <2>2. DeletedOf(b) /\ WaitsOf(b)
      BY <1>3 DEF ChunksInv
    <2>3. DeletedOf(b)'
      BY <1>3, <2>1, <2>2 DEF DeletedOf
    <2>4. WaitsOf(b)'
      BY <1>3, <2>1, <2>2 DEF WaitsOf
    <2> QED
      BY <2>3, <2>4
  <1>4. ASSUME NEW w \in Workers \ {a} PROVE ClearedOf(w)' /\ ReadOf(w)'
    BY <1>4 DEF ChunksInv, ClearedOf, ReadOf, ChunksOf, Actors
  <1> QED
    BY <1>1, <1>2, <1>3, <1>4 DEF ChunksInv

\* Where nothing is deleted yet.
LEMMA NoChunkDeleted ==
    ASSUME NEW a \in Actors, ChunksInv, pc[a] \notin {"clearedChunks", "deletingPages", "cleared"}
    PROVE  delC[a] = {}
  BY DEF ChunksInv, DeletedOf

\* Actor a ends its transaction without publishing it, or has none open.
LEMMA NothingPublished ==
    ASSUME NEW a \in Actors, TypeOK, ChunksInv, UNCHANGED <<chunks, pages, runs>>,
           \A b \in Actors \ {a} : /\ pc'[b] = pc[b] /\ target'[b] = target[b]
                                   /\ rows'[b] = rows[b] /\ delC'[b] = delC[b],
           \A w \in Workers \ {a} : run'[w] = run[w],
           a \in Workers => ~Unchunked(a)', pc'[a] # "deletingChunks", delC'[a] = {}
    PROVE  ChunksInv'
  <1>1. \A w \in Workers : Unchunked(w)' => Unchunked(w) /\ run'[w] = run[w]
    BY DEF Unchunked, Actors
  <1>2. DeletedOf(a)' /\ WaitsOf(a)'
    BY DEF DeletedOf, WaitsOf
  <1>3. a \in Workers => ClearedOf(a)' /\ ReadOf(a)'
    BY DEF ClearedOf, ReadOf, Unchunked, Clearing
  <1>4. IsFiniteSet(pages')
    BY DEF ChunksInv
  <1> QED
    BY <1>1, <1>2, <1>3, <1>4, OneMoves

\* The two DELETE statements.
LEMMA ClearStepChunks ==
    ASSUME NEW a \in Actors, TypeOK, ChunksInv, ClearStep(a)
    PROVE  ChunksInv'
  <1> DEFINE ids == Ids(ChunksOf(target[a]))
  <1>1. UNCHANGED <<chunks, pages, runs, target, run>>
    BY DEF ClearStep, DeleteChunks, ChunksDeleted, DeletePages, PagesDeleted, db, locals
  <1>2. /\ pc \in [Actors -> PC] /\ delC \in [Actors -> SUBSET ChunkId]
        /\ rows \in [Actors -> SUBSET (PageRow \cup ChunkId)]
        /\ Len(runs) \in Nat /\ IsFiniteSet(pages')
    BY <1>1 DEF TypeOK, DbTypeOK, LocalsTypeOK, TxTypeOK, ChunksInv
  <1>3. /\ \A b \in Actors \ {a} : /\ pc'[b] = pc[b] /\ rows'[b] = rows[b]
                                   /\ delC'[b] = delC[b]
        /\ pc[a] \in {"started"} \cup Clearing /\ pc'[a] \in Clearing
    BY <1>2 DEF ClearStep, DeleteChunks, ChunksDeleted, DeletePages, PagesDeleted,
                Goto, Clearing
  <1>4. \A w \in Workers : Unchunked(w)' <=> Unchunked(w)
    BY <1>3 DEF Unchunked, Actors
  <1>5. ChunksOf(target[a])' = ChunksOf(target[a])
    BY <1>1 DEF ChunksOf
  <1>6. a \in Workers => ReadOf(a)'
    BY <1>3 DEF ReadOf, Clearing
  <1>7. \A i \in ids : i \in Ids(chunks) /\ i.src.doc = target[a] /\ i.run <= Len(runs)
                       /\ \A w \in Workers : Unchunked(w) => i.run # run[w]
    BY DEF ids, Ids, ChunksOf, ChunksInv, ChunkIdsInv, ClearedOf
  <1>8. /\ \/ pc'[a] = "deletingChunks" /\ delC'[a] = {} /\ rows'[a] = ids
           \/ /\ pc'[a] \in {"clearedChunks", "deletingPages", "cleared"}
              /\ delC'[a] \in {{}, ids} /\ (a \in Workers => delC'[a] = ids)
        /\ \A b \in Actors \ {a} : delC'[a] \cap delC[b] = {}
    <2>1. CASE DeleteChunks(a)
      <3>1. delC[a] = {}
        BY <2>1, NoChunkDeleted DEF DeleteChunks
      <3>2. /\ rows' = [rows EXCEPT ![a] = ids] /\ pc' = [pc EXCEPT ![a] = "deletingChunks"]
            /\ UNCHANGED delC
        BY <2>1 DEF DeleteChunks, Goto
      <3> HIDE DEF ids
      <3> QED
        BY <1>2, <3>1, <3>2
    <2>2. CASE ChunksDeleted(a)
      <3>1. /\ pc[a] = "deletingChunks" /\ pc'[a] = "clearedChunks"
            /\ delC'[a] = rows[a] \cap Ids(chunks)
            /\ Wants(a) \cap Taken(a) = {}
        BY <1>2, <2>2 DEF ChunksDeleted, Goto
      <3>2. rows[a] \cap Ids(chunks) \subseteq ids
        BY <3>1 DEF ChunksInv, WaitsOf, ids, Ids, ChunksOf
      <3>3. rows[a] \cap Ids(chunks) # {} => ids \subseteq rows[a]
        BY <3>1 DEF ChunksInv, WaitsOf
      <3>4. a \in Workers => ids \subseteq rows[a]
        BY <3>1 DEF ChunksInv, ClearedOf
      <3>5. ids \subseteq Ids(chunks)
        BY <1>7
      <3>6. Wants(a) = rows[a] \cap Ids(chunks)
        BY <3>1 DEF Wants
      <3>7. ASSUME NEW b \in Actors \ {a} PROVE delC'[a] \cap delC[b] = {}
        <4>1. delC[b] \subseteq Taken(a)
          BY <3>1, <3>7, DeletedIsTaken
        <4> QED
          BY <3>1, <3>6, <4>1
      <3> HIDE DEF ids
      <3> QED
        BY <3>1, <3>2, <3>3, <3>4, <3>5, <3>7
    <2>3. CASE DeletePages(a) \/ PagesDeleted(a)
      <3>1. /\ pc[a] \in {"clearedChunks", "deletingPages"} /\ pc'[a] \in {"deletingPages", "cleared"}
            /\ delC'[a] = delC[a]
        BY <1>2, <2>3 DEF DeletePages, PagesDeleted, Goto
      <3>2. delC[a] \in {{}, ids} /\ (a \in Workers => delC[a] = ids)
        BY <3>1 DEF ChunksInv, DeletedOf, ClearedOf
      <3>3. \A b \in Actors \ {a} : delC[a] \cap delC[b] = {}
        BY DEF ChunksInv, DeletedApart
      <3> HIDE DEF ids
      <3> QED
        BY <3>1, <3>2, <3>3
    <2> QED
      BY <2>1, <2>2, <2>3 DEF ClearStep
  <1>9. DeletedOf(a)' /\ WaitsOf(a)'
    BY <1>1, <1>4, <1>5, <1>7, <1>8 DEF DeletedOf, WaitsOf, Ids
  <1>10. a \in Workers => ClearedOf(a)'
    BY <1>1, <1>3, <1>4, <1>5, <1>8 DEF ClearedOf, ChunksInv, Ids, Clearing
  <1> QED
    BY <1>1, <1>2, <1>3, <1>4, <1>6, <1>8, <1>9, <1>10, OneMoves

\* Actor a publishes its transaction, or the embeddings of some chunks: every document
\* keeps the identities and the numbers of its chunks, but the one whose chunks a has
\* deleted loses them all.
LEMMA ChunksPublished ==
    ASSUME NEW a \in Actors, TypeOK, ChunksInv, UNCHANGED runs, IsFiniteSet(pages'),
           \A b \in Actors \ {a} : /\ pc'[b] = pc[b] /\ target'[b] = target[b]
                                   /\ rows'[b] = rows[b] /\ delC'[b] = delC[b],
           \A w \in Workers \ {a} : run'[w] = run[w],
           delC'[a] = {}, pc'[a] # "deletingChunks",
           a \in Workers =>
             /\ pc'[a] # "pagesRead" /\ (Unchunked(a)' => Unchunked(a) /\ run'[a] = run[a])
             /\ pc'[a] \notin {"clearedChunks", "deletingPages", "cleared"}
             /\ pc'[a] = "parsed" =>
                  pc[a] = "cleared" /\ target'[a] = target[a],
           \A c \in chunks' : /\ c.id \notin delC[a]
                              /\ \E e \in chunks : e.id = c.id /\ e.pos = c.pos,
           \A c, e \in chunks' : c.id = e.id => c = e,
           \A e \in chunks : e.id \notin delC[a] =>
             \E c \in chunks' : c.id = e.id /\ c.pos = e.pos
    PROVE  ChunksInv'
  <1> DEFINE d0 == target[a]
             gone(d) == d = d0 /\ delC[a] # {}
  <1>1. delC[a] = {} \/ delC[a] = Ids(ChunksOf(d0))
    BY DEF ChunksInv, DeletedOf
  <1>2. \A d, c : c \in ChunksOf(d)' =>
          ~gone(d) /\ \E e \in ChunksOf(d) : e.id = c.id /\ e.pos = c.pos
    <2> SUFFICES ASSUME NEW d, NEW c \in ChunksOf(d)'
                 PROVE  ~gone(d) /\ \E e \in ChunksOf(d) : e.id = c.id /\ e.pos = c.pos
      OBVIOUS
    <2>1. PICK e \in chunks : e.id = c.id /\ e.pos = c.pos
      BY DEF ChunksOf
    <2>2. e \in ChunksOf(d) /\ c.id \notin delC[a]
      BY <2>1 DEF ChunksOf
    <2>3. e.id \in Ids(ChunksOf(d))
      BY <2>2 DEF Ids
    <2> QED
      BY <1>1, <2>1, <2>2, <2>3
  <1>3. \A d, e : e \in ChunksOf(d) /\ ~gone(d) =>
          \E c \in ChunksOf(d)' : c.id = e.id /\ c.pos = e.pos
    <2> SUFFICES ASSUME NEW d, NEW e \in ChunksOf(d), ~gone(d)
                 PROVE  \E c \in ChunksOf(d)' : c.id = e.id /\ c.pos = e.pos
      OBVIOUS
    <2>1. e.id \notin delC[a]
      BY <1>1 DEF ChunksOf, Ids
    <2>2. PICK c \in chunks' : c.id = e.id /\ c.pos = e.pos
      BY <2>1 DEF ChunksOf
    <2> QED
      BY <2>2 DEF ChunksOf
  <1>4. \A d : Ids(ChunksOf(d))' = IF gone(d) THEN {} ELSE Ids(ChunksOf(d))
    <2> SUFFICES ASSUME NEW d PROVE Ids(ChunksOf(d))' = IF gone(d) THEN {} ELSE Ids(ChunksOf(d))
      OBVIOUS
    <2>1. \A i : i \in Ids(ChunksOf(d)') => ~gone(d) /\ i \in Ids(ChunksOf(d))
      BY <1>2 DEF Ids
    <2>2. \A i : i \in Ids(ChunksOf(d)) /\ ~gone(d) => i \in Ids(ChunksOf(d)')
      BY <1>3 DEF Ids
    <2> HIDE DEF gone
    <2> QED
      BY <2>1, <2>2
  <1>5. Ids(chunks)' \subseteq Ids(chunks)
    BY DEF Ids
  <1>6. ChunksOfOneRun'
    <2> SUFFICES ASSUME NEW d \in Docs
                 PROVE  /\ \A c, e \in ChunksOf(d)' : c.id.run = e.id.run
                        /\ \A c, e \in ChunksOf(d)' : c.pos = e.pos => c = e
                        /\ \A c \in ChunksOf(d)' : \A n \in 0..c.pos :
                             \E e \in ChunksOf(d)' : e.pos = n
      BY DEF ChunksOfOneRun
    <2> HIDE DEF gone
    <2>1. /\ \A c, e \in ChunksOf(d) : c.id.run = e.id.run
          /\ \A c, e \in ChunksOf(d) : c.pos = e.pos => c = e
          /\ \A c \in ChunksOf(d) : \A n \in 0..c.pos : \E e \in ChunksOf(d) : e.pos = n
      BY DEF ChunksInv, ChunksOfOneRun
    <2>2. ASSUME NEW c \in ChunksOf(d)', NEW e \in ChunksOf(d)'
          PROVE  c.id.run = e.id.run /\ (c.pos = e.pos => c = e)
      <3>1. PICK c0 \in ChunksOf(d) : c0.id = c.id /\ c0.pos = c.pos
        BY <1>2
      <3>2. PICK e0 \in ChunksOf(d) : e0.id = e.id /\ e0.pos = e.pos
        BY <1>2
      <3>3. c \in chunks' /\ e \in chunks'
        BY DEF ChunksOf
      <3>4. c0.id.run = e0.id.run /\ (c0.pos = e0.pos => c0 = e0)
        BY <2>1
      <3> QED
        BY <3>1, <3>2, <3>3, <3>4
    <2>3. ASSUME NEW c \in ChunksOf(d)', NEW n \in 0..c.pos
          PROVE  \E e \in ChunksOf(d)' : e.pos = n
      <3>1. PICK c0 \in ChunksOf(d) : c0.pos = c.pos
        BY <1>2
      <3>2. PICK e0 \in ChunksOf(d) : e0.pos = n
        BY <2>1, <3>1
      <3>3. ~gone(d)
        BY <1>2
      <3> QED
        BY <1>3, <3>2, <3>3
    <2> QED
      BY <2>2, <2>3
  <1>7. ChunkIdsInv'
    BY DEF ChunksInv, ChunkIdsInv
  <1>8. DeletedApart'
    BY DEF ChunksInv, DeletedApart
  <1>9. \A w \in Workers : Unchunked(w)' => Unchunked(w) /\ run'[w] = run[w]
    BY DEF Unchunked, Actors
  <1>10. ASSUME NEW b \in Actors PROVE DeletedOf(b)' /\ WaitsOf(b)'
    <2>1. CASE b = a
      BY <2>1 DEF DeletedOf, WaitsOf
    <2>2. CASE b # a
      <3>1. DeletedOf(b) /\ WaitsOf(b) /\ delC[a] \cap delC[b] = {}
        BY <2>2 DEF ChunksInv, DeletedApart
      <3>2. delC[b] # {} => ~gone(target[b])
        BY <1>1, <3>1 DEF DeletedOf
      <3>3. Ids(ChunksOf(target[b]))' = IF gone(target[b]) THEN {} ELSE Ids(ChunksOf(target[b]))
        <4>1. target'[b] = target[b]
          BY <2>2
        <4>2. Ids(ChunksOf(target[b]))' = Ids(ChunksOf(target[b])')
          BY <4>1 DEF Ids
        <4> QED
          BY <1>4, <4>1, <4>2
      <3> HIDE DEF gone
      <3>4. DeletedOf(b)'
        BY <2>2, <3>1, <3>2, <3>3 DEF DeletedOf
      <3>5. WaitsOf(b)'
        BY <1>5, <1>9, <2>2, <3>1, <3>3 DEF WaitsOf
      <3> QED
        BY <3>4, <3>5
    <2> QED
      BY <2>1, <2>2
  <1>11. ASSUME NEW w \in Workers PROVE ClearedOf(w)' /\ ReadOf(w)'
    <2> w \in Actors
      BY DEF Actors
    <2>1. ClearedOf(w) /\ ReadOf(w)
      BY DEF ChunksInv
    <2>2. Unchunked(w)' => \A c \in chunks' : c.id.run # run'[w]
      BY <1>9, <2>1 DEF ClearedOf
    <2>3. CASE w = a
      <3>1. ASSUME pc'[a] = "parsed" PROVE ChunksOf(target[a])' = {}
        <4>1. delC[a] = Ids(ChunksOf(d0)) /\ target'[a] = d0
          BY <2>1, <2>3, <3>1 DEF ClearedOf
        <4>2. \A c \in chunks' : c.id.src.doc # d0
          BY <4>1 DEF ChunksOf, Ids
        <4> QED
          BY <4>1, <4>2 DEF ChunksOf
      <3> QED
        BY <2>2, <2>3, <3>1 DEF ClearedOf, ReadOf
    <2>4. CASE w # a
      <3>1. target'[w] = target[w] /\ pc'[w] = pc[w] /\ rows'[w] = rows[w] /\ delC'[w] = delC[w]
        BY <2>4
      <3>2. Ids(ChunksOf(target[w]))' = IF gone(target[w]) THEN {} ELSE Ids(ChunksOf(target[w]))
        <4>1. Ids(ChunksOf(target[w]))' = Ids(ChunksOf(target[w])')
          BY <3>1 DEF Ids
        <4> QED
          BY <1>4, <3>1, <4>1
      <3>3. delC[a] \cap delC[w] = {}
        BY <2>4 DEF ChunksInv, DeletedApart
      <3>4. pc[w] \in {"clearedChunks", "deletingPages", "cleared"} => ~gone(target[w])
        BY <1>1, <2>1, <3>3 DEF ClearedOf
      <3>5. ChunksOf(target[w]) = {} => ChunksOf(target[w])' = {}
        BY <3>1 DEF ChunksOf
      <3>6. ClearedOf(w)'
        <4> HIDE DEF gone
        <4> QED
          BY <2>1, <2>2, <3>1, <3>2, <3>4, <3>5 DEF ClearedOf
      <3>7. ReadOf(w)'
        BY <2>1, <3>1 DEF ReadOf
      <3> QED
        BY <3>6, <3>7
    <2> QED
      BY <2>3, <2>4
  <1> QED
    BY <1>6, <1>7, <1>8, <1>10, <1>11 DEF ChunksInv

\* The run inserts its chunks where the document has none.
LEMMA InsertChunks ==
    ASSUME OneWorker, NEW w \in Workers, NEW pos \in Numberings(IdsFrom(w)),
           TypeOK, SerialInv, ChunksInv, pc[w] = "pagesRead",
           chunks' = chunks \cup {[id |-> i, pos |-> pos[i], linked |-> TRUE,
                                   embedded |-> FALSE] : i \in IdsFrom(w)},
           Goto(w, "chunked"), CloseTx(w), UNCHANGED <<pages, target, run, runs>>
    PROVE  ChunksInv'
  <1> w \in Actors /\ \A v \in Workers : v = w
    BY DEF Actors, OneWorker
  <1> DEFINE d      == target[w]
             row(i) == [id |-> i, pos |-> pos[i], linked |-> TRUE, embedded |-> FALSE]
             new    == {row(i) : i \in IdsFrom(w)}
  <1>1. /\ pc' = [pc EXCEPT ![w] = "chunked"] /\ pc \in [Actors -> PC]
        /\ rows' = [rows EXCEPT ![w] = {}] /\ delC' = [delC EXCEPT ![w] = {}]
        /\ rows \in [Actors -> SUBSET (PageRow \cup ChunkId)]
        /\ delC \in [Actors -> SUBSET ChunkId]
    BY DEF Goto, CloseTx, TypeOK, LocalsTypeOK, TxTypeOK
  <1>2. /\ ChunksOf(d) = {} /\ \A c \in chunks : c.id.run # run[w]
        /\ IsFiniteSet(rows[w]) /\ \A p \in rows[w] : p.doc = d
    BY DEF ChunksInv, ClearedOf, ReadOf, Unchunked
  <1>3. /\ \A i \in IdsFrom(w) : i.run = run[w] /\ i.src.doc = d
        /\ \A i, j \in IdsFrom(w) : pos[i] = pos[j] => i = j
        /\ \A i \in IdsFrom(w) : \A n \in 0..pos[i] : \E j \in IdsFrom(w) : pos[j] = n
    BY <1>2, IdsOfRun, IdsFinite, NumbersWithoutGap
  <1>4. /\ \A c \in new : c.id \in IdsFrom(w) /\ c = row(c.id) /\ c.pos = pos[c.id]
        /\ \A i \in IdsFrom(w) : row(i) \in new /\ row(i).pos = pos[i] /\ row(i).id = i
    <2>1. \A i : row(i).id = i /\ row(i).pos = pos[i]
      OBVIOUS
    <2> HIDE DEF row
    <2> QED
      BY <2>1
  <1>5. chunks' = chunks \cup new
    OBVIOUS
  <1> HIDE DEF row, new
  <1>6. \A c \in new : c.id.run = run[w] /\ c.id.src.doc = d
    BY <1>3, <1>4
  <1>7. /\ \A e \in Docs : e # d => ChunksOf(e)' = ChunksOf(e)
        /\ {c \in chunks' : c.id.src.doc = d} = new
    BY <1>2, <1>5, <1>6 DEF ChunksOf
  <1>8. ChunksOfOneRun'
    <2> SUFFICES ASSUME NEW e \in Docs
                 PROVE  LET C == {c \in chunks' : c.id.src.doc = e} IN
                        /\ \A b, c \in C : b.id.run = c.id.run
                        /\ \A b, c \in C : b.pos = c.pos => b = c
                        /\ \A c \in C : \A n \in 0..c.pos : \E b \in C : b.pos = n
      BY DEF ChunksOfOneRun, ChunksOf
    <2>1. CASE e = d
      <3>1. /\ \A b, c \in new : b.id.run = c.id.run
            /\ \A b, c \in new : b.pos = c.pos => b = c
        BY <1>3, <1>4
      <3>2. ASSUME NEW c \in new, NEW n \in 0..c.pos PROVE \E b \in new : b.pos = n
        <4>1. c.id \in IdsFrom(w) /\ n \in 0..pos[c.id]
          BY <1>4, <3>2
        <4>2. PICK j \in IdsFrom(w) : pos[j] = n
          BY <1>3, <4>1
        <4> QED
          BY <1>4, <4>2
      <3> QED
        BY <1>7, <2>1, <3>1, <3>2
    <2>2. CASE e # d
      <3>1. {c \in chunks' : c.id.src.doc = e} = ChunksOf(e)
        BY <1>7, <2>2 DEF ChunksOf
      <3> QED
        BY <3>1 DEF ChunksInv, ChunksOfOneRun
    <2> QED
      BY <2>1, <2>2
  <1>9. ChunkIdsInv'
    <2>1. run[w] <= Len(runs)
      <3>1. run[w] = Len(runs)
        BY DEF SerialInv, RunInv, HasStarted
      <3> QED
        BY <3>1 DEF TypeOK, DbTypeOK
    <2>2. \A b, c \in chunks' : b.id = c.id => b = c
      BY <1>2, <1>4, <1>5, <1>6 DEF ChunksInv, ChunkIdsInv
    <2> QED
      BY <1>5, <1>6, <2>1, <2>2 DEF ChunksInv, ChunkIdsInv
  <1>10. DeletedApart'
    BY <1>1 DEF ChunksInv, DeletedApart
  <1>11. ASSUME NEW b \in Actors PROVE DeletedOf(b)' /\ WaitsOf(b)'
    <2>1. CASE b = w
      BY <1>1, <2>1 DEF DeletedOf, WaitsOf
    <2>2. CASE b # w
      <3>1. /\ DeletedOf(b) /\ WaitsOf(b) /\ Unchunked(w) /\ ~Unchunked(w)'
            /\ pc'[b] = pc[b] /\ rows'[b] = rows[b] /\ delC'[b] = delC[b]
        BY <1>1, <2>2 DEF ChunksInv, Unchunked, Clearing
      <3>2. target[b] # d => ChunksOf(target[b])' = ChunksOf(target[b])
        BY <1>5, <1>6 DEF ChunksOf
      <3>3. DeletedOf(b)'
        <4>1. delC[b] # {} => target[b] # d
          BY <1>2, <3>1 DEF DeletedOf, Ids
        <4> QED
          BY <3>1, <3>2, <4>1 DEF DeletedOf, Ids
      <3>4. WaitsOf(b)'
        <4> SUFFICES ASSUME pc[b] = "deletingChunks" PROVE WaitsOf(b)'
          BY <3>1 DEF WaitsOf
        <4>1. rows[b] \cap Ids(chunks') = rows[b] \cap Ids(chunks)
          <5>1. \A i \in rows[b] : i.run # run[w]
            BY <3>1 DEF WaitsOf
          <5> QED
            BY <1>5, <1>6, <5>1 DEF Ids
        <4>2. target[b] = d => rows[b] \cap Ids(chunks) = {}
          BY <1>2, <3>1 DEF WaitsOf, Ids, ChunksOf
        <4> QED
          BY <3>1, <3>2, <4>1, <4>2 DEF WaitsOf, Ids
      <3> QED
        BY <3>3, <3>4
    <2> QED
      BY <2>1, <2>2
  <1>12. ClearedOf(w)' /\ ReadOf(w)'
    BY <1>1 DEF ClearedOf, ReadOf, Unchunked, Clearing
  <1> QED
    BY <1>8, <1>9, <1>10, <1>11, <1>12 DEF ChunksInv

\* A run starts under a number no chunk has.
LEMMA StartChunks ==
    ASSUME OneWorker, NEW w \in Workers, TypeOK, ChunksInv, Start(w)
    PROVE  ChunksInv'
  <1> w \in Actors /\ \A v \in Workers : v = w
    BY DEF Actors, OneWorker
  <1>1. /\ UNCHANGED <<chunks, pages, target, rows, delC>>
        /\ run' = [run EXCEPT ![w] = Len(runs) + 1]
        /\ pc[w] = "loaded" /\ pc' = [pc EXCEPT ![w] = "started"]
    BY DEF Start, Goto, tx
  <1>2. /\ run'[w] = Len(runs) + 1 /\ Len(runs') = Len(runs) + 1 /\ Len(runs) \in Nat
        /\ pc \in [Actors -> PC]
        /\ rows \in [Actors -> SUBSET (PageRow \cup ChunkId)]
    BY <1>1 DEF Start, TypeOK, DbTypeOK, LocalsTypeOK, TxTypeOK
  <1>3. /\ \A c \in chunks : c.id.run \in Nat
        /\ \A a \in Actors : \A i \in rows[a] : i.run \in Nat
    BY <1>2 DEF TypeOK, DbTypeOK, ChunkRow, ChunkId, PageRow
  <1>4. ChunksOfOneRun' /\ DeletedApart' /\ IsFiniteSet(pages')
    BY <1>1 DEF ChunksInv, ChunksOfOneRun, ChunksOf, DeletedApart
  <1>5. ChunkIdsInv'
    BY <1>1, <1>2, <1>3 DEF ChunksInv, ChunkIdsInv
  <1>6. \A c \in chunks : c.id.run # run'[w]
    BY <1>2, <1>3 DEF ChunksInv, ChunkIdsInv
  <1>7. ASSUME NEW a \in Actors PROVE DeletedOf(a)' /\ WaitsOf(a)'
    <2>1. DeletedOf(a) /\ WaitsOf(a)
      BY DEF ChunksInv
    <2>2. /\ Ids(ChunksOf(target[a]))' = Ids(ChunksOf(target[a])) /\ Ids(chunks)' = Ids(chunks)
      BY <1>1 DEF ChunksOf, Ids
    <2>3. DeletedOf(a)'
      BY <1>1, <1>2, <2>1, <2>2 DEF DeletedOf
    <2>4. pc'[a] = "deletingChunks" =>
            \A i \in rows[a] : i.src.doc = target[a] /\ i.run <= Len(runs') /\ i.run # run'[w]
      BY <1>1, <1>2, <1>3, <2>1 DEF WaitsOf
    <2>5. WaitsOf(a)'
      BY <1>1, <1>2, <2>1, <2>2, <2>4 DEF WaitsOf
    <2> QED
      BY <2>3, <2>5
  <1>8. ClearedOf(w)' /\ ReadOf(w)'
    BY <1>1, <1>2, <1>6 DEF ClearedOf, ReadOf
  <1> QED
    BY <1>4, <1>5, <1>7, <1>8 DEF ChunksInv

LEMMA RunStepChunks ==
    ASSUME OneWorker, NEW w \in Workers, TypeOK, SerialInv, ChunksInv,
           \/ \E j \in DOMAIN jobs : LoadJob(w, j)
           \/ RunStep(w) \/ StageFails(w) \/ Crash(w)
    PROVE  ChunksInv'
  <1> w \in Actors /\ \A v \in Workers : v = w
    BY DEF Actors, OneWorker
  <1>1. /\ pc \in [Actors -> PC] /\ target \in [Actors -> Docs \cup {NoDoc}]
        /\ run \in [Workers -> Nat] /\ rows \in [Actors -> SUBSET (PageRow \cup ChunkId)]
        /\ delC \in [Actors -> SUBSET ChunkId]
    BY DEF TypeOK, LocalsTypeOK, TxTypeOK
  <1>2. IsFiniteSet(pages) /\ \A c, e \in chunks : c.id = e.id => c = e
    BY DEF ChunksInv, ChunkIdsInv
  <1>3. ASSUME Leave(w), UNCHANGED <<chunks, pages, runs>> PROVE ChunksInv'
    BY <1>1, <1>3, NothingPublished DEF Leave, CloseTx, Goto, Unchunked, Clearing
  <1>4. CASE LockRow(w)
    BY <1>4, UnchangedChunks DEF LockRow, db, locals
  <1>5. ASSUME NEW j \in DOMAIN jobs, LoadJob(w, j) PROVE ChunksInv'
    <2>1. delC[w] = {}
      BY <1>5, NoChunkDeleted DEF LoadJob
    <2> QED
      BY <1>1, <1>5, <2>1, NothingPublished DEF LoadJob, Goto, Unchunked, Clearing, db, tx
  <1>6. CASE LoadDocument(w)
    <2>1. CASE target[w] \in deleted
      BY <1>3, <1>6, <2>1 DEF LoadDocument, db
    <2>2. CASE target[w] \notin deleted
      <3>1. delC[w] = {}
        BY <1>6, NoChunkDeleted DEF LoadDocument
      <3> QED
        BY <1>1, <1>6, <2>2, <3>1, NothingPublished
           DEF LoadDocument, Goto, Unchunked, Clearing, db, tx
    <2> QED
      BY <2>1, <2>2
  <1>7. CASE Start(w)
    BY <1>7, StartChunks
  <1>8. CASE ClearStep(w)
    BY <1>8, ClearStepChunks
  <1>9. ASSUME NEW layout \in Layouts, CommitParse(w, layout) PROVE ChunksInv'
    <2>1. CASE Leave(w) /\ UNCHANGED <<pages, chunks>>
      BY <1>3, <1>9, <2>1 DEF CommitParse
    <2>2. CASE ~(Leave(w) /\ UNCHANGED <<pages, chunks>>)
      <3>1. /\ pc[w] = "cleared" /\ pc' = [pc EXCEPT ![w] = "parsed"] /\ CloseTx(w)
            /\ pages' = KeptPages(w) \cup PagesFrom(w, layout) /\ chunks' = KeptChunks(w)
            /\ UNCHANGED <<target, run, runs>>
        BY <1>9, <2>2 DEF CommitParse, Goto, locals
      <3>2. IsFiniteSet(pages')
        BY <1>2, <3>1, PagesStayFinite
      <3>3. /\ \A c \in chunks' : /\ c.id \notin delC[w]
                                  /\ \E e \in chunks : e.id = c.id /\ e.pos = c.pos
            /\ \A c, e \in chunks' : c.id = e.id => c = e
            /\ \A e \in chunks : e.id \notin delC[w] =>
                 \E c \in chunks' : c.id = e.id /\ c.pos = e.pos
        BY <1>2, <3>1, KeptRows
      <3>4. /\ \A b \in Actors \ {w} : /\ pc'[b] = pc[b] /\ target'[b] = target[b]
                                       /\ rows'[b] = rows[b] /\ delC'[b] = delC[b]
            /\ delC'[w] = {} /\ pc'[w] = "parsed" /\ Unchunked(w) /\ run'[w] = run[w]
            /\ target'[w] = target[w]
        BY <1>1, <3>1 DEF CloseTx, Unchunked, Clearing
      <3> QED
        BY <3>1, <3>2, <3>3, <3>4, ChunksPublished
    <2> QED
      BY <2>1, <2>2
  <1>10. CASE ReadPages(w)
    <2>1. /\ UNCHANGED <<chunks, pages, runs, target, run, delC>>
          /\ pc[w] = "parsed" /\ pc' = [pc EXCEPT ![w] = "pagesRead"]
          /\ rows' = [rows EXCEPT ![w] = PagesOf(target[w])]
      BY <1>10 DEF ReadPages, Goto, db, locals
    <2>2. delC[w] = {}
      BY <2>1, NoChunkDeleted
    <2>3. IsFiniteSet(PagesOf(target[w])) /\ \A p \in PagesOf(target[w]) : p.doc = target[w]
      BY <1>2, FS_Subset DEF PagesOf
    <2>4. Unchunked(w) /\ ClearedOf(w) /\ ChunksOf(target[w])' = ChunksOf(target[w])
      BY <2>1 DEF ChunksInv, Unchunked, ChunksOf
    <2>5. ClearedOf(w)' /\ ReadOf(w)'
      BY <1>1, <2>1, <2>3, <2>4 DEF ClearedOf, ReadOf
    <2>6. DeletedOf(w)' /\ WaitsOf(w)'
      BY <1>1, <2>1, <2>2 DEF DeletedOf, WaitsOf
    <2> QED
      BY <1>1, <1>2, <2>1, <2>2, <2>4, <2>5, <2>6, OneMoves
  <1>11. CASE CommitChunks(w)
    <2>1. /\ pc[w] = "pagesRead" /\ UNCHANGED <<pages, runs>>
          /\ \/ Leave(w) /\ UNCHANGED chunks
             \/ \E pos \in Numberings(IdsFrom(w)) :
                  /\ chunks' = chunks \cup {[id |-> i, pos |-> pos[i], linked |-> TRUE,
                                             embedded |-> FALSE] : i \in IdsFrom(w)}
                  /\ Goto(w, "chunked") /\ CloseTx(w) /\ UNCHANGED <<target, run>>
      BY <1>11 DEF CommitChunks
    <2> QED
      BY <1>3, <2>1, InsertChunks
  <1>12. CASE ReadChunks(w)
    <2>1. delC[w] = {}
      BY <1>12, NoChunkDeleted DEF ReadChunks
    <2> QED
      BY <1>1, <1>12, <2>1, NothingPublished
         DEF ReadChunks, Goto, Unchunked, Clearing, db, locals
  <1>13. CASE CommitEmbeddings(w)
    <2>1. /\ pc[w] = "chunksRead" /\ pc' = [pc EXCEPT ![w] = "embedded"] /\ CloseTx(w)
          /\ chunks' = {[c EXCEPT !.embedded = @ \/ c.id \in rows[w]] : c \in chunks}
          /\ UNCHANGED <<pages, target, run, runs>>
      BY <1>13 DEF CommitEmbeddings, Goto
    <2>2. delC[w] = {}
      BY <2>1, NoChunkDeleted
    <2>3. /\ \A c \in chunks' : \E e \in chunks : e.id = c.id /\ e.pos = c.pos
          /\ \A c, e \in chunks' : c.id = e.id => c = e
          /\ \A e \in chunks : \E c \in chunks' : c.id = e.id /\ c.pos = e.pos
      BY <1>2, <2>1, EmbeddedRows
    <2>4. /\ \A b \in Actors \ {w} : /\ pc'[b] = pc[b] /\ target'[b] = target[b]
                                     /\ rows'[b] = rows[b] /\ delC'[b] = delC[b]
          /\ delC'[w] = {} /\ pc'[w] = "embedded" /\ ~Unchunked(w)'
      BY <1>1, <2>1 DEF CloseTx, Unchunked, Clearing
    <2> QED
      BY <1>2, <2>1, <2>2, <2>3, <2>4, ChunksPublished
  <1>14. CASE Finalize(w)
    BY <1>3, <1>14 DEF Finalize
  <1>15. CASE StageFails(w)
    BY <1>3, <1>15 DEF StageFails, db
  <1>16. CASE Crash(w)
    BY <1>3, <1>16 DEF Crash, db
  <1> QED
    BY <1>4, <1>5, <1>6, <1>7, <1>8, <1>9, <1>10, <1>11, <1>12, <1>13, <1>14, <1>15, <1>16
       DEF RunStep

LEMMA RequestStepChunks ==
    ASSUME NEW r \in Requests, TypeOK, ChunksInv,
           \/ \E d \in Docs : OpenReprocess(r, d)
           \/ ReprocessStep(r) \/ AbortReprocess(r)
    PROVE  ChunksInv'
  <1> r \in Actors /\ r \notin Workers
    BY PipelineAssumptions DEF Actors, ActorsAssumption
  <1>1. /\ pc \in [Actors -> PC] /\ target \in [Actors -> Docs \cup {NoDoc}]
        /\ rows \in [Actors -> SUBSET (PageRow \cup ChunkId)]
        /\ delC \in [Actors -> SUBSET ChunkId]
    BY DEF TypeOK, LocalsTypeOK, TxTypeOK
  <1>2. IsFiniteSet(pages) /\ \A c, e \in chunks : c.id = e.id => c = e
    BY DEF ChunksInv, ChunkIdsInv
  <1>3. ASSUME NEW d \in Docs, OpenReprocess(r, d) PROVE ChunksInv'
    <2>1. delC[r] = {}
      BY <1>3, NoChunkDeleted DEF OpenReprocess
    <2> QED
      BY <1>1, <1>3, <2>1, NothingPublished DEF OpenReprocess, Goto, db, tx
  <1>4. CASE ClearStep(r)
    BY <1>4, ClearStepChunks
  <1>5. CASE CommitReprocess(r)
    <2>1. /\ pages' = KeptPages(r) /\ chunks' = KeptChunks(r) /\ Leave(r) /\ UNCHANGED runs
      BY <1>5 DEF CommitReprocess
    <2>2. IsFiniteSet(pages')
      BY <1>2, <2>1, FS_Subset DEF KeptPages
    <2>3. /\ \A c \in chunks' : /\ c.id \notin delC[r]
                                /\ \E e \in chunks : e.id = c.id /\ e.pos = c.pos
          /\ \A c, e \in chunks' : c.id = e.id => c = e
          /\ \A e \in chunks : e.id \notin delC[r] =>
               \E c \in chunks' : c.id = e.id /\ c.pos = e.pos
      BY <1>2, <2>1, KeptRows
    <2>4. /\ \A b \in Actors \ {r} : /\ pc'[b] = pc[b] /\ target'[b] = target[b]
                                     /\ rows'[b] = rows[b] /\ delC'[b] = delC[b]
          /\ delC'[r] = {} /\ pc'[r] = "idle" /\ \A w \in Workers \ {r} : run'[w] = run[w]
      BY <1>1, <2>1 DEF Leave, CloseTx, Goto
    <2> QED
      BY <2>1, <2>2, <2>3, <2>4, ChunksPublished
  <1>6. CASE AbortReprocess(r)
    BY <1>1, <1>6, NothingPublished DEF AbortReprocess, Leave, CloseTx, Goto, db
  <1>7. CASE LockRow(r)
    BY <1>7, UnchangedChunks DEF LockRow, db, locals
  <1> QED
    BY <1>3, <1>4, <1>5, <1>6, <1>7 DEF ReprocessStep

LEMMA ChunksNext ==
    ASSUME OneWorker, TypeOK, SerialInv, ChunksInv, [Next]_vars
    PROVE  ChunksInv'
  <1>1. ASSUME NEW d \in Docs, CreateDocument(d) \/ SoftDelete(d) PROVE ChunksInv'
    BY <1>1, UnchangedChunks DEF CreateDocument, SoftDelete, locals, tx
  <1>2. CASE UNCHANGED vars
    BY <1>2, UnchangedChunks DEF vars, db, locals, tx
  <1> QED
    BY <1>1, <1>2, RunStepChunks, RequestStepChunks DEF Next, Quiescent

LEMMA ChunksInit == Init => ChunksInv
  <1> SUFFICES ASSUME Init PROVE ChunksInv
    OBVIOUS
  <1>1. /\ chunks = {} /\ pages = {} /\ \A a \in Actors : pc[a] = "idle" /\ delC[a] = {}
        /\ \A w \in Workers : pc[w] = "idle"
    BY DEF Init, Actors
  <1>2. IsFiniteSet(pages)
    BY <1>1, FS_EmptySet
  <1>3. ChunksOfOneRun /\ ChunkIdsInv /\ DeletedApart
    BY <1>1 DEF ChunksOfOneRun, ChunkIdsInv, DeletedApart, ChunksOf
  <1>4. \A a \in Actors : DeletedOf(a) /\ WaitsOf(a)
    BY <1>1 DEF DeletedOf, WaitsOf
  <1>5. \A w \in Workers : ClearedOf(w) /\ ReadOf(w)
    BY <1>1 DEF ClearedOf, ReadOf, Unchunked, Clearing
  <1> QED
    BY <1>2, <1>3, <1>4, <1>5 DEF ChunksInv

LEMMA ChunksInvCorrect ==
    ASSUME OneWorker
    PROVE  Spec => [](TypeOK /\ SerialInv /\ ChunksInv)
  <1>1. TypeOK /\ SerialInv /\ ChunksInv /\ [Next]_vars => ChunksInv'
    BY ChunksNext
  <1> QED
    BY <1>1, ChunksInit, SerialCorrect, PTL DEF Spec

\* With a single worker, whatever crashes, fails, is re-run or reprocessed meanwhile: the
\* chunks of a document come from one run and are numbered 0, 1, 2, ... without gap or
\* repetition.
THEOREM ChunksCorrect ==
    ASSUME OneWorker
    PROVE  Spec => []ChunksOfOneRun
  <1>1. ChunksInv => ChunksOfOneRun
    BY DEF ChunksInv
  <1> QED
    BY <1>1, ChunksInvCorrect, PTL

-----------------------------------------------------------------------------
(* What an INDEXED document has                                              *)

\* A document whose jobs keep their status: what they say of it stays.
LEMMA JobsOfKept ==
    ASSUME TypeOK, NEW d, DOMAIN jobs \subseteq DOMAIN jobs', JobsOf(d)' = JobsOf(d),
           \A j \in JobsOf(d) : jobs'[j].status = jobs[j].status
    PROVE  /\ \A j : IsNewest(d, j)' <=> IsNewest(d, j)
           /\ Current(d)' <=> Current(d)
           /\ JobsInv /\ UNCHANGED runs => (LastRunRecorded(d)' <=> LastRunRecorded(d))
  <1>1. \A j : IsNewest(d, j)' <=> IsNewest(d, j)
    BY DEF IsNewest
  <1>2. \A j : IsNewest(d, j) => j \in JobsOf(d) /\ j \in DOMAIN jobs
    BY DEF IsNewest, JobsOf
  <1>3. \A j : IsNewest(d, j)' => j \in JobsOf(d) /\ j \in DOMAIN jobs'
    BY DEF IsNewest, JobsOf
  <1>4. Current(d)' <=> Current(d)
    BY <1>1, <1>2, <1>3 DEF Current
  <1>5. ASSUME JobsInv, UNCHANGED runs PROVE LastRunRecorded(d)' <=> LastRunRecorded(d)
    <2>1. \A r \in DOMAIN runs : runs[r] \in DOMAIN jobs
      BY <1>5 DEF JobsInv
    <2>2. \A j \in DOMAIN jobs : /\ jobs'[j].doc = d <=> jobs[j].doc = d
                                 /\ jobs[j].doc = d => jobs'[j].status = jobs[j].status
      BY DEF JobsOf
    <2>3. \A r \in DOMAIN runs : /\ jobs'[runs[r]].doc = d <=> jobs[runs[r]].doc = d
                                 /\ jobs[runs[r]].doc = d =>
                                      jobs'[runs[r]].status = jobs[runs[r]].status
      BY <2>1, <2>2
    <2> DEFINE later(r) == (r + 1)..Len(runs)
    <2>4. \A r \in DOMAIN runs : \A q \in later(r) : q \in DOMAIN runs
      BY DEF TypeOK, DbTypeOK
    <2> QED
      BY <1>5, <2>3, <2>4 DEF LastRunRecorded
  <1> QED
    BY <1>1, <1>4, <1>5

\* Then it keeps what CompleteInv says of it, if its pages and chunks stay as complete.
LEMMA DocumentKept ==
    ASSUME NEW d, TypeOK, SerialInv, NewestOf(d), IndexedOf(d),
           DOMAIN jobs \subseteq DOMAIN jobs', JobsOf(d)' = JobsOf(d),
           \A j \in JobsOf(d) : jobs'[j].status = jobs[j].status,
           docStatus'[d] = docStatus[d],
           LastRunRecorded(d)' => LastRunRecorded(d),
           ArtifactsComplete(d) => ArtifactsComplete(d)'
    PROVE  NewestOf(d)' /\ IndexedOf(d)'
  <1>1. \A j : IsNewest(d, j)' <=> IsNewest(d, j)
    BY JobsOfKept
  <1>2. \A j : IsNewest(d, j) => j \in JobsOf(d) /\ j \in DOMAIN jobs
    BY DEF IsNewest, JobsOf
  <1>3. \A j : IsNewest(d, j) => j \in DOMAIN jobs' /\ jobs'[j].status = jobs[j].status
    BY <1>2
  <1>4. NewestOf(d)'
    BY <1>1, <1>2, <1>3 DEF NewestOf
  <1>5. IndexedOf(d)'
    BY <1>1, <1>2, <1>3 DEF IndexedOf
  <1> QED
    BY <1>4, <1>5

\* A new job is the newest of its document, and PENDING; other documents do not see it.
LEMMA JobAppended ==
    ASSUME TypeOK, NEW d \in Docs, jobs' = Append(jobs, NewJob(d))
    PROVE  /\ DOMAIN jobs \subseteq DOMAIN jobs'
           /\ \A j \in DOMAIN jobs : jobs'[j] = jobs[j]
           /\ \A e : e # d => JobsOf(e)' = JobsOf(e)
           /\ ~Current(d)' /\ \E j \in DOMAIN jobs' : IsNewest(d, j)'
           /\ \A j \in DOMAIN jobs' : IsNewest(d, j)' => jobs'[j].status = "PENDING"
  <1>0. PICK n \in Nat : n = Len(jobs) + 1
    BY DEF TypeOK, DbTypeOK
  <1>1. /\ jobs \in Seq(JobRow) /\ Len(jobs) \in Nat /\ NewJob(d) \in JobRow
        /\ NewJob(d).doc = d /\ NewJob(d).status = "PENDING"
    BY DEF TypeOK, DbTypeOK, NewJob, JobRow, JobStatus, Stage
  <1>2. LET t == Append(jobs, NewJob(d))
        IN  /\ n \notin DOMAIN jobs /\ DOMAIN t = DOMAIN jobs \cup {n} /\ t[n] = NewJob(d)
            /\ DOMAIN jobs = 1..Len(jobs) /\ n \in Nat \ {0}
            /\ \A j \in DOMAIN jobs : t[j] = jobs[j]
    BY <1>0, <1>1, RowAppended
  <1>3. /\ n \notin DOMAIN jobs /\ DOMAIN jobs' = DOMAIN jobs \cup {n} /\ n \in Nat
        /\ jobs'[n] = NewJob(d) /\ \A j \in DOMAIN jobs : jobs'[j] = jobs[j]
    BY <1>2
  <1>4. \A j \in DOMAIN jobs : j \in Nat /\ j < n
    BY <1>0, <1>1, <1>2
  <1>5. \A e : e # d => JobsOf(e)' = JobsOf(e)
    BY <1>1, <1>3 DEF JobsOf
  <1>6. IsNewest(d, n)'
    <2>1. n \in JobsOf(d)'
      BY <1>1, <1>3 DEF JobsOf
    <2>2. \A i \in JobsOf(d)' : i \in DOMAIN jobs \cup {n}
      BY <1>3 DEF JobsOf
    <2>3. \A i \in DOMAIN jobs \cup {n} : i <= n
      BY <1>3, <1>4
    <2> QED
      BY <2>1, <2>2, <2>3 DEF IsNewest
  <1>7. \A j : IsNewest(d, j)' => j = n
    <2> SUFFICES ASSUME NEW j, IsNewest(d, j)' PROVE j = n
      OBVIOUS
    <2>1. n \in JobsOf(d)' /\ j \in JobsOf(d)'
      BY <1>6 DEF IsNewest
    <2>2. n <= j
      BY <2>1 DEF IsNewest
    <2>3. j \in DOMAIN jobs \cup {n}
      BY <1>3, <2>1 DEF JobsOf
    <2> QED
      BY <1>3, <1>4, <2>2, <2>3
  <1> QED
    BY <1>1, <1>3, <1>5, <1>6, <1>7 DEF Current

\* While a run is under way its document waits for the run to record its end.
LEMMA Underway ==
    ASSUME NEW w \in Workers, TypeOK, SerialInv, HasStarted(w)
    PROVE  ~LastRunRecorded(target[w])
  <1> DEFINE r == Len(runs)
  <1>1. /\ r \in DOMAIN runs /\ (r + 1)..Len(runs) = {}
    <2>1. runs \in Seq(Nat) /\ run[w] # 0 /\ run[w] = r
      BY DEF TypeOK, DbTypeOK, BusyOK, SerialInv, RunInv, HasStarted
    <2> QED
      BY <2>1
  <1>2. /\ runs[r] = job[w] /\ jobs[job[w]].doc = target[w] /\ jobs[job[w]].status = "RUNNING"
    BY DEF SerialInv, RunInv, JobsInv, HasStarted
  <1> HIDE DEF r
  <1> QED
    BY <1>1, <1>2 DEF LastRunRecorded, r

\* Publishing a transaction touches the pages and chunks of its document only.
LEMMA OthersUntouched ==
    ASSUME NEW a \in Actors, TypeOK, PagesInv, ChunksInv, NEW P,
           \A p \in P : p.doc = target[a],
           pages' = KeptPages(a) \cup P, chunks' = KeptChunks(a), NEW d, d # target[a]
    PROVE  PagesOf(d)' = PagesOf(d) /\ ChunksOf(d)' = ChunksOf(d)
  <1>1. \A p \in delP[a] : p.doc = target[a]
    BY DEF PagesInv, LockInv, PagesOf
  <1>2. \A c \in chunks : c.id \in delC[a] => c.id.src.doc = target[a]
    BY DEF ChunksInv, DeletedOf, Ids, ChunksOf
  <1>3. PagesOf(d)' = PagesOf(d)
    BY <1>1 DEF PagesOf, KeptPages
  <1> DEFINE kept(c) == [c EXCEPT !.linked = @ /\ c.id.src \notin delP[a]]
  <1>4. \A c \in chunks : /\ kept(c).id = c.id
                          /\ c.id.src.doc = d => kept(c) = c
    <2> SUFFICES ASSUME NEW c \in chunks
                 PROVE  kept(c).id = c.id /\ (c.id.src.doc = d => kept(c) = c)
      OBVIOUS
    <2>1. c \in ChunkRow
      BY DEF TypeOK, DbTypeOK
    <2>2. c.id.src.doc = d => c.id.src \notin delP[a]
      BY <1>1
    <2> QED
      BY <2>1, <2>2 DEF ChunkRow
  <1>5. chunks' = {kept(c) : c \in {e \in chunks : e.id \notin delC[a]}}
    BY DEF KeptChunks
  <1> HIDE DEF kept
  <1>6. ChunksOf(d)' = ChunksOf(d)
    BY <1>2, <1>4, <1>5 DEF ChunksOf
  <1> QED
    BY <1>3, <1>6

\* The rows of jobs keep their documents and statuses, no run starts: what CompleteInv
\* says of documents stays where their artifacts stay complete or a run is under way.
LEMMA StatusesKept ==
    ASSUME TypeOK, SerialInv, CompleteInv, UNCHANGED <<docStatus, runs>>,
           DOMAIN jobs' = DOMAIN jobs,
           \A j \in DOMAIN jobs : jobs'[j].doc = jobs[j].doc /\ jobs'[j].status = jobs[j].status,
           \A d \in Docs : \/ ArtifactsComplete(d) => ArtifactsComplete(d)'
                           \/ ~LastRunRecorded(d)
    PROVE  /\ \A d \in Docs : NewestOf(d)' /\ IndexedOf(d)'
           /\ \A d : Current(d)' <=> Current(d)
  <1>1. \A d : JobsOf(d)' = JobsOf(d)
    BY DEF JobsOf
  <1>2. \A d : \A j \in JobsOf(d) : jobs'[j].status = jobs[j].status
    BY DEF JobsOf
  <1>3. \A d : Current(d)' <=> Current(d)
    BY <1>1, <1>2, JobsOfKept
  <1>4. \A d : LastRunRecorded(d)' <=> LastRunRecorded(d)
    BY <1>1, <1>2, JobsOfKept DEF SerialInv
  <1>5. ASSUME NEW d \in Docs PROVE NewestOf(d)' /\ IndexedOf(d)'
    <2>1. NewestOf(d) /\ IndexedOf(d)
      BY DEF CompleteInv
    <2>2. CASE ArtifactsComplete(d) => ArtifactsComplete(d)'
      BY <1>1, <1>2, <1>4, <2>1, <2>2, DocumentKept
    <2>3. CASE ~LastRunRecorded(d)
      <3>1. IndexedOf(d)'
        BY <1>4, <2>3 DEF IndexedOf
      <3>2. NewestOf(d)'
        <4>1. \A j : IsNewest(d, j)' <=> IsNewest(d, j)
          BY <1>1, <1>2, JobsOfKept
        <4> QED
          BY <1>1, <2>1, <4>1 DEF NewestOf
      <3> QED
        BY <3>1, <3>2
    <2> QED
      BY <2>2, <2>3
  <1> QED
    BY <1>3, <1>5

\* A run that inserts the chunks of all pages of its document makes them complete.
LEMMA InsertedComplete ==
    ASSUME NEW w \in Workers, NEW pos, NEW d, d = target[w], TypeOK, ChunksInv,
           pc[w] = "pagesRead",
           chunks' = chunks \cup {[id |-> i, pos |-> pos[i], linked |-> TRUE,
                                   embedded |-> FALSE] : i \in IdsFrom(w)}
    PROVE  /\ Places(ChunksOf(d)') = PlacesIn(rows[w])
           /\ \A c \in ChunksOf(d)' : c.linked
           /\ \A e : e # d => ChunksOf(e)' = ChunksOf(e)
  <1> DEFINE row(i) == [id |-> i, pos |-> pos[i], linked |-> TRUE, embedded |-> FALSE]
             new    == {row(i) : i \in IdsFrom(w)}
  <1>1. ChunksOf(d) = {} /\ \A p \in rows[w] : p.doc = d
    BY DEF ChunksInv, ClearedOf, ReadOf
  <1>2. \A i \in IdsFrom(w) : /\ i.src \in rows[w] /\ i.src.doc = d /\ i.k \in 1..i.src.size
    BY <1>1, IdsOfRun
  <1>3. \A i : row(i).id = i /\ row(i).linked
    OBVIOUS
  <1>4. chunks' = chunks \cup new
    OBVIOUS
  <1> HIDE DEF row
  <1>5. ChunksOf(d)' = new
    BY <1>1, <1>2, <1>3, <1>4 DEF ChunksOf
  <1>6. \A e : e # d => ChunksOf(e)' = ChunksOf(e)
    BY <1>2, <1>3, <1>4 DEF ChunksOf
  <1>7. Places(new) = {<<i.src, i.k>> : i \in IdsFrom(w)}
    BY <1>3 DEF Places
  <1>8. {<<i.src, i.k>> : i \in IdsFrom(w)} = PlacesIn(rows[w])
    <2>1. \A i \in IdsFrom(w) : <<i.src, i.k>> \in PlacesIn(rows[w])
      BY <1>2 DEF PlacesIn
    <2>2. ASSUME NEW x \in PlacesIn(rows[w]) PROVE \E i \in IdsFrom(w) : x = <<i.src, i.k>>
      <3>1. PICK p \in rows[w] : \E k \in 1..p.size : x = <<p, k>>
        BY DEF PlacesIn
      <3>2. PICK k \in 1..p.size : x = <<p, k>>
        BY <3>1
      <3>3. [run |-> run[w], src |-> p, k |-> k] \in IdsFrom(w)
        BY DEF IdsFrom
      <3>4. LET i == [run |-> run[w], src |-> p, k |-> k] IN i.src = p /\ i.k = k
        OBVIOUS
      <3> QED
        BY <3>2, <3>3, <3>4
    <2> QED
      BY <2>1, <2>2
  <1> QED
    BY <1>3, <1>5, <1>6, <1>7, <1>8

\* Storing embeddings takes nothing from any document, and embeds the chunks it read.
LEMMA EmbeddedComplete ==
    ASSUME TypeOK, NEW ids, NEW d,
           chunks' = {[c EXCEPT !.embedded = @ \/ c.id \in ids] : c \in chunks}
    PROVE  /\ Places(ChunksOf(d)') = Places(ChunksOf(d))
           /\ (\A c \in ChunksOf(d) : c.linked) => \A c \in ChunksOf(d)' : c.linked
           /\ (\A c \in ChunksOf(d) : c.embedded) => \A c \in ChunksOf(d)' : c.embedded
           /\ ids = Ids(ChunksOf(d)) => \A c \in ChunksOf(d)' : c.embedded
  <1> DEFINE emb(c) == [c EXCEPT !.embedded = @ \/ c.id \in ids]
  <1>1. \A c \in chunks : /\ emb(c).id = c.id
                          /\ c.linked => emb(c).linked
                          /\ c.embedded => emb(c).embedded
                          /\ c.id \in ids => emb(c).embedded
    BY DEF TypeOK, DbTypeOK, ChunkRow
  <1>2. chunks' = {emb(c) : c \in chunks}
    OBVIOUS
  <1> HIDE DEF emb
  <1>3. ChunksOf(d)' = {emb(c) : c \in ChunksOf(d)}
    BY <1>1, <1>2 DEF ChunksOf
  <1>4. \A c \in ChunksOf(d) : c \in chunks /\ c.id \in Ids(ChunksOf(d))
    BY DEF ChunksOf, Ids
  <1>5. Places({emb(c) : c \in ChunksOf(d)}) = Places(ChunksOf(d))
    BY <1>1, <1>4 DEF Places
  <1> QED
    BY <1>1, <1>3, <1>4, <1>5

\* What CommitChunks and CommitEmbeddings write to the job leaves its status alone.
LEMMA StageWritten ==
    ASSUME NEW w \in Workers, NEW stage \in Stage, TypeOK, SerialInv,
           HasStarted(w), FlushJob(w, [seenJob[w] EXCEPT !.stage = stage])
    PROVE  /\ DOMAIN jobs' = DOMAIN jobs
           /\ \A j \in DOMAIN jobs : jobs'[j].doc = jobs[j].doc /\ jobs'[j].status = jobs[j].status
  <1> DEFINE new == [seenJob[w] EXCEPT !.stage = stage]
  <1>1. new \in JobColumns /\ new.status = seenJob[w].status
    BY DEF TypeOK, LocalsTypeOK, JobColumns
  <1>2. UpdateJob(w, new)
    BY DEF FlushJob
  <1>3. pc[w] # "idle" /\ SeenInv
    BY DEF HasStarted, SerialInv
  <1>4. seenJob[w].status = jobs[job[w]].status
    <2>1. seenJob[w] = Columns(jobs[job[w]])
      BY <1>3 DEF SeenInv
    <2> QED
      BY <2>1 DEF Columns
  <1> HIDE DEF new
  <1> QED
    BY <1>1, <1>2, <1>3, <1>4, UpdateCurrent

\* One more run: the other documents do not see it, and its own waits for it.
LEMMA RunAppended ==
    ASSUME NEW d, NEW k \in DOMAIN jobs', TypeOK, JobsInv, runs' = Append(runs, k),
           DOMAIN jobs' = DOMAIN jobs, JobsOf(d)' = JobsOf(d),
           \A j \in JobsOf(d) : j # k => jobs'[j].status = jobs[j].status
    PROVE  /\ jobs'[k].doc # d => (LastRunRecorded(d)' => LastRunRecorded(d))
           /\ jobs'[k].doc = d /\ jobs'[k].status = "RUNNING" => ~LastRunRecorded(d)'
  <1>0. PICK n \in Nat : n = Len(runs) + 1
    BY DEF TypeOK, DbTypeOK
  <1>1. /\ runs \in Seq(Nat) /\ Len(runs) \in Nat /\ k \in Nat
    BY DEF TypeOK, DbTypeOK
  <1>2. LET t == Append(runs, k)
        IN  /\ DOMAIN t = DOMAIN runs \cup {n} /\ t[n] = k /\ Len(t) = n
            /\ DOMAIN runs = 1..Len(runs) /\ \A r \in DOMAIN runs : t[r] = runs[r]
    BY <1>0, <1>1, RowAppended
  <1>3. /\ DOMAIN runs' = DOMAIN runs \cup {n} /\ runs'[n] = k /\ Len(runs') = n
        /\ DOMAIN runs = 1..Len(runs) /\ \A r \in DOMAIN runs : runs'[r] = runs[r]
    BY <1>2
  <1>4. \A j \in DOMAIN jobs : jobs'[j].doc = d <=> jobs[j].doc = d
    BY DEF JobsOf
  <1>5. \A r \in DOMAIN runs : runs[r] \in DOMAIN jobs
    BY DEF JobsInv
  <1>6. ASSUME jobs'[k].doc # d, LastRunRecorded(d)' PROVE LastRunRecorded(d)
    <2> SUFFICES ASSUME NEW r \in DOMAIN runs, jobs[runs[r]].doc = d,
                        \A q \in (r + 1)..Len(runs) : jobs[runs[q]].doc # d
                 PROVE  jobs[runs[r]].status # "RUNNING"
      BY DEF LastRunRecorded
    <2>1. /\ r \in DOMAIN runs' /\ runs'[r] = runs[r] /\ runs[r] \in JobsOf(d)
          /\ jobs'[runs[r]].doc = d /\ runs[r] # k
      BY <1>3, <1>4, <1>5, <1>6 DEF JobsOf
    <2>2. ASSUME NEW q \in (r + 1)..Len(runs') PROVE jobs'[runs'[q]].doc # d
      <3>1. q = n \/ (q \in DOMAIN runs /\ q \in (r + 1)..Len(runs))
        BY <1>0, <1>1, <1>3
      <3>2. CASE q = n
        BY <1>3, <1>6, <3>2
      <3>3. CASE q \in DOMAIN runs /\ q \in (r + 1)..Len(runs)
        BY <1>3, <1>4, <1>5, <3>3
      <3> QED
        BY <3>1, <3>2, <3>3
    <2>3. jobs'[runs'[r]].status # "RUNNING"
      BY <1>6, <2>1, <2>2 DEF LastRunRecorded
    <2> QED
      BY <2>1, <2>3
  <1>7. ASSUME jobs'[k].doc = d, jobs'[k].status = "RUNNING" PROVE ~LastRunRecorded(d)'
    <2>1. n \in DOMAIN runs' /\ (n + 1)..Len(runs') = {}
      BY <1>3
    <2> QED
      BY <1>3, <1>7, <2>1 DEF LastRunRecorded
  <1> QED
    BY <1>6, <1>7

LEMMA StartComplete ==
    ASSUME OneWorker, NEW w \in Workers, TypeOK, SerialInv, CompleteInv, Start(w)
    PROVE  \A d \in Docs : NewestOf(d)' /\ IndexedOf(d)'
  <1> DEFINE new == [status |-> "RUNNING", stage |-> "parsing", error |-> FALSE,
                     attempts |-> seenJob[w].attempts + 1]
             k   == job[w]
  <1>1. /\ pc[w] = "loaded" /\ FlushJob(w, new) /\ runs' = Append(runs, k)
        /\ UNCHANGED <<docStatus, pages, chunks>>
    BY DEF Start
  <1>2. new \in JobColumns /\ new.status = "RUNNING"
    BY DEF TypeOK, LocalsTypeOK, JobColumns, JobStatus, Stage
  <1>3. UpdateJob(w, new) /\ pc[w] # "idle" /\ SeenInv /\ JobsInv
    BY <1>1 DEF FlushJob, SerialInv
  <1> HIDE DEF new
  <1>4. /\ DOMAIN jobs' = DOMAIN jobs /\ k \in DOMAIN jobs
        /\ \A j \in DOMAIN jobs : jobs'[j].doc = jobs[j].doc
        /\ \A j \in DOMAIN jobs : j # k => jobs'[j] = jobs[j]
        /\ jobs'[k].status = "RUNNING"
    BY <1>2, <1>3, UpdateCurrent
  <1>5. jobs[k].doc = target[w]
    BY <1>1, <1>3 DEF JobsInv
  <1> HIDE DEF k
  <1>6. \A d : JobsOf(d)' = JobsOf(d)
    BY <1>4 DEF JobsOf
  <1>7. \A d : \A j \in JobsOf(d) : j # k => jobs'[j].status = jobs[j].status
    BY <1>4 DEF JobsOf
  <1>8. ASSUME NEW d \in Docs PROVE NewestOf(d)' /\ IndexedOf(d)'
    <2>1. NewestOf(d) /\ IndexedOf(d)
      BY DEF CompleteInv
    <2>2. CASE d = target[w]
      <3>1. ~LastRunRecorded(d)'
        BY <1>1, <1>3, <1>4, <1>5, <1>6, <1>7, <2>2, RunAppended
      <3>2. NewestOf(d)'
        BY <1>1, <1>4, <1>6, <2>1 DEF NewestOf, IsNewest
      <3> QED
        BY <3>1, <3>2 DEF IndexedOf
    <2>3. CASE d # target[w]
      <3>1. LastRunRecorded(d)' => LastRunRecorded(d)
        BY <1>1, <1>3, <1>4, <1>5, <1>6, <1>7, <2>3, RunAppended
      <3>2. \A j \in JobsOf(d) : jobs'[j].status = jobs[j].status
        BY <1>5, <1>7, <2>3 DEF JobsOf
      <3>3. ArtifactsComplete(d) => ArtifactsComplete(d)'
        BY <1>1 DEF ArtifactsComplete, PagesOf, ChunksOf
      <3> QED
        BY <1>1, <1>4, <1>6, <2>1, <3>1, <3>2, <3>3, DocumentKept
    <2> QED
      BY <2>2, <2>3
  <1> QED
    BY <1>8

\* The end of a run: one that no reprocess has overtaken has found all its chunks made
\* and embedded.
LEMMA EndComplete ==
    ASSUME OneWorker, NEW w \in Workers, TypeOK, SerialInv, CompleteInv, Finalize(w)
    PROVE  \A d \in Docs : NewestOf(d)' /\ IndexedOf(d)'
  <1> DEFINE k == job[w]
             t == target[w]
  <1>1. /\ pc[w] # "idle"
        /\ DOMAIN jobs' = DOMAIN jobs
        /\ \A j \in DOMAIN jobs : jobs'[j].doc = jobs[j].doc
        /\ \A j \in DOMAIN jobs : j # k => jobs'[j] = jobs[j]
    BY EndSerial
  <1>2. w \in Actors /\ t \in Docs /\ k \in DOMAIN jobs /\ jobs[k].doc = t
    BY <1>1 DEF TypeOK, BusyOK, Actors, SerialInv, JobsInv
  <1>3. UNCHANGED <<pages, chunks, runs>> /\ pc[w] = "embedded"
    BY DEF Finalize
  <1>4. HasStarted(w) /\ jobs[k].status = "RUNNING" /\ JobsInv
    BY <1>3 DEF HasStarted, SerialInv, RunInv
  <1>5. \A d \in Docs : d # t => docStatus'[d] = docStatus[d]
    BY DEF Finalize, TypeOK, DbTypeOK
  <1>6. \A d : ArtifactsComplete(d) => ArtifactsComplete(d)'
    BY <1>3 DEF ArtifactsComplete, PagesOf, ChunksOf
  <1>7. ProgressOf(w)
    BY DEF CompleteInv
  <1>8. \A d : JobsOf(d)' = JobsOf(d)
    BY <1>1 DEF JobsOf
  <1>9. \A d, j : IsNewest(d, j)' <=> IsNewest(d, j)
    BY <1>8 DEF IsNewest
  <1> HIDE DEF k, t
  <1>10. ASSUME NEW d \in Docs PROVE NewestOf(d)' /\ IndexedOf(d)'
    <2>1. NewestOf(d) /\ IndexedOf(d)
      BY DEF CompleteInv
    <2>2. CASE d = t
      <3>1. \E j \in DOMAIN jobs : IsNewest(d, j)
        BY <1>2, <2>1, <2>2 DEF NewestOf, JobsOf
      <3>2. NewestOf(d)'
        BY <1>1, <1>9, <3>1 DEF NewestOf
      <3>3. ASSUME docStatus'[d] = "indexed",
                   NEW j \in DOMAIN jobs', IsNewest(d, j)', jobs'[j].status = "SUCCEEDED"
            PROVE  ArtifactsComplete(d)'
        <4>1. j \in DOMAIN jobs /\ IsNewest(d, j) /\ jobs[j].status # "PENDING"
          BY <1>1, <1>4, <1>9, <3>3
        <4>2. Current(d)
          BY <4>1 DEF Current
        <4>3. ArtifactsComplete(d)
          BY <1>3, <1>7, <2>2, <4>2 DEF ProgressOf, ArtifactsComplete, Places, PlacesIn, t
        <4> QED
          BY <1>6, <4>3
      <3> QED
        BY <3>2, <3>3 DEF IndexedOf
    <2>3. CASE d # t
      <3>1. \A j \in JobsOf(d) : jobs'[j].status = jobs[j].status
        BY <1>1, <1>2, <2>3 DEF JobsOf
      <3>2. LastRunRecorded(d)' <=> LastRunRecorded(d)
        BY <1>1, <1>3, <1>4, <1>8, <3>1, JobsOfKept
      <3> QED
        BY <1>1, <1>5, <1>6, <1>8, <2>1, <2>3, <3>1, <3>2, DocumentKept
    <2> QED
      BY <2>2, <2>3
  <1> QED
    BY <1>10

\* Steps that change nothing of what the invariant looks at.
LEMMA UnchangedComplete ==
    ASSUME CompleteInv, UNCHANGED <<docStatus, jobs, pages, chunks, runs, pc, target, rows>>
    PROVE  CompleteInv'
  BY DEF CompleteInv, ProgressOf, NewestOf, IndexedOf, Current, IsNewest, JobsOf,
         LastRunRecorded, ArtifactsComplete, Places, PlacesIn, PagesOf, ChunksOf, Ids

LEMMA RunStepComplete ==
    ASSUME OneWorker, NEW w \in Workers,
           TypeOK, SerialInv, PagesInv, ChunksInv, CompleteInv,
           \/ \E j \in DOMAIN jobs : LoadJob(w, j)
           \/ RunStep(w) \/ StageFails(w) \/ Crash(w)
    PROVE  CompleteInv'
  <1> w \in Actors /\ \A v \in Workers : v = w
    BY DEF Actors, OneWorker
  <1> DEFINE Busy == {"pagesRead", "chunked", "chunksRead", "embedded"}
  <1>1. pc \in [Actors -> PC] /\ rows \in [Actors -> SUBSET (PageRow \cup ChunkId)]
    BY DEF TypeOK, LocalsTypeOK, TxTypeOK
  <1>2. ProgressOf(w) /\ \A d \in Docs : NewestOf(d) /\ IndexedOf(d)
    BY DEF CompleteInv
  <1>3. ASSUME \A d \in Docs : NewestOf(d)' /\ IndexedOf(d)', pc'[w] \notin Busy
        PROVE  CompleteInv'
    BY <1>3 DEF CompleteInv, ProgressOf
  <1>4. ASSUME UNCHANGED <<docStatus, jobs, pages, chunks, runs>>
        PROVE  /\ \A d \in Docs : NewestOf(d)' /\ IndexedOf(d)'
               /\ \A d : Current(d)' <=> Current(d)
    <2>1. \A d \in Docs : ArtifactsComplete(d) => ArtifactsComplete(d)'
      BY <1>4 DEF ArtifactsComplete, PagesOf, ChunksOf
    <2> QED
      BY <1>4, <2>1, StatusesKept
  <1>5. ASSUME Leave(w), UNCHANGED <<docStatus, jobs, pages, chunks, runs>>
        PROVE  CompleteInv'
    <2>1. pc'[w] \notin Busy
      BY <1>1, <1>5 DEF Leave, Goto
    <2> QED
      BY <1>3, <1>4, <1>5, <2>1
  <1>6. CASE \E j \in DOMAIN jobs : LoadJob(w, j)
    <2>1. pc'[w] \notin Busy
      BY <1>1, <1>6 DEF LoadJob, Goto
    <2> QED
      BY <1>3, <1>4, <1>6, <2>1 DEF LoadJob, db
  <1>7. CASE LoadDocument(w)
    <2>1. pc'[w] \notin Busy
      BY <1>1, <1>7 DEF LoadDocument, Leave, Goto
    <2> QED
      BY <1>3, <1>4, <1>7, <2>1 DEF LoadDocument, db
  <1>8. CASE ClearStep(w)
    <2>1. pc'[w] \notin Busy /\ UNCHANGED <<db, runs>>
      BY <1>1, <1>8 DEF ClearStep, DeleteChunks, ChunksDeleted, DeletePages,
                        PagesDeleted, Goto
    <2> QED
      BY <1>3, <1>4, <2>1 DEF db
  <1>9. ASSUME NEW layout \in Layouts, CommitParse(w, layout) PROVE CompleteInv'
    <2>1. CASE Leave(w) /\ UNCHANGED <<pages, chunks>>
      BY <1>5, <1>9, <2>1 DEF CommitParse
    <2>2. CASE ~(Leave(w) /\ UNCHANGED <<pages, chunks>>)
      <3>1. /\ pc[w] = "cleared" /\ pc' = [pc EXCEPT ![w] = "parsed"]
            /\ pages' = KeptPages(w) \cup PagesFrom(w, layout) /\ chunks' = KeptChunks(w)
            /\ UNCHANGED <<docStatus, jobs, runs>>
        BY <1>9, <2>2 DEF CommitParse, Goto
      <3>2. \A p \in PagesFrom(w, layout) : p.doc = target[w]
        BY DEF PagesFrom
      <3>3. \A d \in Docs : d # target[w] =>
              PagesOf(d)' = PagesOf(d) /\ ChunksOf(d)' = ChunksOf(d)
        BY <3>1, <3>2, OthersUntouched
      <3>4. \A d \in Docs : d # target[w] =>
              (ArtifactsComplete(d) => ArtifactsComplete(d)')
        BY <3>3 DEF ArtifactsComplete
      <3>5. ~LastRunRecorded(target[w])
        BY <3>1, Underway DEF HasStarted
      <3>6. \A d \in Docs : NewestOf(d)' /\ IndexedOf(d)'
        BY <3>1, <3>4, <3>5, StatusesKept
      <3> QED
        BY <1>1, <1>3, <3>1, <3>6
    <2> QED
      BY <2>1, <2>2
  <1>10. CASE ReadPages(w)
    <2>1. /\ UNCHANGED <<docStatus, jobs, pages, chunks, runs, target>>
          /\ pc'[w] = "pagesRead" /\ rows'[w] = PagesOf(target[w])
      BY <1>1, <1>10 DEF ReadPages, Goto, db, locals
    <2>2. ProgressOf(w)'
      BY <2>1 DEF ProgressOf, PagesOf
    <2> QED
      BY <1>4, <2>1, <2>2 DEF CompleteInv
  <1>12. CASE ReadChunks(w)
    <2>1. /\ UNCHANGED <<docStatus, jobs, pages, chunks, runs, target>>
          /\ pc[w] = "chunked" /\ pc'[w] = "chunksRead" /\ rows'[w] = Ids(ChunksOf(target[w]))
      BY <1>1, <1>12 DEF ReadChunks, Goto, db, locals
    <2>2. /\ PagesOf(target[w])' = PagesOf(target[w])
          /\ ChunksOf(target[w])' = ChunksOf(target[w])
          /\ Current(target[w])' <=> Current(target[w])
      BY <1>4, <2>1 DEF PagesOf, ChunksOf
    <2>3. ProgressOf(w)'
      BY <1>2, <2>1, <2>2 DEF ProgressOf, Places, PlacesIn, Ids
    <2> QED
      BY <1>4, <2>1, <2>3 DEF CompleteInv
  <1>15. CASE StageFails(w)
    BY <1>5, <1>15 DEF StageFails, db
  <1>16. CASE Crash(w)
    BY <1>5, <1>16 DEF Crash, db
  <1>11. CASE CommitChunks(w)
    <2>1. CASE Leave(w) /\ UNCHANGED <<jobs, chunks>>
      BY <1>5, <1>11, <2>1 DEF CommitChunks
    <2>2. CASE ~(Leave(w) /\ UNCHANGED <<jobs, chunks>>)
      <3>1. /\ pc[w] = "pagesRead" /\ pc' = [pc EXCEPT ![w] = "chunked"]
            /\ UNCHANGED <<docStatus, pages, target, runs>>
            /\ FlushJob(w, [seenJob[w] EXCEPT !.stage = "chunking"])
            /\ \E pos \in Numberings(IdsFrom(w)) :
                 chunks' = chunks \cup {[id |-> i, pos |-> pos[i], linked |-> TRUE,
                                         embedded |-> FALSE] : i \in IdsFrom(w)}
        BY <1>11, <2>2 DEF CommitChunks, Goto
      <3>2. PICK d : d = target[w]
        OBVIOUS
      <3>3. /\ Places(ChunksOf(d)') = PlacesIn(rows[w])
            /\ \A c \in ChunksOf(d)' : c.linked
            /\ \A e : e # d => ChunksOf(e)' = ChunksOf(e)
        BY <3>1, <3>2, InsertedComplete
      <3>4. HasStarted(w) /\ "chunking" \in Stage
        BY <3>1 DEF HasStarted, Stage
      <3>5. /\ DOMAIN jobs' = DOMAIN jobs
            /\ \A j \in DOMAIN jobs :
                 jobs'[j].doc = jobs[j].doc /\ jobs'[j].status = jobs[j].status
        BY <3>1, <3>4, StageWritten
      <3>6. \A e : e # d => (ArtifactsComplete(e) => ArtifactsComplete(e)')
        BY <3>1, <3>3 DEF ArtifactsComplete, PagesOf
      <3>7. ~LastRunRecorded(d)
        BY <3>2, <3>4, Underway
      <3>8. /\ \A e \in Docs : NewestOf(e)' /\ IndexedOf(e)'
            /\ Current(d)' <=> Current(d)
        BY <3>1, <3>5, <3>6, <3>7, StatusesKept
      <3>9. ProgressOf(w)'
        <4>1. Current(d) => rows[w] = PagesOf(d)
          BY <1>2, <3>1, <3>2 DEF ProgressOf
        <4>2. PagesOf(d)' = PagesOf(d) /\ target'[w] = d /\ pc'[w] = "chunked"
          BY <1>1, <3>1, <3>2 DEF PagesOf
        <4>3. Current(d)' => Places(ChunksOf(d)') = PlacesIn(PagesOf(d)')
          BY <3>3, <3>8, <4>1, <4>2
        <4>4. /\ Places(ChunksOf(d)') = Places(ChunksOf(d))'
              /\ PlacesIn(PagesOf(d)') = PlacesIn(PagesOf(d))'
          BY DEF Places, PlacesIn
        <4> QED
          BY <3>3, <4>2, <4>3, <4>4 DEF ProgressOf
      <3> QED
        BY <3>8, <3>9 DEF CompleteInv
    <2> QED
      BY <2>1, <2>2
  <1>13. CASE CommitEmbeddings(w)
    <2>1. /\ pc[w] = "chunksRead" /\ pc' = [pc EXCEPT ![w] = "embedded"]
          /\ UNCHANGED <<docStatus, pages, target, runs>>
          /\ FlushJob(w, [seenJob[w] EXCEPT !.stage = "embedding"])
          /\ chunks' = {[c EXCEPT !.embedded = @ \/ c.id \in rows[w]] : c \in chunks}
      BY <1>13 DEF CommitEmbeddings, Goto
    <2>2. PICK d : d = target[w]
      OBVIOUS
    <2>3. \A e : /\ Places(ChunksOf(e)') = Places(ChunksOf(e))
                 /\ (\A c \in ChunksOf(e) : c.linked) => \A c \in ChunksOf(e)' : c.linked
                 /\ (\A c \in ChunksOf(e) : c.embedded) => \A c \in ChunksOf(e)' : c.embedded
                 /\ rows[w] = Ids(ChunksOf(e)) => \A c \in ChunksOf(e)' : c.embedded
      BY <2>1, EmbeddedComplete
    <2>4. HasStarted(w) /\ "embedding" \in Stage
      BY <2>1 DEF HasStarted, Stage
    <2>5. /\ DOMAIN jobs' = DOMAIN jobs
          /\ \A j \in DOMAIN jobs :
               jobs'[j].doc = jobs[j].doc /\ jobs'[j].status = jobs[j].status
      BY <2>1, <2>4, StageWritten
    <2>6. \A e : ArtifactsComplete(e) => ArtifactsComplete(e)'
      <3> SUFFICES ASSUME NEW e, ArtifactsComplete(e) PROVE ArtifactsComplete(e)'
        OBVIOUS
      <3>1. /\ Places(ChunksOf(e)) = PlacesIn(PagesOf(e))
            /\ \A c \in ChunksOf(e) : c.linked /\ c.embedded
        BY DEF ArtifactsComplete, Places, PlacesIn
      <3>2. /\ Places(ChunksOf(e)') = PlacesIn(PagesOf(e)')
            /\ \A c \in ChunksOf(e)' : c.linked /\ c.embedded
        <4>1. PagesOf(e)' = PagesOf(e)
          BY <2>1 DEF PagesOf
        <4> QED
          BY <2>3, <3>1, <4>1
      <3> QED
        BY <3>2 DEF ArtifactsComplete, Places, PlacesIn
    <2>7. /\ \A e \in Docs : NewestOf(e)' /\ IndexedOf(e)'
          /\ Current(d)' <=> Current(d)
      BY <2>1, <2>5, <2>6, StatusesKept
    <2>8. ProgressOf(w)'
      <3>1. Current(d) => /\ Places(ChunksOf(d)) = PlacesIn(PagesOf(d))
                          /\ \A c \in ChunksOf(d) : c.linked
                          /\ rows[w] = Ids(ChunksOf(d))
        BY <1>2, <2>1, <2>2 DEF ProgressOf
      <3>2. PagesOf(d)' = PagesOf(d) /\ target'[w] = d /\ pc'[w] = "embedded"
        BY <1>1, <2>1, <2>2 DEF PagesOf
      <3>3. Current(d)' => /\ Places(ChunksOf(d)') = PlacesIn(PagesOf(d)')
                           /\ \A c \in ChunksOf(d)' : c.linked /\ c.embedded
        BY <2>3, <2>7, <3>1, <3>2
      <3>4. /\ Places(ChunksOf(d)') = Places(ChunksOf(d))'
            /\ PlacesIn(PagesOf(d)') = PlacesIn(PagesOf(d))'
        BY DEF Places, PlacesIn
      <3> QED
        BY <3>2, <3>3, <3>4 DEF ProgressOf
    <2> QED
      BY <2>7, <2>8 DEF CompleteInv
  <1>14. CASE Finalize(w)
    <2>1. pc'[w] \notin Busy
      BY <1>1, <1>14 DEF Finalize, Leave, Goto
    <2> QED
      BY <1>3, <1>14, <2>1, EndComplete
  <1>18. CASE LockRow(w)
    BY <1>18, UnchangedComplete DEF LockRow, db, locals
  <1>17. CASE Start(w)
    <2>1. pc'[w] \notin Busy
      BY <1>1, <1>17 DEF Start, Goto
    <2> QED
      BY <1>3, <1>17, <2>1, StartComplete
  <1> QED
    BY <1>6, <1>7, <1>8, <1>9, <1>10, <1>11, <1>12, <1>13, <1>14, <1>15, <1>16, <1>17,
       <1>18 DEF RunStep

\* A new job of a document that is QUEUED, or INDEXED still: nothing is claimed of the
\* document until a run has ended; the others keep what they have.
LEMMA JobAppendedComplete ==
    ASSUME TypeOK, SerialInv, CompleteInv, UNCHANGED runs,
           NEW d \in Docs, jobs' = Append(jobs, NewJob(d)),
           \A e \in Docs : e # d => /\ docStatus'[e] = docStatus[e]
                                   /\ PagesOf(e)' = PagesOf(e) /\ ChunksOf(e)' = ChunksOf(e)
    PROVE  /\ \A e \in Docs : NewestOf(e)' /\ IndexedOf(e)'
           /\ \A e : Current(e)' => e # d /\ Current(e)
  <1>1. /\ DOMAIN jobs \subseteq DOMAIN jobs'
        /\ \A j \in DOMAIN jobs : jobs'[j] = jobs[j]
        /\ \A e : e # d => JobsOf(e)' = JobsOf(e)
        /\ ~Current(d)' /\ \E j \in DOMAIN jobs' : IsNewest(d, j)'
        /\ \A j \in DOMAIN jobs' : IsNewest(d, j)' => jobs'[j].status = "PENDING"
    BY JobAppended
  <1>2. \A e : \A j \in JobsOf(e) : jobs'[j].status = jobs[j].status
    BY <1>1 DEF JobsOf
  <1>3. NewestOf(d)' /\ IndexedOf(d)'
    BY <1>1 DEF NewestOf, IndexedOf
  <1>4. ASSUME NEW e, e # d
        PROVE  (Current(e)' <=> Current(e)) /\ (LastRunRecorded(e)' <=> LastRunRecorded(e))
    BY <1>1, <1>2, <1>4, JobsOfKept DEF SerialInv
  <1>5. ASSUME NEW e \in Docs, e # d PROVE NewestOf(e)' /\ IndexedOf(e)'
    <2>1. ArtifactsComplete(e) => ArtifactsComplete(e)'
      BY <1>5 DEF ArtifactsComplete
    <2>2. NewestOf(e) /\ IndexedOf(e)
      BY DEF CompleteInv
    <2> QED
      BY <1>1, <1>2, <1>4, <1>5, <2>1, <2>2, DocumentKept
  <1> QED
    BY <1>1, <1>3, <1>4, <1>5

LEMMA RequestStepComplete ==
    ASSUME OneWorker, NEW r \in Requests,
           TypeOK, SerialInv, PagesInv, ChunksInv, CompleteInv,
           \/ \E d \in Docs : OpenReprocess(r, d)
           \/ ReprocessStep(r) \/ AbortReprocess(r)
    PROVE  CompleteInv'
  <1>1. /\ runs' = runs
        /\ \A w \in Workers : pc'[w] = pc[w] /\ target'[w] = target[w] /\ rows'[w] = rows[w]
        /\ UNCHANGED db \/ CommitReprocess(r)
    BY RequestStepFrame
  <1>2. CASE UNCHANGED db
    <2>1. UNCHANGED <<docStatus, jobs, pages, chunks>>
      BY <1>2 DEF db
    <2>2. \A d : PagesOf(d)' = PagesOf(d) /\ ChunksOf(d)' = ChunksOf(d)
      BY <2>1 DEF PagesOf, ChunksOf
    <2>3. \A d \in Docs : ArtifactsComplete(d) => ArtifactsComplete(d)'
      BY <2>2 DEF ArtifactsComplete
    <2>4. /\ \A d \in Docs : NewestOf(d)' /\ IndexedOf(d)'
          /\ \A d : Current(d)' <=> Current(d)
      BY <1>1, <2>1, <2>3, StatusesKept
    <2>5. ASSUME NEW w \in Workers PROVE ProgressOf(w)'
      <3>1. ProgressOf(w)
        BY DEF CompleteInv
      <3>2. Current(target[w])' => Current(target[w])
        BY <1>1, <2>1 DEF Current, IsNewest, JobsOf
      <3>3. PagesOf(target[w])' = PagesOf(target[w]) /\ ChunksOf(target[w])' = ChunksOf(target[w])
        BY <1>1, <2>1 DEF PagesOf, ChunksOf
      <3> QED
        BY <1>1, <3>1, <3>2, <3>3 DEF ProgressOf, Places, PlacesIn, Ids
    <2> QED
      BY <2>4, <2>5 DEF CompleteInv
  <1>3. CASE CommitReprocess(r)
    <2> r \in Actors
      BY DEF Actors
    <2>1. /\ pc[r] = "cleared" /\ pages' = KeptPages(r) \cup {} /\ chunks' = KeptChunks(r)
          /\ docStatus' = [docStatus EXCEPT ![target[r]] = Written(@, seenDoc[r], "queued")]
          /\ jobs' = Append(jobs, NewJob(target[r]))
      BY <1>3 DEF CommitReprocess
    <2>2. PICK d \in Docs : d = target[r]
      BY <2>1 DEF TypeOK, BusyOK
    <2>3. \A e : e # d => PagesOf(e)' = PagesOf(e) /\ ChunksOf(e)' = ChunksOf(e)
      <3>1. PICK P : P = {}
        OBVIOUS
      <3>2. pages' = KeptPages(r) \cup P /\ \A p \in P : p.doc = target[r]
        BY <2>1, <3>1
      <3> QED
        BY <2>1, <2>2, <3>2, OthersUntouched
    <2>4. \A e \in Docs : e # d => docStatus'[e] = docStatus[e]
      BY <2>1, <2>2 DEF TypeOK, DbTypeOK
    <2>5. /\ \A e \in Docs : NewestOf(e)' /\ IndexedOf(e)'
          /\ \A e : Current(e)' => e # d /\ Current(e)
      BY <1>1, <2>1, <2>2, <2>3, <2>4, JobAppendedComplete
    <2>6. ASSUME NEW w \in Workers PROVE ProgressOf(w)'
      <3>1. ProgressOf(w)
        BY DEF CompleteInv
      <3>2. PICK e : e = target[w]
        OBVIOUS
      <3>3. target'[w] = e
        BY <1>1, <3>2
      <3>4. Current(target[w])' => e # d /\ Current(target[w])
        <4>1. Current(target[w])' <=> Current(e)'
          BY <3>3 DEF Current, IsNewest, JobsOf
        <4> QED
          BY <2>5, <3>2, <4>1
      <3>5. e # d => /\ PagesOf(target[w])' = PagesOf(target[w])
                     /\ ChunksOf(target[w])' = ChunksOf(target[w])
        BY <2>3, <3>2, <3>3 DEF PagesOf, ChunksOf
      <3> QED
        BY <1>1, <3>1, <3>4, <3>5 DEF ProgressOf, Places, PlacesIn, Ids
    <2> QED
      BY <2>5, <2>6 DEF CompleteInv
  <1> QED
    BY <1>1, <1>2, <1>3

LEMMA CreateComplete ==
    ASSUME NEW d \in Docs, TypeOK, SerialInv, CompleteInv, CreateDocument(d)
    PROVE  CompleteInv'
  <1>1. /\ docStatus' = [docStatus EXCEPT ![d] = "queued"] /\ jobs' = Append(jobs, NewJob(d))
        /\ UNCHANGED <<pages, chunks, pc, target, rows, runs>>
    BY DEF CreateDocument, locals, tx
  <1>2. \A e \in Docs : e # d => /\ docStatus'[e] = docStatus[e]
                                /\ PagesOf(e)' = PagesOf(e) /\ ChunksOf(e)' = ChunksOf(e)
    BY <1>1 DEF PagesOf, ChunksOf, TypeOK, DbTypeOK
  <1>3. /\ \A e \in Docs : NewestOf(e)' /\ IndexedOf(e)'
        /\ \A e : Current(e)' => e # d /\ Current(e)
    BY <1>1, <1>2, JobAppendedComplete
  <1>4. ASSUME NEW w \in Workers PROVE ProgressOf(w)'
    <2>1. ProgressOf(w)
      BY DEF CompleteInv
    <2>2. PICK e : e = target[w] /\ e = target'[w]
      BY <1>1
    <2>3. Current(target[w])' => Current(target[w])
      <3>1. Current(target[w])' <=> Current(e)'
        BY <2>2 DEF Current, IsNewest, JobsOf
      <3> QED
        BY <1>3, <2>2, <3>1
    <2>4. PagesOf(target[w])' = PagesOf(target[w]) /\ ChunksOf(target[w])' = ChunksOf(target[w])
      BY <1>1 DEF PagesOf, ChunksOf
    <2> QED
      BY <1>1, <2>1, <2>3, <2>4 DEF ProgressOf, Places, PlacesIn, Ids
  <1> QED
    BY <1>3, <1>4 DEF CompleteInv

LEMMA CompleteNext ==
    ASSUME OneWorker, TypeOK, SerialInv, PagesInv, ChunksInv, CompleteInv, [Next]_vars
    PROVE  CompleteInv'
  <1>1. ASSUME NEW d \in Docs, SoftDelete(d) PROVE CompleteInv'
    BY <1>1, UnchangedComplete DEF SoftDelete, locals, tx
  <1>2. CASE UNCHANGED vars
    BY <1>2, UnchangedComplete DEF vars, db, locals, tx
  <1> QED
    BY <1>1, <1>2, RunStepComplete, RequestStepComplete, CreateComplete DEF Next, Quiescent

LEMMA CompleteInit == Init => CompleteInv
  <1> SUFFICES ASSUME Init PROVE CompleteInv
    OBVIOUS
  <1>1. /\ \A w \in Workers : pc[w] = "idle"
        /\ \A d \in Docs : docStatus[d] = "none"
        /\ jobs = <<>>
    BY DEF Init, Actors
  <1>2. \A w \in Workers : ProgressOf(w)
    BY <1>1 DEF ProgressOf
  <1>3. \A d \in Docs : NewestOf(d) /\ IndexedOf(d)
    <2>1. DOMAIN jobs = {}
      BY <1>1
    <2> SUFFICES ASSUME NEW d \in Docs PROVE NewestOf(d) /\ IndexedOf(d)
      OBVIOUS
    <2>2. JobsOf(d) = {} /\ docStatus[d] = "none"
      BY <1>1, <2>1 DEF JobsOf
    <2> QED
      BY <2>2 DEF NewestOf, IndexedOf
  <1> QED
    BY <1>2, <1>3 DEF CompleteInv

LEMMA CompleteInvCorrect ==
    ASSUME OneWorker
    PROVE  Spec => [](TypeOK /\ PagesInv /\ SerialInv /\ ChunksInv /\ CompleteInv)
  <1>1. TypeOK /\ SerialInv /\ PagesInv /\ ChunksInv /\ CompleteInv /\ [Next]_vars
          => CompleteInv'
    BY CompleteNext
  <1> QED
    BY <1>1, CompleteInit, PagesInvCorrect, ChunksInvCorrect, PTL DEF Spec

\* With a single worker: a document whose newest job has SUCCEEDED, that is INDEXED, and
\* that nobody works on has every chunk of every page, each with its page and its
\* embedding, unless the last run on it died or failed.
THEOREM IndexCorrect ==
    ASSUME OneWorker
    PROVE  Spec => []SettledIndexComplete
  <1>1. TypeOK /\ CompleteInv => SettledIndexComplete
    <2> SUFFICES ASSUME TypeOK, CompleteInv, NEW d \in Docs, docStatus[d] = "indexed",
                        LastRunRecorded(d), jobs[Newest(d)].status = "SUCCEEDED"
                 PROVE  ArtifactsComplete(d)
      BY DEF SettledIndexComplete
    <2>1. PICK j \in DOMAIN jobs : IsNewest(d, j)
      BY DEF CompleteInv, NewestOf
    <2>2. JobsOf(d) \subseteq Nat
      BY DEF JobsOf, TypeOK, DbTypeOK
    <2>3. IsNewest(d, Newest(d))
      BY <2>1 DEF Newest, IsNewest
    <2>4. Newest(d) = j
      <3>1. Newest(d) <= j /\ j <= Newest(d) /\ Newest(d) \in Nat /\ j \in Nat
        BY <2>1, <2>2, <2>3 DEF IsNewest
      <3> QED
        BY <3>1
    <2> QED
      BY <2>1, <2>4 DEF CompleteInv, IndexedOf
  <1> QED
    BY <1>1, CompleteInvCorrect, PTL

=============================================================================
