-------------------------- MODULE IngestionPipeline --------------------------
(***************************************************************************)
(* The ingestion pipeline of the document API: the documents, ingestion    *)
(* jobs, pages and chunks kept in Postgres, the workers that run           *)
(* process_ingestion_job over them, and the API requests that create,      *)
(* reprocess and soft-delete documents meanwhile.                          *)
(*                                                                         *)
(* Only version 1 of a document is ever created, so a document stands for  *)
(* its version.  A `session.begin()` block of the code is one transaction: *)
(* it reads committed rows, keeps the rows it deletes locked until it      *)
(* ends, and publishes its writes when it commits.  An UPDATE sent by the  *)
(* ORM writes only the columns whose value differs from what the session   *)
(* last loaded or flushed: expire_on_commit is False, so what the session  *)
(* believes can be older than the row.                                     *)
(*                                                                         *)
(* A statement locks its rows one after another and keeps them while it    *)
(* waits for the next, so actors may wait for one another in a circle.     *)
(* PostgreSQL then cancels one of the statements, which fails a stage or a *)
(* request like any other error.                                           *)
(***************************************************************************)
EXTENDS Integers, Sequences, FiniteSets, Functions

CONSTANTS
    Docs,         \* document ids
    Workers,      \* worker processes (workers/ingestion_runner.py)
    Requests,     \* API handlers that may be reprocessing at one time
    Layouts,      \* what parsing may yield: the number of chunks of page 1, 2, ...
    MaxJobs,      \* bound: ingestion jobs ever created
    MaxRuns,      \* bound: times a worker is pointed at a job
    CrashAllowed, \* may a worker process die
    NoDoc         \* the document of an actor that has none

ActorsAssumption  == Workers \cap Requests = {}
DocsAssumption    == NoDoc \notin Docs
LayoutsAssumption == Layouts \subseteq Seq(Nat)
BoundsAssumption  == MaxJobs \in Nat /\ MaxRuns \in Nat /\ CrashAllowed \in BOOLEAN

ASSUME PipelineAssumptions ==
    ActorsAssumption /\ DocsAssumption /\ LayoutsAssumption /\ BoundsAssumption

VARIABLES
    \* the database
    docStatus, \* documents.status; "none" before the row exists
    deleted,   \* documents whose deleted_at is set
    jobs,      \* ingestion_jobs rows in creation order; a job is its index
    pages,     \* committed rows of pages
    chunks,    \* committed rows of chunks
    \* a worker's run or a request's handler
    pc,        \* where it stands
    target,    \* the document it works on
    job,       \* the job a worker runs, 0 if none
    run,       \* the number of a worker's run, 0 before it has started
    seenJob,   \* the job's columns as the worker's session believes them to be
    seenDoc,   \* the same for documents.status
    rows,      \* rows an open statement or an earlier SELECT works from
    held,      \* row locks that the statement under way has got so far
    delC,      \* chunks the open transaction has deleted
    delP,      \* pages the open transaction has deleted
    runs       \* history: the job of every run that has started

db     == <<docStatus, deleted, jobs, pages, chunks>>
tx     == <<rows, held, delC, delP>>
locals == <<target, job, run, seenJob, seenDoc>>
vars   == <<db, pc, locals, tx, runs>>

Actors == Workers \cup Requests

-----------------------------------------------------------------------------
(* Rows                                                                      *)

JobStatus == {"PENDING", "RUNNING", "SUCCEEDED", "FAILED"}
Stage     == {"queued", "parsing", "chunking", "embedding", "indexed"}
DocStatus == {"none", "queued", "indexed", "failed"}

JobColumns == [status : JobStatus, stage : Stage, error : BOOLEAN, attempts : Nat]
JobRow     == [doc : Docs, status : JobStatus, stage : Stage,
               error : BOOLEAN, attempts : Nat]

\* size is the number of chunks the page's text is cut into.
PageRow == [doc : Docs, num : Nat \ {0}, run : Nat \ {0}, size : Nat]

\* A chunk is identified by the run that made it, the page it was cut from and
\* its place k there.  linked is FALSE once chunks.page_id has become NULL.
ChunkId  == [run : Nat \ {0}, src : PageRow, k : Nat \ {0}]
ChunkRow == [id : ChunkId, pos : Nat, linked : BOOLEAN, embedded : BOOLEAN]

\* A row lock is known by what it locks: a page, a chunk, a job or a document.
JobLock(j) == [job |-> j]
DocLock(d) == [document |-> d]
RowLock    == PageRow \cup ChunkId \cup [job : Nat] \cup [document : Docs]

Columns(row) == [status |-> row.status, stage |-> row.stage,
                 error |-> row.error, attempts |-> row.attempts]

PagesOf(d)    == {p \in pages : p.doc = d}
ChunksOf(d)   == {c \in chunks : c.id.src.doc = d}
Ids(C)        == {c.id : c \in C}

\* Mutant of NewJob: a stage name that a job does not have.
NewJobUnnamedStage(d) == [doc |-> d, status |-> "PENDING", stage |-> "pending",
                          error |-> FALSE, attempts |-> 0]

NewJob(d) == [doc |-> d, status |-> "PENDING", stage |-> "queued",
              error |-> FALSE, attempts |-> 0]

NoColumns == [status |-> "PENDING", stage |-> "queued", error |-> FALSE, attempts |-> 0]

Init ==
    /\ docStatus = [d \in Docs |-> "none"]
    /\ deleted = {}
    /\ jobs = <<>>
    /\ pages = {}
    /\ chunks = {}
    /\ pc = [a \in Actors |-> "idle"]
    /\ target = [a \in Actors |-> NoDoc]
    /\ job = [w \in Workers |-> 0]
    /\ run = [w \in Workers |-> 0]
    /\ seenJob = [w \in Workers |-> NoColumns]
    /\ seenDoc = [a \in Actors |-> "none"]
    /\ rows = [a \in Actors |-> {}]
    /\ held = [a \in Actors |-> {}]
    /\ delC = [a \in Actors |-> {}]
    /\ delP = [a \in Actors |-> {}]
    /\ runs = <<>>

-----------------------------------------------------------------------------
(* Locks and transactions                                                    *)

\* The parse transaction: open from the flush that locks the job row to its commit.
Clearing == {"deletingChunks", "clearedChunks", "deletingPages", "cleared"}

\* Chunks whose page_id transaction a sets to NULL by deleting their page.
Unlinked(a) == Ids({c \in chunks : c.linked /\ c.id.src \in delP[a]})

Locks(a) ==
    delC[a] \cup delP[a] \cup Unlinked(a) \cup held[a]
      \cup {JobLock(job[w]) : w \in {a} \cap {v \in Workers : pc[v] \in Clearing}}

\* INSERTs that reference a page share its lock (FOR KEY SHARE).
Conflicting(a, b) ==
    IF pc[a] = "pagesRead" /\ pc[b] = "pagesRead" THEN Locks(b) \ PageRow ELSE Locks(b)

\* What a would have to wait for.
Taken(a) == UNION {Conflicting(a, b) : b \in Actors \ {a}}

\* The column value after an ORM UPDATE of a row holding `stored`.
Written(stored, believed, new) == IF new = believed THEN stored ELSE new

Merged(row, believed, new) ==
    [row EXCEPT !.status   = Written(@, believed.status, new.status),
                !.stage    = Written(@, believed.stage, new.stage),
                !.error    = Written(@, believed.error, new.error),
                !.attempts = Written(@, believed.attempts, new.attempts)]

\* UPDATE of the job row: it waits while a transaction of another run holds the row.
UpdateJob(w, new) ==
    /\ JobLock(job[w]) \notin Taken(w)
    /\ jobs' = [jobs EXCEPT ![job[w]] = Merged(@, seenJob[w], new)]

FlushJob(w, new) ==
    /\ UpdateJob(w, new)
    /\ seenJob' = [seenJob EXCEPT ![w] = new]

Goto(a, label) == pc' = [pc EXCEPT ![a] = label]

\* The rows the database has once transaction a publishes its two DELETEs.
KeptPages(a)  == pages \ delP[a]
\* Mutant of KeptChunks: the DELETE of the chunks is forgotten.
KeptChunksUndeleted(a) ==
    {[c EXCEPT !.linked = @ /\ c.id.src \notin delP[a]] : c \in chunks}

\* Mutant of KeptChunks: the chunks are deleted in batches, and only one batch is.
KeptChunksOfBatch(a) ==
    {[c EXCEPT !.linked = @ /\ c.id.src \notin delP[a]] :
        c \in {d \in chunks : d.id \notin delC[a] \/ d.pos # 0}}

KeptChunks(a) ==
    {[c EXCEPT !.linked = @ /\ c.id.src \notin delP[a]] :
        c \in {d \in chunks : d.id \notin delC[a]}}

\* Mutant of CloseTx: the session is left idle in transaction, its row locks held.
CloseTxKeepsLocks(a) ==
    /\ rows' = [rows EXCEPT ![a] = {}]
    /\ held' = [held EXCEPT ![a] = {}]
    /\ delC' = [delC EXCEPT ![a] = {}]
    /\ UNCHANGED delP

CloseTx(a) ==
    /\ rows' = [rows EXCEPT ![a] = {}]
    /\ held' = [held EXCEPT ![a] = {}]
    /\ delC' = [delC EXCEPT ![a] = {}]
    /\ delP' = [delP EXCEPT ![a] = {}]

\* The actor's work is over: its transaction is rolled back if it is still open.
Leave(a) ==
    /\ Goto(a, "idle")
    /\ target'  = [target EXCEPT ![a] = NoDoc]
    /\ job'     = [w \in Workers |-> IF w = a THEN 0 ELSE job[w]]
    /\ run'     = [w \in Workers |-> IF w = a THEN 0 ELSE run[w]]
    /\ seenJob' = [w \in Workers |-> IF w = a THEN NoColumns ELSE seenJob[w]]
    /\ seenDoc' = [seenDoc EXCEPT ![a] = "none"]
    /\ CloseTx(a)

IdsFrom(w) ==
    UNION {{[run |-> run[w], src |-> p, k |-> k] : k \in 1..p.size} : p \in rows[w]}

\* The rows that the statements before a's next step have to lock: a DELETE, which
\* also sets page_id of the pages' chunks to NULL; the flushes of a stage, an
\* INSERT that references pages or UPDATEs of chunks, with the one of the job row.
Wants(a) ==
    CASE pc[a] = "deletingChunks" -> rows[a] \cap Ids(chunks)
      [] pc[a] = "deletingPages"  ->
            (rows[a] \cap pages)
              \cup (Ids({c \in chunks : c.linked /\ c.id.src \in rows[a]}) \ delC[a])
      [] pc[a] = "pagesRead"  -> {i.src : i \in IdsFrom(a)} \cup {JobLock(job[a])}
      [] pc[a] = "chunksRead" -> (rows[a] \cap Ids(chunks)) \cup {JobLock(job[a])}
      [] pc[a] = "embedded"   -> {JobLock(job[a]), DocLock(target[a])}
      [] OTHER -> {}

\* One more row is locked, in the order in which the statement comes to it.
LockRow(a) ==
    /\ \E x \in Wants(a) \ (held[a] \cup Taken(a)) :
          held' = [held EXCEPT ![a] = @ \cup {x}]
    /\ UNCHANGED <<db, pc, locals, rows, delC, delP, runs>>

-----------------------------------------------------------------------------
(* DELETE FROM chunks; DELETE FROM pages: shared by the worker's             *)
(* _clear_version_artifacts and by create_reprocess_job.  A statement        *)
(* deletes only rows that existed when it began, as far as they are still    *)
(* there when it comes to them.                                              *)

DeleteChunks(a) ==
    /\ pc[a] = "started"
    /\ a \in Workers => JobLock(job[a]) \notin Taken(a)
    /\ rows' = [rows EXCEPT ![a] = Ids(ChunksOf(target[a]))]
    /\ Goto(a, "deletingChunks")
    /\ UNCHANGED <<db, locals, held, delC, delP, runs>>

ChunksDeleted(a) ==
    /\ pc[a] = "deletingChunks"
    /\ Wants(a) \cap Taken(a) = {}
    /\ delC' = [delC EXCEPT ![a] = rows[a] \cap Ids(chunks)]
    /\ rows' = [rows EXCEPT ![a] = {}]
    /\ held' = [held EXCEPT ![a] = {}]
    /\ Goto(a, "clearedChunks")
    /\ UNCHANGED <<db, locals, delP, runs>>

DeletePages(a) ==
    /\ pc[a] = "clearedChunks"
    /\ rows' = [rows EXCEPT ![a] = PagesOf(target[a])]
    /\ Goto(a, "deletingPages")
    /\ UNCHANGED <<db, locals, held, delC, delP, runs>>

PagesDeleted(a) ==
    /\ pc[a] = "deletingPages"
    /\ Wants(a) \cap Taken(a) = {}
    /\ delP' = [delP EXCEPT ![a] = rows[a] \cap pages]
    /\ rows' = [rows EXCEPT ![a] = {}]
    /\ held' = [held EXCEPT ![a] = {}]
    /\ Goto(a, "cleared")
    /\ UNCHANGED <<db, locals, delC, runs>>

-----------------------------------------------------------------------------
(* process_ingestion_job                                                     *)

\* An operator points a worker at a job, whatever the job's status is.
LoadJob(w, j) ==
    /\ pc[w] = "idle"
    /\ Len(runs) + Cardinality({v \in Workers : pc[v] \in {"opened", "loaded"}}) < MaxRuns
    /\ job' = [job EXCEPT ![w] = j]
    /\ seenJob' = [seenJob EXCEPT ![w] = Columns(jobs[j])]
    /\ target' = [target EXCEPT ![w] = jobs[j].doc]
    /\ Goto(w, "opened")
    /\ UNCHANGED <<db, run, seenDoc, tx, runs>>

\* A deleted document ends the run with DOCUMENT_NOT_FOUND and leaves the job as it is.
LoadDocument(w) ==
    /\ pc[w] = "opened"
    /\ IF target[w] \in deleted
       THEN Leave(w)
       ELSE /\ seenDoc' = [seenDoc EXCEPT ![w] = docStatus[target[w]]]
            /\ Goto(w, "loaded")
            /\ UNCHANGED <<target, job, run, seenJob, tx>>
    /\ UNCHANGED <<db, runs>>

\* Mutant of Start: a retry keeps the attempt count of the job.
StartKeepsAttempts(w) ==
    /\ pc[w] = "loaded"
    /\ FlushJob(w, [status |-> "RUNNING", stage |-> "parsing", error |-> FALSE,
                    attempts |-> IF seenJob[w].attempts = 0 THEN 1
                                 ELSE seenJob[w].attempts])
    /\ runs' = Append(runs, job[w])
    /\ run' = [run EXCEPT ![w] = Len(runs) + 1]
    /\ Goto(w, "started")
    /\ UNCHANGED <<docStatus, deleted, pages, chunks, target, job, seenDoc, tx>>

\* Mutant of Start: the status is set for a pending job only.
StartKeepsStatus(w) ==
    /\ pc[w] = "loaded"
    /\ FlushJob(w, [seenJob[w] EXCEPT !.attempts = @ + 1, !.stage = "parsing",
                       !.status = IF @ = "PENDING" THEN "RUNNING" ELSE @])
    /\ runs' = Append(runs, job[w])
    /\ run' = [run EXCEPT ![w] = Len(runs) + 1]
    /\ Goto(w, "started")
    /\ UNCHANGED <<docStatus, deleted, pages, chunks, target, job, seenDoc, tx>>

Start(w) ==
    /\ pc[w] = "loaded"
    /\ FlushJob(w, [status |-> "RUNNING", stage |-> "parsing", error |-> FALSE,
                    attempts |-> seenJob[w].attempts + 1])
    /\ runs' = Append(runs, job[w])
    /\ run' = [run EXCEPT ![w] = Len(runs) + 1]
    /\ Goto(w, "started")
    /\ UNCHANGED <<docStatus, deleted, pages, chunks, target, job, seenDoc, tx>>

PagesFrom(w, layout) ==
    {[doc |-> target[w], num |-> n, run |-> run[w], size |-> layout[n]] : n \in DOMAIN layout}

\* Mutant of CommitParse: no unique index on (version, page_number).
CommitParseNotUnique(w, layout) ==
    /\ pc[w] = "cleared"
    /\ pages' = KeptPages(w) \cup PagesFrom(w, layout)
    /\ chunks' = KeptChunks(w)
    /\ Goto(w, "parsed")
    /\ CloseTx(w)
    /\ UNCHANGED <<docStatus, deleted, jobs, locals, runs>>

\* INSERT of the parsed pages, then commit.  pages(version, page_number) is
\* unique: a row of the same number that another transaction is deleting makes the
\* INSERT wait, one that stays there fails the stage.
CommitParse(w, layout) ==
    LET clash == {p \in PagesOf(target[w]) \ delP[w] : p.num \in DOMAIN layout} IN
    /\ pc[w] = "cleared"
    /\ clash \cap Taken(w) = {}
    /\ \/ /\ clash = {}
          /\ pages' = KeptPages(w) \cup PagesFrom(w, layout)
          /\ chunks' = KeptChunks(w)
          /\ Goto(w, "parsed")
          /\ CloseTx(w)
          /\ UNCHANGED locals
       \/ clash # {} /\ Leave(w) /\ UNCHANGED <<pages, chunks>>
    /\ UNCHANGED <<docStatus, deleted, jobs, runs>>

ReadPages(w) ==
    /\ pc[w] = "parsed"
    /\ rows' = [rows EXCEPT ![w] = PagesOf(target[w])]
    /\ Goto(w, "pagesRead")
    /\ UNCHANGED <<db, locals, held, delC, delP, runs>>

\* Mutant of Numberings: chunk_index begins with 1.
NumberingsFromOne(ids) ==
    {f \in Bijection(ids, 1..Cardinality(ids)) :
        \A i, j \in ids : i.src = j.src /\ j.k = i.k + 1 => f[j] = f[i] + 1}

\* chunk_index counts through the pages, which the SELECT returns in any order.
Numberings(ids) ==
    {f \in Bijection(ids, 0..(Cardinality(ids) - 1)) :
        \A i, j \in ids : i.src = j.src /\ j.k = i.k + 1 => f[j] = f[i] + 1}

\* INSERT of the chunks, UPDATE of the job, then commit.  chunks.page_id references
\* pages: a page that another transaction is deleting makes the INSERT wait, one
\* that is gone fails the stage.
CommitChunks(w) ==
    LET ids == IdsFrom(w) IN
    /\ pc[w] = "pagesRead"
    /\ Wants(w) \cap Taken(w) = {}
    /\ \/ /\ {i.src : i \in ids} \subseteq pages
          /\ \E pos \in Numberings(ids) :
                chunks' = chunks \cup {[id |-> i, pos |-> pos[i], linked |-> TRUE,
                                        embedded |-> FALSE] : i \in ids}
          /\ FlushJob(w, [seenJob[w] EXCEPT !.stage = "chunking"])
          /\ Goto(w, "chunked")
          /\ CloseTx(w)
          /\ UNCHANGED <<target, job, run, seenDoc>>
       \/ /\ ~({i.src : i \in ids} \subseteq pages)
          /\ Leave(w)
          /\ UNCHANGED <<jobs, chunks>>
    /\ UNCHANGED <<docStatus, deleted, pages, runs>>

ReadChunks(w) ==
    /\ pc[w] = "chunked"
    /\ rows' = [rows EXCEPT ![w] = Ids(ChunksOf(target[w]))]
    /\ Goto(w, "chunksRead")
    /\ UNCHANGED <<db, locals, held, delC, delP, runs>>

\* embed_and_store_chunks: UPDATEs of the job and of every chunk read, then commit.  A chunk
\* that is gone by now is skipped here or fails the stage (StageFails).
CommitEmbeddings(w) ==
    /\ pc[w] = "chunksRead"
    /\ Wants(w) \cap Taken(w) = {}
    /\ chunks' = {[c EXCEPT !.embedded = @ \/ c.id \in rows[w]] : c \in chunks}
    /\ FlushJob(w, [seenJob[w] EXCEPT !.stage = "embedding"])
    /\ Goto(w, "embedded")
    /\ CloseTx(w)
    /\ UNCHANGED <<docStatus, deleted, pages, target, job, run, seenDoc, runs>>

Finalize(w) ==
    /\ pc[w] = "embedded"
    /\ Wants(w) \cap Taken(w) = {}
    /\ UpdateJob(w, [seenJob[w] EXCEPT !.status = "SUCCEEDED", !.stage = "indexed",
                                       !.error = FALSE])
    /\ docStatus' = [docStatus EXCEPT ![target[w]] = Written(@, seenDoc[w], "indexed")]
    /\ Leave(w)
    /\ UNCHANGED <<deleted, pages, chunks, runs>>

\* Any exception a stage may raise: storage, parser, embedding provider, database,
\* a statement cancelled to break a deadlock.  The rollback expires all that the
\* session has loaded, so the handler's log line, which reads job.id outside a
\* greenlet, raises in its turn before anything of the failure is recorded.
StageFails(w) ==
    /\ pc[w] \in {"started", "parsed", "pagesRead", "chunked", "chunksRead", "embedded"}
                   \cup Clearing
    /\ Leave(w)
    /\ UNCHANGED <<db, runs>>

\* The process dies: its open transaction is rolled back, nothing is recorded.
Crash(w) ==
    /\ CrashAllowed
    /\ pc[w] # "idle"
    /\ Leave(w)
    /\ UNCHANGED <<db, runs>>

-----------------------------------------------------------------------------
(* The API                                                                   *)

\* create_document_after_upload: the row, its version and its first job in one transaction.
CreateDocument(d) ==
    /\ docStatus[d] = "none"
    /\ Len(jobs) < MaxJobs
    /\ docStatus' = [docStatus EXCEPT ![d] = "queued"]
    /\ jobs' = Append(jobs, NewJob(d))
    /\ UNCHANGED <<deleted, pages, chunks, pc, locals, tx, runs>>

\* create_reprocess_job up to the transaction: the loads and the checks.
OpenReprocess(r, d) ==
    /\ pc[r] = "idle"
    /\ docStatus[d] # "none" /\ d \notin deleted
    /\ Len(jobs) + Cardinality({q \in Requests : pc[q] # "idle"}) < MaxJobs
    /\ seenDoc' = [seenDoc EXCEPT ![r] = docStatus[d]]
    /\ target' = [target EXCEPT ![r] = d]
    /\ Goto(r, "started")
    /\ UNCHANGED <<db, job, run, seenJob, tx, runs>>

CommitReprocess(r) ==
    /\ pc[r] = "cleared"
    /\ DocLock(target[r]) \notin Taken(r)
    /\ pages' = KeptPages(r)
    /\ chunks' = KeptChunks(r)
    /\ docStatus' = [docStatus EXCEPT ![target[r]] = Written(@, seenDoc[r], "queued")]
    /\ jobs' = Append(jobs, NewJob(target[r]))
    /\ Leave(r)
    /\ UNCHANGED <<deleted, runs>>

\* The request fails or is cancelled inside its transaction.
AbortReprocess(r) ==
    /\ pc[r] # "idle"
    /\ Leave(r)
    /\ UNCHANGED <<db, runs>>

SoftDelete(d) ==
    /\ docStatus[d] # "none" /\ d \notin deleted
    /\ \A a \in Actors : DocLock(d) \notin held[a]
    /\ deleted' = deleted \cup {d}
    /\ UNCHANGED <<docStatus, jobs, pages, chunks, pc, locals, tx, runs>>

-----------------------------------------------------------------------------

ClearStep(a) ==
    \/ DeleteChunks(a) \/ ChunksDeleted(a)
    \/ DeletePages(a)  \/ PagesDeleted(a)

RunStep(w) ==
    \/ LoadDocument(w) \/ Start(w)
    \/ ClearStep(w)    \/ LockRow(w)
    \/ \E layout \in Layouts : CommitParse(w, layout)
    \/ ReadPages(w)    \/ CommitChunks(w)
    \/ ReadChunks(w)   \/ CommitEmbeddings(w)
    \/ Finalize(w)

ReprocessStep(r) == ClearStep(r) \/ LockRow(r) \/ CommitReprocess(r)

\* Nobody is in the middle of anything: waiting for the next request is no deadlock.
Quiescent ==
    /\ \A a \in Actors : pc[a] = "idle"
    /\ UNCHANGED vars

Next ==
    \/ \E w \in Workers : \/ \E j \in DOMAIN jobs : LoadJob(w, j)
                          \/ RunStep(w) \/ StageFails(w) \/ Crash(w)
    \/ \E r \in Requests : \/ \E d \in Docs : OpenReprocess(r, d)
                           \/ ReprocessStep(r) \/ AbortReprocess(r)
    \/ \E d \in Docs : CreateDocument(d) \/ SoftDelete(d)
    \/ Quiescent

Spec == Init /\ [][Next]_vars

\* Who waits for whom at a lock that a statement needs; in a parse transaction that
\* is also the INSERT of a page beside one of the same number that is being deleted.
WaitsFor ==
    LET needs(a) == IF pc[a] # "cleared" THEN Wants(a)
                    ELSE IF a \in Workers THEN PagesOf(target[a]) \ delP[a]
                    ELSE {DocLock(target[a])}
    IN  {w \in Actors \X Actors :
            w[1] # w[2] /\ needs(w[1]) \cap Conflicting(w[1], w[2]) # {}}

\* The sets of nodes in which all wait, each for the next in a circle.
Closed(S, waits) == S # {} /\ \A a \in S : \E b \in S : <<a, b>> \in waits
Circles(nodes, waits) ==
    {S \in SUBSET nodes :
        Closed(S, waits) /\ \A T \in SUBSET S : Closed(T, waits) => T = S}

\* PostgreSQL cancels a statement of one of those who wait in a circle.
BreakDeadlock ==
    \E S \in Circles(Actors, WaitsFor) :
        \/ \E w \in S \cap Workers : StageFails(w)
        \/ \E r \in S \cap Requests : AbortReprocess(r)

\* A live process keeps executing, a statement waiting for a row lock gets its turn
\* (lock waiters are queued), and deadlocks are broken.  Nothing obliges an operator
\* to start a run or a client to send a request.
FairSpec ==
    /\ Spec
    /\ \A w \in Workers : SF_vars(RunStep(w))
    /\ \A r \in Requests : SF_vars(ReprocessStep(r))
    /\ WF_vars(BreakDeadlock)

-----------------------------------------------------------------------------
(* Properties                                                                *)

PC == {"idle", "opened", "loaded", "started", "parsed", "pagesRead", "chunked",
       "chunksRead", "embedded"} \cup Clearing

DbTypeOK ==
    /\ docStatus \in [Docs -> DocStatus]
    /\ deleted \subseteq Docs
    /\ jobs \in Seq(JobRow)
    /\ pages \subseteq PageRow
    /\ chunks \subseteq ChunkRow
    /\ runs \in Seq(Nat)

LocalsTypeOK ==
    /\ pc \in [Actors -> PC]
    /\ target \in [Actors -> Docs \cup {NoDoc}]
    /\ job \in [Workers -> Nat]
    /\ run \in [Workers -> Nat]
    /\ seenJob \in [Workers -> JobColumns]
    /\ seenDoc \in [Actors -> DocStatus]

TxTypeOK ==
    /\ rows \in [Actors -> SUBSET (PageRow \cup ChunkId)]
    /\ held \in [Actors -> SUBSET RowLock]
    /\ delC \in [Actors -> SUBSET ChunkId]
    /\ delP \in [Actors -> SUBSET PageRow]

\* An actor that is doing something has a document, and a run has a job and,
\* once it has started, a number; requests only clear.
BusyOK ==
    /\ \A a \in Actors : pc[a] # "idle" => target[a] \in Docs
    /\ \A w \in Workers : pc[w] # "idle" => job[w] \in DOMAIN jobs
    /\ \A w \in Workers : pc[w] \notin {"idle", "opened", "loaded"} => run[w] # 0
    /\ \A a \in Actors : pc[a] = "pagesRead" => a \in Workers /\ rows[a] \subseteq PageRow
    /\ \A a \in Actors : pc[a] \notin {"idle", "started"} \cup Clearing => a \in Workers

\* Every column and every local variable holds a value of its type.
TypeOK == DbTypeOK /\ LocalsTypeOK /\ TxTypeOK /\ BusyOK

\* The committed pages of a document come from one parse of it and are numbered
\* from 1 without gaps, however many workers and reprocess requests interleave
\* (_clear_version_artifacts and the INSERTs are one transaction, and two such
\* transactions meet in the unique index on (version, page_number)).
PagesOfOneRun ==
    \A p \in pages :
        /\ \A q \in pages : q.doc = p.doc => q.run = p.run
        /\ \A n \in 1..p.num : \E q \in pages : q.doc = p.doc /\ q.num = n

\* However many workers and reprocess requests interleave: the chunk_index values
\* of the chunks of one run are 0, 1, 2, ... without gap or repetition, and a page
\* that has a chunk of the run has all of them.  So where two runs double the
\* chunks of a document, they are still those of two whole runs.
RunsWhole ==
    \A c \in chunks :
        /\ \A e \in chunks : e.id.run = c.id.run /\ e.pos = c.pos => e = c
        /\ \A n \in 0..c.pos : \E e \in chunks : e.id.run = c.id.run /\ e.pos = n
        /\ \A k \in 1..c.id.src.size : \E e \in chunks : e.id = [c.id EXCEPT !.k = k]

\* The chunks of a run go in one step or stay together, whichever DELETE meets
\* them and whatever that statement had to wait for.
RunsVanishWhole ==
    [][\A c, e \in chunks : c.id.run = e.id.run =>
          (c.id \in Ids(chunks') <=> e.id \in Ids(chunks'))]_vars

\* With a single worker, the chunks of a document come from one run of one job
\* and their chunk_index values are 0, 1, 2, ... without gap or repetition,
\* also across crashes, re-runs and reprocess requests that overlap the run.
ChunksOfOneRun ==
    \A d \in Docs :
        LET C == ChunksOf(d) IN
        /\ \A c, e \in C : c.id.run = e.id.run
        /\ \A c, e \in C : c.pos = e.pos => c = e
        /\ \A c \in C : \A n \in 0..c.pos : \E e \in C : e.pos = n

JobsOf(d)   == {j \in DOMAIN jobs : jobs[j].doc = d}
Newest(d)   == CHOOSE j \in JobsOf(d) : \A i \in JobsOf(d) : i <= j
Untouched(d) == \A a \in Actors : target[a] # d

\* Every page has all its chunks, and every chunk its page and its embedding.
ArtifactsComplete(d) ==
    /\ {<<c.id.src, c.id.k>> : c \in ChunksOf(d)}
          = UNION {{<<p, k>> : k \in 1..p.size} : p \in PagesOf(d)}
    /\ \A c \in ChunksOf(d) : c.linked /\ c.embedded

\* The last run that has started on d, if any, has recorded how it ended.
LastRunRecorded(d) ==
    \A r \in DOMAIN runs :
        (jobs[runs[r]].doc = d /\ \A q \in (r + 1)..Len(runs) : jobs[runs[q]].doc # d)
            => jobs[runs[r]].status # "RUNNING"

\* With a single worker: a document whose newest job has SUCCEEDED and that is
\* INDEXED has complete artifacts whenever no run and no reprocess is under way,
\* unless the last run on it died or failed.  Every earlier run, crashed,
\* failed or overtaken by a reprocess request, has left nothing behind that this
\* one did not replace.
SettledIndexComplete ==
    \A d \in Docs :
        (/\ Untouched(d) /\ docStatus[d] = "indexed" /\ LastRunRecorded(d)
         /\ jobs[Newest(d)].status = "SUCCEEDED") => ArtifactsComplete(d)

\* With a single worker, `attempts` of a job is the number of runs that started on it,
\* those included that crashed or failed.
AttemptsCountRuns ==
    \A j \in DOMAIN jobs :
        jobs[j].attempts = Cardinality({r \in DOMAIN runs : runs[r] = j})

\* Whatever runs and requests wait for one another's row locks, one row at a time and
\* also in a circle, all get done: no transaction keeps a lock once its actor has
\* gone on, and what PostgreSQL cancels to break a circle gives its locks back.
WorkEnds == \A a \in Actors : pc[a] # "idle" ~> pc[a] = "idle"

(* What the code, its comments and its messages promise and overlapping runs *)
(* and requests do not keep.                                                 *)

\* "Clear artifacts for this version so we do not leak previous chunks/pages.":
\* no chunk outlives the page it was cut from.
NoLeakedChunks == \A c \in chunks : c.linked

\* assert job_resp.json()["job"]["status"] == "failed": once process_ingestion_job has
\* returned after a failure, the job says so.  Without crashes, a job that nobody
\* works on is not RUNNING.
FailuresRecorded ==
    \A j \in DOMAIN jobs :
        jobs[j].status = "RUNNING" => \E w \in Workers : job[w] = j

\* "Document is not indexed yet; wait for ingestion to finish": ask() takes the
\* status INDEXED for the end of ingestion, so no job may still be waiting for a
\* worker when nothing is running.
IndexedMeansIngested ==
    \A d \in Docs : Untouched(d) /\ docStatus[d] = "indexed"
                        => jobs[Newest(d)].status # "PENDING"

=============================================================================
