# A TLA+ model of the document intelligence service

The repository is a FastAPI service (`apps/api`) over Postgres with pgvector, and
a React client (`apps/web`). Users upload documents; a worker process cuts a
document into pages, chunks and embeddings; users ask questions that are answered
from retrieved chunks with citations. The modules of this directory model that
code; TLC checks them on small instances and TLAPS proves the facts listed below
for every instance.

## 1. The system

| component | code | state it keeps | operations |
|---|---|---|---|
| ingestion pipeline | `services/ingestion_service.py` | rows of `ingestion_jobs`, `pages`, `chunks`; `documents.status`; a run's session | `process_ingestion_job`, `create_reprocess_job` |
| worker runner | `workers/ingestion_runner.py` | a process per run | started by an operator with a job id; dies at any point |
| document service | `services/document_service.py` | rows of `documents`, `document_versions` | presign, create after upload, list, soft delete |
| database session | `core/database.py` | the identity map of a session: what it believes of each row | flush, commit, rollback |
| embeddings and vector store | `services/embedding_service.py`, `pgvector_store.py` | `chunks.embedding` | embed and store, similarity query |
| query service | `services/query_service.py`, `retrieval_service.py`, `answer_service.py`, `citation_service.py` | query sessions, messages, citations | ask, list sessions, session detail |
| accounts, workspaces | `auth_service.py`, `workspace_service.py`, `core/security.py` | users, memberships; tokens are stateless | register, login, refresh, create workspace |
| object storage | `core/storage.py` | objects by key | signed URLs, PUT by the browser, GET by the worker |
| web client | `lib/apiClient.ts`, `context/AuthContext.tsx` | tokens in local storage, the refresh in flight, the user shown | requests with refresh and retry, login, logout |
| upload page | `features/documents/DocumentUploadPage.tsx` | the step of its mutation | URL, PUT, finalize |
| chat page | `features/query/QueryChatPage.tsx`, `hooks/useAskMutation.ts` | transcript, session id, the pending ask, fetches | ask, open a session, follow a changed URL |

How they interact. The API process and the worker processes share nothing but the
database: there is no queue, and a job row is handed to a worker by an operator
who passes its id. A document's status, its job rows and its pages and chunks
are therefore written by several processes in transactions that READ COMMITTED
lets interleave. `ask()` trusts `documents.status` and reads chunks; citations
reference chunks. The web client talks to the API over HTTP and shares one
pending token refresh between its requests; it puts files into the object store
itself, which the API never looks at before a worker reads the file.

What is hard. A run is seven transactions, with reads whose results are used in a
later statement; reprocess requests clear the same rows; a worker may die
between two transactions; the ORM writes only the columns it believes to have
changed; statements lock their rows one by one, keep them while they wait for the next,
and cascade from pages to chunks, so that actors may wait for one another in a circle.
Accounts, slugs and uploads are looked up, or signed for, in one request and
inserted in another; answers are lost, late, or meet a page that has moved on. The
list `hazards` of `PROJECT.json` names each such place and the properties that
watch it.

What makes each component correct:

- pipeline: whatever interleaves, the pages of a document come from one parse;
  with one worker the chunks come from one run and are numbered without gaps; an
  INDEXED document at rest is completely indexed; a failed run should be recorded, and is
  not; all who wait for locks get done;
- jobs: a job moves PENDING, RUNNING through its stages in order, SUCCEEDED, and nothing
  but its own run moves it; attempts counts its runs;
- chunking: every character of a page that is not white space ends up in a chunk,
  neighbours share no more than the overlap, and the loop returns;
- embedding and retrieval: each chunk gets its own vector; an answer is given from the
  nearest chunks that fit the budget, and refused only when all are weak;
- query: an answer cites chunks of the session's workspace and document, of one
  run, and of no document that was deleted when the question was asked; an ask ends
  although it waits for rows that others delete;
- web client: the stored tokens are those of the user on the screen; they are not
  thrown away while they can still be refreshed; every call comes back;
- accounts and workspaces: who holds an account's tokens can sign in to it and to no
  other account of the address; a workspace has one owner and a slug of its own;
- uploads: the object of a document is there, is the file its page was given and was
  put by its creator for its workspace;
- chat page: what it shows is of the session it goes on to ask in, each question has its
  answer or its error, and a session it has begun itself never refuses it.

## 2. Modules

| module | what it is |
|---|---|
| `IngestionPipeline` | the database, the workers' runs and the API requests that touch documents |
| `JobLifecycle` | abstract: what a single worker promises of the job rows |
| `IngestionLifecycle` | `IngestionPipeline` with the refinement mapping to `JobLifecycle` |
| `ChunkText` | the loop of `_chunk_text` |
| `Retrieval` | EXTENDS `ChunkText`: the chunks' embeddings, and the evidence of an answer |
| `QueryAsk` | EXTENDS `IngestionPipeline`: `ask()` against the same database |
| `WebSession` | one tab of the web client and the API's tokens |
| `QueryChat` | the chat page, its requests and the sessions of the server |
| `Accounts` | registration, login, workspaces and memberships |
| `Uploads` | EXTENDS `Accounts`: the upload page, the object store, creation of documents |
| `MCIngestion`, `MCChunkText`, `MCQuery`, `MCWeb`, `MCChat`, `MCUploads` | the instances for TLC |
| `IngestionPipelineProofs`, `ChunkTextProofs`, `RetrievalProofs`, `QueryAskProofs`, `WebSessionProofs`, `QueryChatProofs`, `UploadsProofs` | theorems, checked by TLAPS |
| `SerialProofs` | theorems about the pipeline with a single worker, and its refinement of `JobLifecycle` |

Operators whose comment begins "Mutant of" are variants of the operator that
follows them, with a bug the code might have had: put in its place, each makes one
property of one run fail (`mutants` in `PROJECT.json`). Nothing else uses them.

### IngestionPipeline

State and code. `docStatus`, `deleted`, `jobs`, `pages` and `chunks` are the
committed rows. Only version 1 of a document is ever created, so a document
stands for its version. A chunk carries the run that made it and the page it was
cut from (`id`), its `chunk_index` (`pos`), whether `page_id` still points to the
page (`linked`) and whether it is embedded. `pc` says where an actor stands;
`seenJob` and `seenDoc` are the values its session last loaded or flushed;
`rows`, `held`, `delC`, `delP` belong to its open transaction: the rows a statement works
from, those of them it has locked so far, and the chunks and pages that are deleted when
it commits. `runs` is a history variable that only names runs.

| action | code |
|---|---|
| `LoadJob`, `LoadDocument` | the `session.get` calls and checks, a deleted document ends the run |
| `Start` | attempts, RUNNING, flush and commit |
| `DeleteChunks`, `ChunksDeleted`, `DeletePages`, `PagesDeleted` | begin and end of the two DELETEs of `_clear_version_artifacts` and of `create_reprocess_job` |
| `LockRow` | the statement under way gets the lock of one more of its rows |
| `CommitParse` | read and parse the object, insert pages, commit; the unique index may refuse |
| `ReadPages`, `CommitChunks` | the SELECT and, after it, the INSERTs and commit; a foreign key may refuse |
| `ReadChunks`, `CommitEmbeddings` | the SELECT and, after it, the UPDATEs and commit |
| `Finalize` | SUCCEEDED, INDEXED |
| `StageFails` | any exception of a stage, the rollback, and the handler, which raises before it records anything |
| `BreakDeadlock` | PostgreSQL cancels a statement of a circle: a `StageFails` or an `AbortReprocess`, named for the fairness it is given |
| `Crash` | the process dies anywhere |
| `CreateDocument`, `OpenReprocess`, `CommitReprocess`, `AbortReprocess`, `SoftDelete` | the API |

Locks. `Locks(a)` are the row locks an actor has: the chunks and pages its transaction
has deleted, the chunks whose `page_id` those pages set to NULL, the job row from the flush
at the start of the parse transaction to its end, and `held`. A statement of several rows
takes them one at a time (`LockRow`), in any order, and keeps them while it waits for the
next: the two DELETEs, the INSERT of chunks that locks their pages, the UPDATEs of the
embedding stage with the one of the job row, the last flush of job and document. `Wants(a)`
are the rows a statement needs, `Taken(a)` those that others have; the action that ends a
stage waits until nobody has any of them. Two runs, or a run and a reprocess
request, can therefore wait for one another, and three in a circle: the parse of one
has the job row and wants a chunk that the other's embedding stage has updated, while that
one wants the job row. `WaitsFor` and `Circles` say who does. `Written` and `Merged` are
the ORM's UPDATE: a column whose new value equals the believed one is not written.

Failures. A stage that raises leaves its `session.begin()` block, which rolls back and so
expires all that the session has loaded. The handler's first act is a log line with
`str(job.id)`, a load outside the greenlet, which raises: neither FAILED nor an error is
ever written, and the job stays RUNNING in the stage it had reached. So `StageFails`
changes no row; `failure_lost` shows what a test expects instead. The values `FAILED`,
`failed` and `error` are kept in the types, as columns have them, and never reached.

What is abstracted. Parsing is a choice of a layout: how many chunks each page
will give. Progress, metrics, timestamps, audit rows and messages are left out.
Structured blocks live and die with their page and are left out. Storage, parser
and provider errors are all `StageFails`.

External behaviour the model relies on: READ COMMITTED statements, row locks taken one by
one and held to the end of a transaction, deadlocks broken by cancelling one statement, ON
DELETE SET NULL touching the chunks of a deleted page, the unique index on (version, page
number), and a session that expires everything on rollback and nothing on commit.
`session.begin()` is modelled as the transaction block the code intends. Two things in the
code meet libraries in a way the models do not go into: `session.begin()` after a SELECT
of the same request meets a transaction that autobegin has opened
(`create_reprocess_job`, `create_document_after_upload`, `soft_delete_document`, `ask`,
`register_user`, `create_workspace`: the caller's user or the row itself was loaded with the
same session); and `get_object_bytes` of `core/storage.py` is a plain function whose
result is awaited, an exception that is one more `StageFails`. The models say what the
code does where these are put right, which is also what its tests are written for.

### JobLifecycle and IngestionLifecycle

`JobLifecycle` has a phase for each job and at most one live job. Its actions are
enqueue, start, advance to the next stage, and abandon (the run fails or the worker dies;
the phase stays). `IngestionLifecycle` reads the phase from the row and the live job
from the worker that has started. The interest is in the flushes: the session
compares new values with cached ones, so that a job re-run after a crash or a failure could
keep a stale column. It does not, with one worker; the run `serial` shows it.

### ChunkText

The state is that of the loop: `start` and `chunks`; `end` is `End`. A text is
its length and the positions that are not white space, all that `str.strip()`
and the loop look at. One action, `Cut`, is one iteration: cut and strip a piece,
drop it, join it to the chunk before it or append it (`Extended`), and move on
(`NextStart`). The comparison `start <= len(chunks[-1])` of the code, a position
against a length, is kept as it is.

### Retrieval

What happens to the chunks once `_chunk_text` has returned. `EmbedBatch` is one request
of `embed_texts_batch`: the provider lists the vectors in any order, `InOrder` sorts
them by index, and vector k is stored with chunk k. A vector is the text it was made
of, so that a swapped one can be told. `Answer` is one question: the nearest `TopK`
(equals in any order), the minimum score, the cut to `TopKFinal`, the budget of
characters (`Trim`), the weak-evidence rule and the citations. How near each text is to
the question is a choice of `Scores`. The two rerankers change nothing in this code
and are left out, and so is what the model says. Here `ask()` is one step; `QueryAsk`,
which has its steps, leaves the choice of chunks open, so whatever `Context` picks is
one of its behaviours.

### QueryAsk

`ask()` is one transaction of several SELECTs at READ COMMITTED, so it is several
steps between which the pipeline moves.

| action | code |
|---|---|
| `Begin` | membership, the document's status, the session's user, workspace and scope; session and question are in the open transaction |
| `Search` | the similarity query: embedded chunks of undeleted documents of the workspace; the `TopK` nearest are a choice |
| `Select` | the rows of the ids that are still there; filter, reranker, budget and threshold leave any subset |
| `Cite` | one more citation is inserted; its chunk is locked until the ask ends |
| `Commit` | message, the citations that are left and the commit; a cited chunk that another transaction is deleting makes the INSERT wait, one that is gone fails the ask |
| `AskFails` | a provider's exception or a client that goes away; all is rolled back |

The foreign key check waits for chunks being deleted (`delC`, and those an unfinished
DELETE has come to), and a DELETE waits for chunks that are cited already (`Beside`), so an
ask and a clear may wait for one another; `BreakAskDeadlock` is PostgreSQL's way out. The
check does not wait for chunks
whose `page_id` is set to NULL by a deleted page: PostgreSQL's check takes
FOR KEY SHARE, which an UPDATE of another column does not conflict with. The
words of an answer, scores and the model are not modelled. `Ask.at` is the
transaction's `now()`; `Ask.gone` is a history variable.

### WebSession

Pairs of tokens are numbered as issued and the API keeps none of them, so
`issued[p]` is the subject inside the token and `expired` says how far access
tokens have run out. `call` holds every `apiRequest` in flight: whether it has
been sent once, waits for `tryRefresh`, or has been sent again, with which token and
what the API answered. The answer is given (`Serve`) and handled (`Succeed`,
`AwaitRefresh`, `GiveUp`) in different steps, so answers arrive late and in any
order. `refreshing` is `refreshPromise` with the token it sends.

| action | code |
|---|---|
| `Send` | `apiRequest` of a page behind `RequireAuth` |
| `AwaitRefresh`, `NothingToRefresh` | a first 401: join the refresh, start one, or have no token |
| `RefreshSucceeds`, `RefreshFails` | the promise settles; all that wait resume in its microtasks, so nothing comes between |
| `GiveUp`, `Fail` | a second 401; any other error or none at all |
| `Login`, `Register`, `Logout`, `Load` | `AuthProvider`; `Load` forgets all but local storage and fetches the user as the call `Me` |

`crossed` is a history variable: somebody has signed in or out while a refresh or
the fetch of the user was pending. Then the answer stores the tokens
of whoever it was for, over a logout or another login, and the code has nothing
against that; no document promises otherwise. The properties speak of the rest.

### QueryChat

The state is the page's (`url`, `sessionId`, `messages`, `loadErr`, the mutation
`ask`), the fetches its effects have begun, each with its `cancelled` flag, the
requests on their way and the sessions of the server. At the server an ask is one
step.

| action | code |
|---|---|
| `Open` | the page is mounted: `useState`, then the effect; what an earlier page has sent goes on |
| `ChangeUrl` | the search parameters change under the mounted page: cleanup and effect, if the session is another one |
| `Read`, `Loaded` | `fetchSession` at the server, and its `then` or `catch` |
| `Submit` | the form's `onSubmit`: the question is shown, the request has the document of the URL and the session of the page |
| `Serve`, `Break` | `ask()`, answered or lost; the connection breaks though the request may still arrive |
| `Deliver` | `onSuccess`, `onError` of this `mutate` |
| `AskElsewhere` | the same user in another tab |

A transcript is fetched with each question and its answer in either order (`ask_order`).
`moved` and `late` are history variables: the URL has changed since the page was opened;
a transcript has replaced the messages while a question was pending (`"awaited"`), and the
answer to it has been appended to that transcript (`"come"`), until the next transcript
replaces both. That is how answers of two sessions come to stand on one page: a question
is asked before the transcript of `?session=` has arrived, or the URL changes under a
pending one. `AnswersOfSession` holds through all of it but that last stretch, where it is
false, as TLC shows at once if the condition on `late` is left out. What is left there, and
always holds, is `ThreadsApart`: at most two sessions meet on a page, one above the place
where the answer was put and the page's own below it. `EachQuestionAnswered` has no
exception.

### Accounts and Uploads

`register_user` and `create_workspace` look first and insert later, so each is two
actions with the state of the request between them in `pending`: `LookUpEmail` and
`InsertUser`, `PickSlug` and `InsertWorkspace`. The unique indexes are `EmailTaken` and
`SlugTaken` at the INSERT. Accounts and workspaces are numbered in order of commit. A
browser is who uses its tokens, with one password of their own. Addresses are typed in
spellings, `Normalized` is `strip().lower()`. The code never disables a user and adds no
second member; the membership check reads whatever is in the table, so `AddMember`
is a step of an operator.

| action of `Uploads` | code |
|---|---|
| `StartUpload` | `upload.mutate`: `requestUploadUrl` is sent |
| `Presign` | `request_presigned_upload`, its answer, and the PUT the page sends with it |
| `Put`, `Expire` | the object store, while the URL is valid |
| `Post` | the PUT is answered: `finalizeDocument` is sent |
| `SendAgain` | a 401, the refresh, and the second attempt with the tokens of now |
| `Finalize` | `create_document_after_upload`: membership, scope of the key, the rows |
| `Fail` | a request is refused, or it or its answer is lost: the page gives up, what it has sent may arrive |

`Finalize` is what `CreateDocument` of `IngestionPipeline` abstracts, and a file that is
not where its document says is one of the causes of that module's `StageFails`.

## 3. Runs

| run | instance | shows |
|---|---|---|
| `serial` | 1 worker that may crash, 2 requests, files of three shapes, 3 jobs, 3 runs | `TypeOK`, `ChunksOfOneRun`, `AttemptsCountRuns`, `SettledIndexComplete`, `ImplementsJobLifecycle` |
| `concurrent` | 2 live workers, 1 request, 2 jobs, 2 runs | `PagesOfOneRun`, `RunsWhole`, `RunsVanishWhole` |
| `chunk_cover` | every text of up to 10 characters in pieces of 3, overlap 1, minimum 2, then batches of 3 and one question with every similarity in 0..2; 4 hits, 3 of them, 7 characters; fair | `NothingLost`, `SharedBounded`, `AlwaysAdvances`, `Terminates`, `CitesOwnScore`, `ContextFits`, `NothingNearerLeftOut`, `AbstainsOnlyWhenWeak` |
| `ask_scope` | 2 users, 2 workspaces of which one has 2 documents, 1 worker that runs twice, 2 asks, one after the other, of 2 chunks each | `AskTypeOK`, `CitesWithinSession`, `DeletedNotCited`, `CitesOneRun` |
| `ask_locks` | 1 ask, 1 worker that runs once, 1 request, fair | `AsksEnd`, `WorkEnds` |
| `web_session` | 2 users, 2 calls, 3 pairs of tokens, 1 reload, fair | `TypeOK` of `WebSession`, `SessionConsistent`, `TokensKept`, `CallsEnd` |
| `uploads` | 2 browsers, 3 spellings of 2 addresses, 2 accounts, 2 slugs, 2 workspaces, 2 uploads | `AccountsTypeOK`, `SignInOwn`, `WorkspaceOwned`, `DocumentHoldsItsFile`, `DocumentInItsScope` |
| `chat` | 2 documents, 3 questions, 2 sessions, 3 pages or changes of the URL, a second tab | `AnswersOfSession`, `ThreadsApart`, `EachQuestionAnswered`, `UrlSessionShown`, `OwnSessionContinues` |
| `leaked_chunks` | 1 worker, 1 request | violated: `NoLeakedChunks` |
| `indexed_early` | 1 worker, 1 request | violated: `IndexedMeansIngested` |
| `failure_lost` | 1 worker that stays alive, 1 run | violated: `FailuresRecorded` |
| `ask_order` | two questions in one session | violated: `AnswersFollowQuestions` |

Bounds and why they are enough. `MaxJobs` and `MaxRuns` bound the jobs and the runs.
Three runs are a crash, a retry and a run after it; two requests besides a worker let a
lock be held by one, waited for by the second and taken by the third, clear the
rows twice around a run. In `ask_locks` an ask, a clear and a run lock the same two chunks one
by one, so that two of them, or all three, wait in a circle. Two calls are one that starts a refresh and one that joins it, or
whose old 401 comes after it; with `Me` there are three. Three pairs are a login, a
refresh and another user's login. A text of 10 characters in pieces of 3 takes
several iterations with an overlap, has room for a blank piece, for a short piece
in the middle and for a short tail, and gives more chunks than one batch, than the
limits and than the budget let through; with three similarities, a minimum of 1 and a
threshold of 2 a hit is dropped, kept but weak, or strong. Two accounts and workspaces
are two that want one address or slug, or a browser that changes between them while an
upload is under way; two uploads are two that could meet at one key. Two sessions, with
a URL that changes twice after the page is opened, are a fetch overtaken by another and
a question about one document in a session about the other; three questions are one in
a session, one lost and one after it.

Layouts: `serial` takes a file without pages, a page without text (a scan), and two
pages of one chunk each; the others take one page, of one chunk, or of two in
`concurrent` and `ask_locks`. In `ask_scope` the second workspace stays empty: what its
sessions must not cite lies in the first.

The properties that speak of one worker (`ChunksOfOneRun`, `SettledIndexComplete`,
`AttemptsCountRuns`, `ImplementsJobLifecycle`, `CitesOneRun`) are false with two:
both clear the version, then both insert their chunks, and the code has nothing that claims
a job. What is left of
`ChunksOfOneRun` with several workers is that a document's chunks are those of whole runs,
and are deleted as such: `RunsWhole` and `RunsVanishWhole`.
`SettledIndexComplete` holds through crashes but says nothing of a document on which the
last run has died or failed (`LastRunRecorded`): a re-run of an indexed document that does
leaves it INDEXED over what it has cleared, until somebody runs its job again.
`Terminates` and `AlwaysAdvances` need an overlap shorter than a piece: with a longer one
the loop cuts the same piece for ever once the first chunk is behind it, and the
settings do not forbid it.

Symmetry is used over workers, requests and documents in runs without liveness
properties; in `uploads` over browsers, slugs and uploads, in `chat` over
documents. Deadlock is checked everywhere but in `chat`, where questions and moves run
out and a page then has nothing to do. `Quiescent`, `Done` and `Answered` are
steps that change nothing and exist only when nobody is in the middle of anything. TLC's
deadlock check says nothing of those who wait for locks in a circle: they can always be
cancelled. That is what `WorkEnds` and `AsksEnd` are for.

Fairness. `FairSpec` of the pipeline and `FairQuerySpec` assume strong fairness of the
steps of each run, each request and each ask that has begun: a live process goes on,
and Postgres queues lock waiters, so one that is enabled again and again gets its
turn. Weak fairness of `BreakDeadlock` and of `BreakAskDeadlock` is PostgreSQL's deadlock
detector: who waits in a circle does not do so for ever. It is needed: without it both
liveness properties of `ask_locks` fail. It excuses nothing else: a lock that its holder
never gives back makes no circle. `FairSpec` of `WebSession` assumes weak fairness of the
handling of each call and of the refresh: the API answers and the browser runs its
handlers; that a fetch ends one way or the other is the browser's promise. No fairness is
assumed of failures, crashes, expiry, operators or users. The fair runs exclude crashes,
which would only end what has to end.

### Disagreements found

The violated properties are claims of a comment, a message and two tests, quoted in
`PROJECT.json` under `findings`:

- a reprocess request that meets the chunking stage leaves chunks without a page
  ("do not leak previous chunks/pages");
- a run ends by marking INDEXED a document that was queued again meanwhile ("wait for
  ingestion to finish");
- a run that fails leaves its job RUNNING, because the failure handler fails itself (a test
  expects the job and the document to be FAILED);
- question and answer have the same `created_at`, so a session may list the answer
  first (a test expects user, assistant, user, assistant).

Seen while modelling, without a run: two runs of one job at the same time leave both sets of
chunks, though a run means to "replace prior artifacts"; an answer that comes after a
transcript has replaced its question is put under it, and two sessions are on one page. And
where nothing is promised: pages are read back
without ORDER BY, so `chunk_index` need not follow the pages; the overlap at the first
boundary is always given up, because a position is compared with a length, so a tail
shorter than the minimum can become a chunk of its own where the comment prefers to
append it; the similarity search does not look at `documents.status`; a failed refresh or a
failed `/auth/me` clears the tokens while the page may go on showing the user, until a
reload; logout under a pending refresh stores tokens again. The chat page invites to
resume a session with `?session=` alone, but a session about one document is then asked
in without the document and refused (`QUERY_SESSION_SCOPE_MISMATCH`), and a session
whose first answer was lost stays behind unused. An upload whose last answer is lost has
created its document although the page shows an error, so a second attempt makes another; one
that fails after the PUT leaves an object that no document names and nothing deletes. The
loser of two registrations of one address meets the unique index, and not the error that
the lookup would have given.

## 4. Proofs

No theorem assumes more than the named assumptions on the constants, but for seven
that state a hypothesis. Five are about a single worker (`OneWorker`: no two
processes run `ingestion_runner.py`); two workers break each of those properties, and
nothing in the code keeps an operator from starting two. Two are about settings
whose overlap is shorter than a piece (`Overlap < MaxChars`), or no longer
(`Overlap <= MaxChars`); the defaults are so, and nothing demands it.

`IngestionPipelineProofs`, from `PipelineAssumptions` (actors are distinct, the marker
for no document is none, a layout is a sequence of numbers):

- `TypeCorrect`: `Spec => []TypeOK`. One step per action; the conjunct `BusyOK`
  is what makes `target`, `job` and `run` usable in the rows that actions build.
- `PagesCorrect`: `Spec => []PagesOfOneRun`, for any number of workers, requests
  and crashes. `PagesOfOneRun` alone is not inductive; `PagesInv` adds three facts.
  `RunsInv`: runs are numbered apart, and a run that has not parsed owns no page.
  `WaitInv`: a DELETE under way works from all the pages an earlier run left, or from
  pages that are all gone. `LockInv`: a transaction that has deleted pages has deleted
  all of its document, and no two have deleted the same page. Then the unique index
  does the rest: an INSERT that commits met no page 1 of the document, so by the
  absence of gaps no page at all. What a statement has locked so far matters to none of this
  (`LockRowInv`): the row locks that do are those of deleted rows.
- `ChunksOfWholeRuns`: `Spec => []RunsWhole`, and `ChunksVanishTogether`:
  `Spec => RunsVanishWhole`, again for any number of workers, requests and crashes.
  `WholeInv` says why no DELETE ever meets half a run. `HoldsWhole`: what a
  transaction has deleted, and what a DELETE under way works from, are the chunks of whole
  runs, and of runs that have committed theirs (`OfPastRuns`), so nothing is added to
  them afterwards. `ReadsOneDoc`: between reading and inserting, a run's pages are of one
  document. `ChunkRowsInv`: an identity names one chunk, and a run's chunks are of one
  document. A run inserts its chunks in one transaction and under its own number
  (`InsertWhole`), and by `NumbersWithoutGap` they are numbered without gap whatever
  order the pages came in; what deletes or embeds changes no identity and no number
  (`KeptRows`, `EmbeddedRows`).

`SerialProofs`, from the same and `OneWorker`, for any number of documents, requests,
jobs, runs and crashes. The hard part is what a crash in the middle of a run, and
requests that clear the rows around it, leave to the next run.

- `AttemptsCorrect`: `Spec => []AttemptsCountRuns`, and `JobLifecycleImplemented`:
  `Spec => ImplementsJobLifecycle`, step by step: each action of the pipeline is a step
  of `JobLifecycle` or changes no phase. Both rest on `SerialInv`. `SeenInv`: as long as it
  lasts, the session of the run believes what the job row holds, so the ORM's
  comparison never skips a column that a crashed attempt has left behind.
  `RunInv`: the run that is under way is the last one, its job is RUNNING, in its
  stage. `JobsInv`: who has which job, and the count itself.
- `ChunksCorrect`: `Spec => []ChunksOfOneRun`, from `ChunksInv`. What is needed of a
  run is `ClearedOf`: between its DELETE and its commit all the chunks of its document
  are in its transaction, and after it there are none. `WaitsOf`: a DELETE under
  way works from all of the document's chunks, or from chunks that are all gone. `DeletedOf` and `DeletedApart`: a transaction that has deleted
  chunks has deleted all of a document, and no two the same.
- `IndexCorrect`: `Spec => []SettledIndexComplete`, from `CompleteInv`. `ProgressOf`
  says what each stage of a run has made of the pages it has read, as long as no
  reprocess request has committed since (`Current`: the document's newest job is no longer
  PENDING); `IndexedOf` is the property without the condition that
  the document is at rest; `NewestOf` says that there is a newest job to speak of.

`ChunkTextProofs`, from `SettingsAssumption`:

- `ChunkingLosesNothing`: `Spec => []NothingLost`, for every text and all settings.
  The inductive invariant is `Positions` (where `start` is), `Kept` (chunks
  consist of characters of the text) and `PassedCovered` (what lies before `start` is
  in a chunk), which holds because the next piece begins no later than this one ends.
- `ShortOverlapAdvances`: `Spec => AlwaysAdvances` if `Overlap < MaxChars`.
- `NeighboursShareOverlap`: `Spec => []SharedBounded` if `Overlap <= MaxChars`. The
  invariant `Reach` says that no chunk reaches further than the overlap behind the next
  start, and that for each pair of neighbours there is a position behind which
  the first reaches no further than the overlap and before which the second has
  nothing. With a longer overlap the loop may go back behind the start of the last
  chunk, and join to it what is in the chunk before.

`RetrievalProofs`, from `SettingsAssumption` and `RetrievalAssumption` (limits are numbers,
batch and limits at least 1):

- `RetrievalChunks`: `RetrievalSpec => Spec` of `ChunkText`, step by step, so what
  `ChunkTextProofs` says holds here too (`RetrievalLosesNothing`).
- `CitedScoresAreTrue`, `EvidenceFits`, `NearestAreCited` and `AbstentionIsRight`:
  `RetrievalSpec` keeps `CitesOwnScore`, `ContextFits`, `NothingNearerLeftOut` and
  `AbstainsOnlyWhenWeak`. The invariant `RetrievalInv` adds two facts. `Embedded`: the
  vectors so far are those of the first chunks in their order, because `InOrder` turns
  any listing of a batch into its numbers from first to last (`InOrderIs`).
  `AnswerLast`: nothing is cited before the answer, and the answer comes after the whole
  text. The argument for an answer is that the evidence is the head of one ranking of
  all chunks (`NearestRanks`): of hits that descend the filter keeps a head
  (`FilteredPrefix`), the final limit and the budget cut a head of that (`TrimPrefix`), and
  none of them takes the first hit away (`ContextPrefix`). So what is left out is never
  nearer than what is cited, and the best chunk of all decides whether to answer.
- The filter and the running length are recursive functions. That they exist
  (`Recursion`), and what they give for the first n hits (`FilteredDef`, `UsedDef`), is
  induction up to a number; the library's rule for it takes a predicate, so
  `UpTo` states it for a set of numbers, and proves it from the pigeonhole
  principle for finite sets.

`QueryAskProofs`, from those of the pipeline and `AskAssumption` (a document has a
workspace; there is a user and a workspace; who is a member is a user of one):

- `AskTypeCorrect`: `QuerySpec => []AskTypeOK`.
- `CitationsWithinSession`: `QuerySpec => []CitesWithinSession`, and `DeletedUncited`:
  `QuerySpec => []DeletedNotCited`, for any number of asks, workers and requests. Both
  rest on `AskInv`: the types of pipeline and asks, `SessionsInv` (an ask in a
  session was accepted by it, and sessions do not change), `HitsInv` (what an
  ask has found lies in its workspace, in its document and outside what was deleted when
  it began), `GoneInv` (what was deleted then is deleted still) and `TurnsInv` (the
  same for what is committed). The pipeline's steps disturb none of it: the chunk an id
  names is of one document for ever, and nothing undeletes.
- `CitesOfOneRun`: `QuerySpec => []CitesOneRun` with a single worker, from `ChunksCorrect`:
  every state of `QuerySpec` is one of `Spec`, so what one similarity query finds of a
  document is of one run, and what is selected and committed is among that
  (`OneRunInv`), however many runs have replaced it since.

`UploadsProofs`, from `AccountsAssumption`:

- `AccountsTypeCorrect`, `SignedInAsThemselves`, `WorkspacesOwned`: `UploadsSpec` keeps
  `AccountsTypeOK`, `SignInOwn` and `WorkspaceOwned`. The invariant `AccountsInv` says
  that no two accounts have one address, that tokens are of an account of
  their holder's password, and that the owners of a workspace are a set of one.
- `DocumentsHoldFiles`: `UploadsSpec => []DocumentHoldsItsFile`. What is inductive
  is `StoreInv`: a pending PUT is at a key of its own upload (`KeysInv`), every
  object lies at a key of the upload that put it (`ObjectsInv`), and an upload
  whose PUT was answered has its object (`PutsInv`). So no PUT, however late, replaces
  another's object.
- `DocumentsInScope`: `UploadsSpec => []DocumentInItsScope`; members stay members.

`QueryChatProofs`, from no assumption:

- `NeverRefusedInOwnSession`: `Spec => []OwnSessionContinues`. As long as the URL is the
  one the page was opened with, and names no session, nothing is fetched, and
  the page, its pending request and the answer to it know no session but one about the
  document of the URL (`OwnInv`). Requests of pages that are gone are told apart by
  their numbers (`ServerInv`).
- `AnswersAreOfTheSession`, `QuestionsAreAnswered`, `UrlSessionIsShown`:
  `Spec => []AnswersOfSession`, `Spec => []EachQuestionAnswered` and
  `Spec => []UrlSessionShown`, all from `TranscriptInv`. `ServedInv`: a question
  is answered once, in one session, and not while it is still on its way. `KnownInv`: the
  page, its requests and its fetches know only sessions that exist, and what a fetch has
  read is in its session. `FetchesInv`: a
  live fetch is for the URL of now, and the last one has left its session to the page.
  `PendingInv`: the pending question is the last message, asked in the session of the page,
  where its answer will be, unless a transcript has replaced it. `MessagesInv`: a question
  that is not pending has something beside it. `AnswersInv`: the answers are of the session,
  once and beside their questions, until `late` is `"come"`; then `AnswersAreOfTheSession`
  claims nothing before the next transcript.
  `TranscriptPairs` is the lemma about what a fetched transcript looks like.
- `ThreadsKeptApart`: `Spec => []ThreadsApart`, the rest of that story. Outside the stretch it
  follows from `TranscriptInv` (`AloneApart`); a late answer puts the place where the
  sessions part at the end of the transcript (`DeliverApart`), and nothing but another
  transcript moves it (`ApartKept`, `ServerGrows`).

`WebSessionProofs`, from `SessionAssumptions`:

- `SessionTyped`: `Spec => []TypeOK`.
- `SessionOwn`: `Spec => []SessionConsistent`, and `SessionTokensKept`:
  `Spec => TokensKept`, for any number of users, calls, tokens and reloads. Both rest
  on `Own`, which adds two facts: `LoadingAlone`, while the user is being fetched
  no other call is in flight, so nobody else's failure can clear the tokens under
  it; and `PendingOwn`, until somebody signs in or out under it, a pending refresh is of
  the stored pair and a pending fetch is of the stored pair's owner.

Each inductive invariant was model-checked on the instance of its run before it was
proved.

Only model-checked: the liveness properties `Terminates`, `AsksEnd`, `WorkEnds` and
`CallsEnd`, because fairness and ENABLED are out of the prover's
reach.

## 5. Plan

Done: the pipeline and its lifecycle; chunking, embedding and retrieval; asking; the web
client's session, upload page and chat page; accounts and workspaces; the theorems above,
which state every safety property that the passing runs check.

Next: several tabs that share one local storage in `WebSession`.

## 6. Not modelled

Evaluation tools, CI, schemas and route wiring, health probes, logging and
configuration have no state that decides anything; of the migrations only the indexes
and foreign keys are modelled, where transactions meet them. Audit rows are written in
the transactions of what they record and are read by nothing. Listings of documents,
jobs and workspaces are SELECTs. The embedding and language-model providers and the
object store are external: what they answer and how they fail are inputs. Several tabs
that share one local storage are not in `WebSession`. What a browser uploads is
one file, so its type and size, which the API checks on what the page says of them, are
left out. `PROJECT.json` lists every component with its status.
