----------------------- MODULE IngestionPipelineProofs -----------------------
(* Theorems about IngestionPipeline, for every value of its constants.       *)
EXTENDS IngestionPipeline, FiniteSetTheorems, SequenceTheorems, TLAPS

-----------------------------------------------------------------------------
(* Lemmas about the operators of the model                                   *)

\* The columns of a job row, as a session loads them.
LEMMA ColumnsOfRow ==
    ASSUME NEW row \in JobRow
    PROVE  Columns(row) \in JobColumns /\ row.doc \in Docs
  BY DEF JobRow, Columns, JobColumns

\* An ORM UPDATE leaves a job row a job row.
LEMMA MergedRow ==
    ASSUME NEW row \in JobRow, NEW old \in JobColumns, NEW new \in JobColumns
    PROVE  Merged(row, old, new) \in JobRow
  BY DEF JobRow, JobColumns, Merged, Written

\* An UPDATE of a worker's job keeps the table a sequence of job rows, and its length.
LEMMA UpdateJobType ==
    ASSUME NEW w \in Workers, NEW new \in JobColumns, TypeOK, pc[w] # "idle",
           UpdateJob(w, new)
    PROVE  jobs' \in Seq(JobRow) /\ DOMAIN jobs' = DOMAIN jobs
  <1>1. job[w] \in 1..Len(jobs) /\ jobs[job[w]] \in JobRow
    BY DEF TypeOK, DbTypeOK, BusyOK, Actors
  <1>2. seenJob[w] \in JobColumns
    BY DEF TypeOK, LocalsTypeOK
  <1>3. Merged(jobs[job[w]], seenJob[w], new) \in JobRow
    BY <1>1, <1>2, MergedRow
  <1>4. jobs' \in Seq(JobRow) /\ Len(jobs') = Len(jobs)
    BY <1>1, <1>3, ExceptSeq DEF UpdateJob, TypeOK, DbTypeOK
  <1> QED
    BY <1>4 DEF TypeOK, DbTypeOK

\* A new job extends the table by a job row.
LEMMA NewJobType ==
    ASSUME NEW d \in Docs, jobs \in Seq(JobRow)
    PROVE  /\ Append(jobs, NewJob(d)) \in Seq(JobRow)
           /\ DOMAIN jobs \subseteq DOMAIN Append(jobs, NewJob(d))
  <1>1. NewJob(d) \in JobRow
    BY DEF NewJob, JobRow, JobStatus, Stage
  <1> QED
    BY <1>1

\* The end of a transaction leaves nothing in an actor's hands.
LEMMA CloseTxType ==
    ASSUME NEW a \in Actors, TypeOK, CloseTx(a)
    PROVE  TxTypeOK'
  BY DEF TypeOK, TxTypeOK, CloseTx

\* An actor that leaves becomes idle and the others stay as they are.
LEMMA LeaveType ==
    ASSUME NEW a \in Actors, TypeOK, Leave(a), DOMAIN jobs \subseteq DOMAIN jobs'
    PROVE  LocalsTypeOK' /\ TxTypeOK' /\ BusyOK'
  <1>1. CloseTx(a)
    BY DEF Leave
  <1>2. TxTypeOK'
    BY <1>1, CloseTxType
  <1>3. LocalsTypeOK'
    BY DEF TypeOK, LocalsTypeOK, Leave, Goto, PC, NoColumns, JobColumns, JobStatus,
           Stage, DocStatus
  <1>4. BusyOK'
    BY DEF TypeOK, LocalsTypeOK, TxTypeOK, BusyOK, Leave, Goto, CloseTx, Actors
  <1> QED
    BY <1>2, <1>3, <1>4

\* Deleting rows and unlinking chunks keeps the tables' types.
LEMMA KeptType ==
    ASSUME NEW a \in Actors, TypeOK
    PROVE  KeptPages(a) \subseteq PageRow /\ KeptChunks(a) \subseteq ChunkRow
  <1>1. \A c \in ChunkRow, b \in BOOLEAN : [c EXCEPT !.linked = b] \in ChunkRow
    BY DEF ChunkRow
  <1>2. \A c \in ChunkRow : c.linked \in BOOLEAN
    BY DEF ChunkRow
  <1> QED
    BY <1>1, <1>2 DEF KeptPages, KeptChunks, TypeOK, DbTypeOK

\* The rows a parse inserts.
LEMMA PagesFromType ==
    ASSUME NEW w \in Workers, NEW layout \in Layouts, TypeOK,
           target[w] \in Docs, run[w] # 0
    PROVE  PagesFrom(w, layout) \subseteq PageRow
  <1>1. layout \in Seq(Nat)
    BY PipelineAssumptions DEF LayoutsAssumption
  <1>2. DOMAIN layout = 1..Len(layout) /\ Len(layout) \in Nat
    BY <1>1
  <1>3. \A n \in DOMAIN layout : layout[n] \in Nat /\ n \in Nat \ {0}
    BY <1>1, <1>2
  <1>4. run[w] \in Nat \ {0}
    BY DEF TypeOK, LocalsTypeOK
  <1> QED
    BY <1>3, <1>4 DEF PagesFrom, PageRow

\* The identities of the chunks a run cuts.
LEMMA IdsFromType ==
    ASSUME NEW w \in Workers, TypeOK, pc[w] = "pagesRead"
    PROVE  IdsFrom(w) \subseteq ChunkId
  <1>1. rows[w] \subseteq PageRow /\ run[w] \in Nat \ {0}
    BY DEF TypeOK, LocalsTypeOK, BusyOK, Actors
  <1>2. \A p \in PageRow : p.size \in Nat
    BY DEF PageRow
  <1>3. \A p \in rows[w] : \A k \in 1..p.size :
          [run |-> run[w], src |-> p, k |-> k] \in ChunkId
    BY <1>1, <1>2 DEF ChunkId
  <1> QED
    BY <1>3 DEF IdsFrom

\* Identities of committed chunks.
LEMMA IdsType ==
    ASSUME TypeOK
    PROVE  Ids(chunks) \subseteq ChunkId /\ \A d : Ids(ChunksOf(d)) \subseteq ChunkId
  BY DEF TypeOK, DbTypeOK, Ids, ChunksOf, ChunkRow

\* What a statement has to lock are row locks.
LEMMA WantsType ==
    ASSUME NEW a \in Actors, TypeOK
    PROVE  Wants(a) \subseteq RowLock
  <1>1. Ids(chunks) \subseteq ChunkId
    BY IdsType
  <1>2. \A I : I \cap Ids(chunks) \subseteq ChunkId
    BY <1>1
  <1>3. CASE pc[a] = "deletingChunks"
    BY <1>2, <1>3 DEF Wants, RowLock
  <1>4. CASE pc[a] = "deletingPages"
    <2>1. Wants(a) \subseteq pages \cup Ids(chunks)
      <3>1. Ids({c \in chunks : c.linked /\ c.id.src \in rows[a]}) \subseteq Ids(chunks)
        BY DEF Ids
      <3> QED
        BY <1>4, <3>1 DEF Wants
    <2> QED
      BY <1>1, <2>1 DEF TypeOK, DbTypeOK, RowLock
  <1>5. CASE pc[a] = "pagesRead"
    <2>1. a \in Workers /\ job[a] \in Nat
      BY <1>5 DEF TypeOK, LocalsTypeOK, BusyOK
    <2>2. IdsFrom(a) \subseteq ChunkId
      BY <1>5, <2>1, IdsFromType
    <2>3. {i.src : i \in IdsFrom(a)} \subseteq PageRow
      BY <2>2 DEF ChunkId
    <2>4. JobLock(job[a]) \in [job : Nat]
      BY <2>1 DEF JobLock
    <2>5. Wants(a) = {i.src : i \in IdsFrom(a)} \cup {JobLock(job[a])}
      BY <1>5 DEF Wants
    <2> QED
      BY <2>3, <2>4, <2>5 DEF RowLock
  <1>6. CASE pc[a] \in {"chunksRead", "embedded"}
    <2>1. a \in Workers /\ job[a] \in Nat /\ target[a] \in Docs
      BY <1>6 DEF TypeOK, LocalsTypeOK, BusyOK, Clearing
    <2>2. JobLock(job[a]) \in [job : Nat] /\ DocLock(target[a]) \in [document : Docs]
      BY <2>1 DEF JobLock, DocLock
    <2>3. Wants(a) \subseteq (rows[a] \cap Ids(chunks)) \cup {JobLock(job[a]), DocLock(target[a])}
      BY <1>6 DEF Wants
    <2> QED
      BY <1>2, <2>2, <2>3 DEF RowLock
  <1>7. CASE pc[a] \notin {"deletingChunks", "deletingPages", "pagesRead", "chunksRead",
                           "embedded"}
    BY <1>7 DEF Wants
  <1> QED
    BY <1>3, <1>4, <1>5, <1>6, <1>7

\* Locking a row changes nothing but the locks that the statement has got.
LEMMA LockRowType ==
    ASSUME NEW a \in Actors, TypeOK, LockRow(a)
    PROVE  TypeOK'
  <1>1. held' \in [Actors -> SUBSET RowLock]
    BY WantsType DEF LockRow, TypeOK, TxTypeOK
  <1> QED
    BY <1>1 DEF LockRow, TypeOK, DbTypeOK, LocalsTypeOK, TxTypeOK, BusyOK, db, locals

\* What another transaction has deleted, a statement of a clear has to wait for.
LEMMA DeletedIsTaken ==
    ASSUME NEW a \in Actors, NEW b \in Actors, a # b, pc[a] # "pagesRead"
    PROVE  delC[b] \subseteq Taken(a) /\ delP[b] \subseteq Taken(a)
  BY DEF Taken, Conflicting, Locks

-----------------------------------------------------------------------------
(* Lemmas about sets of rows                                                 *)

\* The values of a function on a finite set.
LEMMA FiniteImage ==
    ASSUME NEW S, IsFiniteSet(S), NEW f, DOMAIN f = S
    PROVE  IsFiniteSet({f[x] : x \in S})
  <1> DEFINE T == {f[x] : x \in S}
             g == [x \in S |-> f[x]]
  <1>1. g \in Surjection(S, T)
    BY DEF Surjection
  <1> HIDE DEF g
  <1> QED
    BY <1>1, FS_Surjection

\* A parse inserts finitely many pages.
LEMMA PagesStayFinite ==
    ASSUME NEW w \in Workers, NEW layout \in Layouts, IsFiniteSet(pages)
    PROVE  IsFiniteSet(KeptPages(w) \cup PagesFrom(w, layout))
  <1>1. IsFiniteSet(KeptPages(w))
    BY FS_Subset DEF KeptPages
  <1> DEFINE N == DOMAIN layout
             f == [n \in N |-> [doc |-> target[w], num |-> n, run |-> run[w], size |-> layout[n]]]
  <1>2. IsFiniteSet(N)
    <2>1. layout \in Seq(Nat)
      BY PipelineAssumptions DEF LayoutsAssumption
    <2>2. N = 1..Len(layout) /\ Len(layout) \in Nat
      BY <2>1
    <2> QED
      BY <2>2, FS_Interval
  <1>3. DOMAIN f = N /\ PagesFrom(w, layout) = {f[n] : n \in N}
    BY DEF PagesFrom
  <1> HIDE DEF f, N
  <1>4. IsFiniteSet(PagesFrom(w, layout))
    BY <1>2, <1>3, FiniteImage
  <1> QED
    BY <1>1, <1>4, FS_Union

\* What deleting does to the rows of chunks.
LEMMA KeptRows ==
    ASSUME NEW a \in Actors, TypeOK, \A c, e \in chunks : c.id = e.id => c = e
    PROVE  /\ \A c \in KeptChunks(a) :
                /\ c.id \notin delC[a]
                /\ \E e \in chunks : e.id = c.id /\ e.pos = c.pos
           /\ \A c, e \in KeptChunks(a) : c.id = e.id => c = e
           /\ \A e \in chunks : e.id \notin delC[a] =>
                \E c \in KeptChunks(a) : c.id = e.id /\ c.pos = e.pos
  <1> DEFINE kept(c) == [c EXCEPT !.linked = @ /\ c.id.src \notin delP[a]]
  <1>1. \A c \in chunks : kept(c).id = c.id /\ kept(c).pos = c.pos
    BY DEF TypeOK, DbTypeOK, ChunkRow
  <1>2. KeptChunks(a) = {kept(c) : c \in {e \in chunks : e.id \notin delC[a]}}
    BY DEF KeptChunks
  <1> HIDE DEF kept
  <1> QED
    BY <1>1, <1>2

\* What embedding does to them.
LEMMA EmbeddedRows ==
    ASSUME TypeOK, \A c, e \in chunks : c.id = e.id => c = e, NEW ids,
           chunks' = {[c EXCEPT !.embedded = @ \/ c.id \in ids] : c \in chunks}
    PROVE  /\ \A c \in chunks' : \E e \in chunks : e.id = c.id /\ e.pos = c.pos
           /\ \A c, e \in chunks' : c.id = e.id => c = e
           /\ \A e \in chunks : \E c \in chunks' : c.id = e.id /\ c.pos = e.pos
  <1> DEFINE emb(c) == [c EXCEPT !.embedded = @ \/ c.id \in ids]
  <1>1. \A c \in chunks : emb(c).id = c.id /\ emb(c).pos = c.pos
    BY DEF TypeOK, DbTypeOK, ChunkRow
  <1>2. chunks' = {emb(c) : c \in chunks}
    OBVIOUS
  <1> HIDE DEF emb
  <1> QED
    BY <1>1, <1>2

\* The identities a run cuts from the pages it has read.
LEMMA IdsOfRun ==
    ASSUME NEW w \in Workers, NEW i \in IdsFrom(w)
    PROVE  /\ i.run = run[w] /\ i.src \in rows[w] /\ i.k \in 1..i.src.size
           /\ i = [run |-> run[w], src |-> i.src, k |-> i.k]
  BY DEF IdsFrom

\* A union of finitely many finite sets of identities.
LEMMA IdsFinite ==
    ASSUME NEW w \in Workers, TypeOK, pc[w] = "pagesRead", IsFiniteSet(rows[w])
    PROVE  IsFiniteSet(IdsFrom(w))
  <1> DEFINE cut(p) == {[run |-> run[w], src |-> p, k |-> k] : k \in 1..p.size}
             all    == {cut(p) : p \in rows[w]}
  <1>1. IsFiniteSet(rows[w]) /\ rows[w] \subseteq PageRow
    BY DEF TypeOK, BusyOK, Actors
  <1>2. ASSUME NEW p \in rows[w] PROVE IsFiniteSet(cut(p))
    <2> DEFINE K == 1..p.size
               f == [k \in K |-> [run |-> run[w], src |-> p, k |-> k]]
    <2>1. p.size \in Nat
      BY <1>1 DEF PageRow
    <2>2. IsFiniteSet(K)
      BY <2>1, FS_Interval
    <2>3. DOMAIN f = K /\ cut(p) = {f[k] : k \in K}
      OBVIOUS
    <2> HIDE DEF f, cut, K
    <2> QED
      BY <2>2, <2>3, FiniteImage
  <1>3. IsFiniteSet(all)
    <2> DEFINE f == [p \in rows[w] |-> cut(p)]
    <2>1. DOMAIN f = rows[w] /\ all = {f[p] : p \in rows[w]}
      OBVIOUS
    <2> HIDE DEF f, all
    <2> QED
      BY <1>1, <2>1, FiniteImage
  <1>4. \A C \in all : IsFiniteSet(C)
    BY <1>2
  <1>5. IdsFrom(w) = UNION all
    BY DEF IdsFrom
  <1> HIDE DEF all
  <1> QED
    BY <1>3, <1>4, <1>5, FS_UNION

\* Numbers given to the chunks of a run are 0, 1, 2, ... without gap or repetition.
LEMMA NumbersWithoutGap ==
    ASSUME NEW ids, IsFiniteSet(ids), NEW pos \in Numberings(ids)
    PROVE  /\ \A i, j \in ids : pos[i] = pos[j] => i = j
           /\ \A i \in ids : \A n \in 0..pos[i] : \E j \in ids : pos[j] = n
  <1>1. Cardinality(ids) \in Nat
    BY FS_CardinalityType
  <1>2. pos \in Bijection(ids, 0..(Cardinality(ids) - 1))
    BY DEF Numberings
  <1>3. /\ \A i, j \in ids : pos[i] = pos[j] => i = j
        /\ \A i \in ids : pos[i] \in 0..(Cardinality(ids) - 1)
        /\ \A n \in 0..(Cardinality(ids) - 1) : \E j \in ids : pos[j] = n
    BY <1>2 DEF Bijection, Injection, IsInjective, Surjection
  <1> QED
    BY <1>1, <1>3

-----------------------------------------------------------------------------
(* Type correctness                                                          *)

\* The statements of the two DELETEs only move the actor's own transaction.
LEMMA ClearStepType ==
    ASSUME NEW a \in Actors, TypeOK, ClearStep(a)
    PROVE  TypeOK'
  <1> Ids(chunks) \subseteq ChunkId /\ \A d : Ids(ChunksOf(d)) \subseteq ChunkId
    BY IdsType
  <1> PagesOf(target[a]) \subseteq PageRow
    BY DEF TypeOK, DbTypeOK, PagesOf
  <1> USE DEF TypeOK, LocalsTypeOK, TxTypeOK, DbTypeOK, BusyOK, Goto, PC, Clearing,
              db, locals, Actors
  <1>1. CASE DeleteChunks(a)
    <2> DEFINE ids == Ids(ChunksOf(target[a]))
    <2>1. /\ ids \subseteq ChunkId
          /\ pc[a] = "started" /\ UNCHANGED <<db, locals, held, delC, delP, runs>>
          /\ rows' = [rows EXCEPT ![a] = ids] /\ Goto(a, "deletingChunks")
      BY <1>1 DEF DeleteChunks
    <2> HIDE DEF ids
    <2> QED
      BY <2>1
  <1>2. CASE ChunksDeleted(a)
    BY <1>2 DEF ChunksDeleted
  <1>3. CASE DeletePages(a)
    BY <1>3 DEF DeletePages
  <1>4. CASE PagesDeleted(a)
    BY <1>4 DEF PagesDeleted
  <1> QED
    BY <1>1, <1>2, <1>3, <1>4 DEF ClearStep

\* A page read gives chunks whose chunk_index is a number.
LEMMA NumberingsType ==
    ASSUME NEW ids, NEW pos \in Numberings(ids), NEW i \in ids
    PROVE  pos[i] \in Nat
  BY DEF Numberings, Bijection, Injection, Surjection

\* The steps of process_ingestion_job other than the DELETEs.
LEMMA RunStepType ==
    ASSUME NEW w \in Workers, TypeOK,
           \/ \E j \in DOMAIN jobs : LoadJob(w, j)
           \/ RunStep(w) \/ StageFails(w) \/ Crash(w)
    PROVE  TypeOK'
  <1> w \in Actors
    BY DEF Actors
  <1>1. ASSUME NEW j \in DOMAIN jobs, LoadJob(w, j) PROVE TypeOK'
    <2>1. jobs[j] \in JobRow /\ j \in Nat
      BY DEF TypeOK, DbTypeOK
    <2>2. Columns(jobs[j]) \in JobColumns /\ jobs[j].doc \in Docs
      BY <2>1, ColumnsOfRow
    <2> QED
      BY <1>1, <2>1, <2>2 DEF LoadJob, TypeOK, DbTypeOK, LocalsTypeOK, TxTypeOK, BusyOK,
                              Goto, PC, Actors, db, tx
  <1>2. CASE LoadDocument(w)
    <2>1. CASE target[w] \in deleted
      BY <1>2, <2>1, LeaveType DEF LoadDocument, TypeOK, DbTypeOK, db
    <2>2. CASE target[w] \notin deleted
      BY <1>2, <2>2 DEF LoadDocument, TypeOK, DbTypeOK, LocalsTypeOK, TxTypeOK, BusyOK,
                        Goto, PC, Actors, db, tx
    <2> QED
      BY <2>1, <2>2
  <1>3. CASE Start(w)
    <2> DEFINE new == [status |-> "RUNNING", stage |-> "parsing", error |-> FALSE,
                       attempts |-> seenJob[w].attempts + 1]
    <2>1. new \in JobColumns
      BY DEF TypeOK, LocalsTypeOK, JobColumns, JobStatus, Stage
    <2>2. jobs' \in Seq(JobRow) /\ DOMAIN jobs' = DOMAIN jobs
      BY <1>3, <2>1, UpdateJobType DEF Start, FlushJob
    <2>3. runs' \in Seq(Nat) /\ Len(runs) + 1 \in Nat \ {0}
      BY <1>3 DEF Start, TypeOK, DbTypeOK, LocalsTypeOK
    <2>4. seenJob' = [seenJob EXCEPT ![w] = new] /\ run' = [run EXCEPT ![w] = Len(runs) + 1]
      BY <1>3 DEF Start, FlushJob
    <2> HIDE DEF new
    <2> QED
      BY <1>3, <2>1, <2>2, <2>3, <2>4
         DEF Start, TypeOK, DbTypeOK, LocalsTypeOK, TxTypeOK, BusyOK, Goto, PC, Actors, tx
  <1>4. CASE ClearStep(w)
    BY <1>4, ClearStepType
  <1>5. ASSUME NEW layout \in Layouts, CommitParse(w, layout) PROVE TypeOK'
    <2>1. PagesFrom(w, layout) \subseteq PageRow
      BY <1>5, PagesFromType DEF CommitParse, TypeOK, BusyOK, Clearing
    <2>2. KeptPages(w) \subseteq PageRow /\ KeptChunks(w) \subseteq ChunkRow
      BY KeptType
    <2>3. DbTypeOK'
      BY <1>5, <2>1, <2>2 DEF CommitParse, TypeOK, DbTypeOK
    <2>4. CASE pc' = [pc EXCEPT ![w] = "parsed"] /\ CloseTx(w) /\ UNCHANGED locals
      <3>1. TxTypeOK'
        BY <2>4, CloseTxType
      <3> QED
        BY <1>5, <2>3, <2>4, <3>1
           DEF CommitParse, TypeOK, DbTypeOK, LocalsTypeOK, TxTypeOK, BusyOK, PC, Actors,
               CloseTx, locals
    <2>5. CASE Leave(w)
      BY <1>5, <2>3, <2>5, LeaveType DEF CommitParse, TypeOK
    <2> QED
      BY <1>5, <2>4, <2>5 DEF CommitParse, Goto
  <1>6. CASE ReadPages(w)
    <2>1. PagesOf(target[w]) \subseteq PageRow
      BY DEF TypeOK, DbTypeOK, PagesOf
    <2> QED
      BY <1>6, <2>1 DEF ReadPages, TypeOK, DbTypeOK, LocalsTypeOK, TxTypeOK, BusyOK,
                        Goto, PC, Actors, db, locals
  <1>7. CASE CommitChunks(w)
    <2> DEFINE ids == IdsFrom(w)
               new == [seenJob[w] EXCEPT !.stage = "chunking"]
    <2>1. ids \subseteq ChunkId
      BY <1>7, IdsFromType DEF CommitChunks
    <2>2. new \in JobColumns
      BY DEF TypeOK, LocalsTypeOK, JobColumns, Stage
    <2>3. CASE Leave(w) /\ UNCHANGED <<jobs, chunks>>
      BY <1>7, <2>3, LeaveType DEF CommitChunks, TypeOK, DbTypeOK
    <2>4. ASSUME NEW pos \in Numberings(ids),
                 chunks' = chunks \cup {[id |-> i, pos |-> pos[i], linked |-> TRUE,
                                         embedded |-> FALSE] : i \in ids},
                 FlushJob(w, new), pc' = [pc EXCEPT ![w] = "chunked"], CloseTx(w),
                 UNCHANGED <<target, job, run, seenDoc>>
          PROVE  TypeOK'
      <3>1. \A i \in ids : pos[i] \in Nat
        BY NumberingsType
      <3>2. chunks' \subseteq ChunkRow
        <4>1. \A i \in ids : [id |-> i, pos |-> pos[i], linked |-> TRUE,
                              embedded |-> FALSE] \in ChunkRow
          BY <2>1, <3>1 DEF ChunkRow
        <4> HIDE DEF ids
        <4> QED
          BY <2>4, <4>1 DEF TypeOK, DbTypeOK
      <3>3. jobs' \in Seq(JobRow) /\ DOMAIN jobs' = DOMAIN jobs
        BY <1>7, <2>2, <2>4, UpdateJobType DEF CommitChunks, FlushJob
      <3>4. TxTypeOK'
        BY <2>4, CloseTxType
      <3>5. seenJob' = [seenJob EXCEPT ![w] = new]
        BY <2>4 DEF FlushJob
      <3> HIDE DEF new, ids
      <3> QED
        BY <1>7, <2>2, <2>4, <3>2, <3>3, <3>4, <3>5
           DEF CommitChunks, TypeOK, DbTypeOK, LocalsTypeOK, TxTypeOK, BusyOK, PC, Actors,
               CloseTx
    <2> QED
      BY <1>7, <2>3, <2>4 DEF CommitChunks, Goto
  <1>8. CASE ReadChunks(w)
    <2>1. Ids(ChunksOf(target[w])) \subseteq ChunkId
      BY IdsType
    <2> HIDE DEF Ids
    <2> QED
      BY <1>8, <2>1 DEF ReadChunks, TypeOK, DbTypeOK, LocalsTypeOK, TxTypeOK, BusyOK,
                        Goto, PC, Actors, db, locals
  <1>9. CASE CommitEmbeddings(w)
    <2> DEFINE new == [seenJob[w] EXCEPT !.stage = "embedding"]
    <2>1. new \in JobColumns
      BY DEF TypeOK, LocalsTypeOK, JobColumns, Stage
    <2>2. jobs' \in Seq(JobRow) /\ DOMAIN jobs' = DOMAIN jobs
      BY <1>9, <2>1, UpdateJobType DEF CommitEmbeddings, FlushJob
    <2>3. chunks' \subseteq ChunkRow
      BY <1>9 DEF CommitEmbeddings, TypeOK, DbTypeOK, ChunkRow
    <2>4. TxTypeOK'
      BY <1>9, CloseTxType DEF CommitEmbeddings
    <2>5. seenJob' = [seenJob EXCEPT ![w] = new]
      BY <1>9 DEF CommitEmbeddings, FlushJob
    <2> HIDE DEF new
    <2> QED
      BY <1>9, <2>1, <2>2, <2>3, <2>4, <2>5
         DEF CommitEmbeddings, TypeOK, DbTypeOK, LocalsTypeOK, TxTypeOK, BusyOK, Goto, PC,
             Actors, CloseTx
  <1>10. CASE Finalize(w)
    <2> DEFINE new == [seenJob[w] EXCEPT !.status = "SUCCEEDED", !.stage = "indexed",
                                         !.error = FALSE]
    <2>1. new \in JobColumns
      BY DEF TypeOK, LocalsTypeOK, JobColumns, Stage, JobStatus
    <2>2. jobs' \in Seq(JobRow) /\ DOMAIN jobs' = DOMAIN jobs
      BY <1>10, <2>1, UpdateJobType DEF Finalize
    <2>3. LocalsTypeOK' /\ TxTypeOK' /\ BusyOK'
      BY <1>10, <2>2, LeaveType DEF Finalize
    <2> QED
      BY <1>10, <2>2, <2>3 DEF Finalize, TypeOK, DbTypeOK, DocStatus, Written
  <1>11. CASE StageFails(w)
    BY <1>11, LeaveType DEF StageFails, TypeOK, DbTypeOK, db
  <1>12. CASE Crash(w)
    BY <1>12, LeaveType DEF Crash, TypeOK, DbTypeOK, db
  <1>13. CASE LockRow(w)
    BY <1>13, LockRowType
  <1> QED
    BY <1>1, <1>2, <1>3, <1>4, <1>5, <1>6, <1>7, <1>8, <1>9, <1>10, <1>11, <1>12, <1>13
       DEF RunStep

\* The API requests.
LEMMA RequestStepType ==
    ASSUME NEW r \in Requests, TypeOK,
           \/ \E d \in Docs : OpenReprocess(r, d)
           \/ ReprocessStep(r) \/ AbortReprocess(r)
    PROVE  TypeOK'
  <1> r \in Actors /\ r \notin Workers
    BY PipelineAssumptions DEF Actors, ActorsAssumption
  <1>1. ASSUME NEW d \in Docs, OpenReprocess(r, d) PROVE TypeOK'
    BY <1>1 DEF OpenReprocess, TypeOK, DbTypeOK, LocalsTypeOK, TxTypeOK, BusyOK, Goto,
                PC, Actors, db, tx
  <1>2. CASE ClearStep(r)
    BY <1>2, ClearStepType
  <1>3. CASE CommitReprocess(r)
    <2>1. target[r] \in Docs
      BY <1>3 DEF CommitReprocess, TypeOK, BusyOK
    <2>2. jobs' \in Seq(JobRow) /\ DOMAIN jobs \subseteq DOMAIN jobs'
      BY <1>3, <2>1, NewJobType DEF CommitReprocess, TypeOK, DbTypeOK
    <2>3. LocalsTypeOK' /\ TxTypeOK' /\ BusyOK'
      BY <1>3, <2>2, LeaveType DEF CommitReprocess
    <2> QED
      BY <1>3, <2>2, <2>3, KeptType DEF CommitReprocess, TypeOK, DbTypeOK, DocStatus, Written
  <1>4. CASE AbortReprocess(r)
    BY <1>4, LeaveType DEF AbortReprocess, TypeOK, DbTypeOK, db
  <1>5. CASE LockRow(r)
    BY <1>5, LockRowType
  <1> QED
    BY <1>1, <1>2, <1>3, <1>4, <1>5 DEF ReprocessStep

\* Initial states are well typed, whatever the constants.
LEMMA InitTyped == Init => TypeOK
  BY DEF Init, TypeOK, DbTypeOK, LocalsTypeOK, TxTypeOK, BusyOK, NoColumns, JobColumns,
         JobStatus, Stage, DocStatus, PC, Actors

\* Every step keeps the types.
LEMMA NextTyped ==
    ASSUME TypeOK, [Next]_vars
    PROVE  TypeOK'
  <1>1. ASSUME NEW d \in Docs, CreateDocument(d) PROVE TypeOK'
    <2>1. jobs' \in Seq(JobRow) /\ DOMAIN jobs \subseteq DOMAIN jobs'
      BY <1>1, NewJobType DEF CreateDocument, TypeOK, DbTypeOK
    <2> QED
      BY <1>1, <2>1 DEF CreateDocument, TypeOK, DbTypeOK, LocalsTypeOK, TxTypeOK, BusyOK,
                        DocStatus, locals, tx, Actors
  <1>2. ASSUME NEW d \in Docs, SoftDelete(d) PROVE TypeOK'
    BY <1>2 DEF SoftDelete, TypeOK, DbTypeOK, LocalsTypeOK, TxTypeOK, BusyOK, locals, tx
  <1>3. CASE UNCHANGED vars
    BY <1>3 DEF vars, db, locals, tx, TypeOK, DbTypeOK, LocalsTypeOK, TxTypeOK, BusyOK
  <1> QED
    BY <1>1, <1>2, <1>3, RunStepType, RequestStepType DEF Next, Quiescent

\* Every reachable state is well typed.
THEOREM TypeCorrect == Spec => []TypeOK
  BY InitTyped, NextTyped, PTL DEF Spec

-----------------------------------------------------------------------------
(* The pages of a document come from one parse                               *)

\* A run that has started and has not yet committed its parse.
Fresh(w) == pc[w] \in {"started"} \cup Clearing

\* Runs are numbered apart, and a run that has not parsed owns no page.
RunsInv ==
    /\ \A w \in Workers : run[w] <= Len(runs)
    /\ \A v, w \in Workers : v # w /\ run[v] = run[w] => run[w] = 0
    /\ \A p \in pages : p.run <= Len(runs)
    /\ \A w \in Workers : Fresh(w) => \A p \in pages : p.run # run[w]

\* A DELETE under way works from all the pages an earlier run left, or from
\* pages that are all gone.
WaitInv ==
    \A a \in Actors : pc[a] = "deletingPages" =>
        /\ \A p \in rows[a] :
             /\ p.doc = target[a] /\ p \in PageRow /\ p.run <= Len(runs)
             /\ \A w \in Workers : Fresh(w) => p.run # run[w]
        /\ rows[a] \cap pages # {} => PagesOf(target[a]) \subseteq rows[a]

\* A transaction that has deleted pages has deleted all of its document, and no
\* other transaction has deleted one of them.
LockInv ==
    /\ \A a \in Actors : delP[a] # {} =>
         pc[a] = "cleared" /\ delP[a] = PagesOf(target[a])
    /\ \A a, b \in Actors : a # b => delP[a] \cap delP[b] = {}

PagesInv == PagesOfOneRun /\ RunsInv /\ WaitInv /\ LockInv

\* Only actor a moves, no page does, and a neither starts a run, nor waits for
\* pages, nor keeps any deleted: the steps that have nothing to do with pages.
LEMMA Undisturbed ==
    ASSUME NEW a \in Actors, TypeOK, PagesInv, UNCHANGED <<pages, runs>>,
           \A b \in Actors \ {a} : /\ pc'[b] = pc[b] /\ target'[b] = target[b]
                                   /\ rows'[b] = rows[b] /\ delP'[b] = delP[b],
           \A w \in Workers \ {a} : run'[w] = run[w],
           a \in Workers => /\ run'[a] \in {run[a], 0}
                            /\ Fresh(a)' => Fresh(a) /\ run'[a] = run[a],
           pc'[a] # "deletingPages", delP'[a] = {}
    PROVE  PagesInv'
  <1>1. PagesOfOneRun'
    BY DEF PagesInv, PagesOfOneRun
  <1>2. \A w \in Workers : Fresh(w)' => Fresh(w) /\ run'[w] = run[w]
    BY DEF Fresh, Actors
  <1>3. RunsInv'
    <2>1. Len(runs) \in Nat
      BY DEF TypeOK, DbTypeOK
    <2> QED
      BY <1>2, <2>1 DEF PagesInv, RunsInv
  <1>4. WaitInv'
    BY <1>2 DEF PagesInv, WaitInv, PagesOf
  <1>5. LockInv'
    BY DEF PagesInv, LockInv, PagesOf
  <1> QED
    BY <1>1, <1>3, <1>4, <1>5 DEF PagesInv

\* Where nothing is deleted yet.
LEMMA NothingDeleted ==
    ASSUME NEW a \in Actors, PagesInv, pc[a] # "cleared"
    PROVE  delP[a] = {}
  BY DEF PagesInv, LockInv

\* The DELETE of the pages takes all the pages of the document or none.
LEMMA DeletePagesInv ==
    ASSUME NEW a \in Actors, TypeOK, PagesInv, DeletePages(a) \/ PagesDeleted(a)
    PROVE  PagesInv'
  <1>1. /\ UNCHANGED <<pages, target, run, runs>>
        /\ \A b \in Actors \ {a} : /\ pc'[b] = pc[b] /\ rows'[b] = rows[b]
                                    /\ delP'[b] = delP[b]
        /\ pc[a] \in {"clearedChunks", "deletingPages"}
        /\ pc'[a] \in {"cleared", "deletingPages"}
    BY DEF DeletePages, PagesDeleted, db, locals, Goto, TypeOK, LocalsTypeOK, TxTypeOK
  <1>2. \A w \in Workers : Fresh(w)' <=> Fresh(w)
    BY <1>1 DEF Fresh, Clearing, Actors
  <1>3. delP[a] = {}
    BY <1>1, NothingDeleted
  <1>4. PagesOfOneRun' /\ RunsInv'
    BY <1>1, <1>2 DEF PagesInv, PagesOfOneRun, RunsInv
  <1>5. \/ pc'[a] = "deletingPages" /\ rows'[a] = PagesOf(target[a]) /\ delP'[a] = {}
        \/ /\ pc'[a] = "cleared" /\ delP'[a] \in {{}, PagesOf(target[a])}
           /\ \A b \in Actors \ {a} : delP'[a] \cap delP[b] = {}
    <2>1. CASE DeletePages(a)
      BY <1>3, <2>1 DEF DeletePages, Goto, TypeOK, LocalsTypeOK, TxTypeOK
    <2>2. CASE PagesDeleted(a)
      <3>1. /\ pc[a] = "deletingPages" /\ pc'[a] = "cleared"
            /\ delP'[a] = rows[a] \cap pages
        BY <2>2 DEF PagesDeleted, Goto, TypeOK, LocalsTypeOK, TxTypeOK
      <3>2. (rows[a] \cap pages) \cap Taken(a) = {}
        BY <2>2 DEF PagesDeleted, Wants
      <3>3. rows[a] \cap pages \in {{}, PagesOf(target[a])}
        BY <3>1 DEF PagesInv, WaitInv, PagesOf
      <3> QED
        BY <3>1, <3>2, <3>3, DeletedIsTaken
    <2> QED
      BY <2>1, <2>2
  <1>6. WaitInv'
    <2>1. \A p \in pages : /\ p.run <= Len(runs) /\ p \in PageRow
                           /\ \A w \in Workers : Fresh(w) => p.run # run[w]
      BY DEF PagesInv, RunsInv, TypeOK, DbTypeOK
    <2> QED
      BY <1>1, <1>2, <1>5, <2>1 DEF PagesInv, WaitInv, PagesOf
  <1>7. LockInv'
    BY <1>1, <1>3, <1>5 DEF PagesInv, LockInv, PagesOf
  <1> QED
    BY <1>4, <1>6, <1>7 DEF PagesInv

\* A run gets a number no page and no other run has.
LEMMA StartInv ==
    ASSUME NEW w \in Workers, TypeOK, PagesInv, Start(w)
    PROVE  PagesInv'
  <1> w \in Actors
    BY DEF Actors
  <1>1. /\ UNCHANGED <<pages, target, rows, delP>>
        /\ run' = [run EXCEPT ![w] = Len(runs) + 1]
        /\ pc[w] = "loaded" /\ pc' = [pc EXCEPT ![w] = "started"]
    BY DEF Start, Goto, tx
  <1>2. Len(runs') = Len(runs) + 1 /\ Len(runs) \in Nat
    BY DEF Start, TypeOK, DbTypeOK
  <1>3. run \in [Workers -> Nat] /\ pc \in [Actors -> PC] /\ pages \subseteq PageRow
    BY DEF TypeOK, LocalsTypeOK, DbTypeOK
  <1>4. \A p \in PageRow : p.run \in Nat
    BY DEF PageRow
  <1>5. PagesOfOneRun'
    BY <1>1 DEF PagesInv, PagesOfOneRun
  <1>6. RunsInv'
    BY <1>1, <1>2, <1>3, <1>4 DEF PagesInv, RunsInv, Fresh, Actors
  <1>7. WaitInv'
    BY <1>1, <1>2, <1>3, <1>4 DEF PagesInv, WaitInv, PagesOf, Fresh, Actors
  <1>8. LockInv'
    BY <1>1, <1>3 DEF PagesInv, LockInv, PagesOf
  <1> QED
    BY <1>5, <1>6, <1>7, <1>8 DEF PagesInv

\* Publishing the DELETE of a transaction: each document keeps its pages or
\* loses them all.
LEMMA CommitReprocessInv ==
    ASSUME NEW r \in Requests, TypeOK, PagesInv, CommitReprocess(r)
    PROVE  PagesInv'
  <1> r \in Actors /\ r \notin Workers
    BY PipelineAssumptions DEF Actors, ActorsAssumption
  <1>1. /\ UNCHANGED <<runs>> /\ pages' = pages \ delP[r]
        /\ pc' = [pc EXCEPT ![r] = "idle"] /\ target' = [target EXCEPT ![r] = NoDoc]
        /\ \A w \in Workers : run'[w] = run[w]
        /\ rows' = [rows EXCEPT ![r] = {}] /\ delP' = [delP EXCEPT ![r] = {}]
    BY DEF CommitReprocess, KeptPages, Leave, Goto, CloseTx
  <1>2. delP[r] \in {{}, PagesOf(target[r])}
    BY DEF PagesInv, LockInv
  <1>3. /\ pc \in [Actors -> PC] /\ target \in [Actors -> Docs \cup {NoDoc}]
        /\ rows \in [Actors -> SUBSET (PageRow \cup ChunkId)]
        /\ delP \in [Actors -> SUBSET PageRow]
    BY DEF TypeOK, LocalsTypeOK, TxTypeOK
  <1>4. \A w \in Workers : Fresh(w)' <=> Fresh(w)
    BY <1>1, <1>3 DEF Fresh, Actors
  <1>5. PagesOfOneRun'
    BY <1>1, <1>2 DEF PagesInv, PagesOfOneRun, PagesOf
  <1>6. RunsInv'
    BY <1>1, <1>4 DEF PagesInv, RunsInv
  <1>7. WaitInv'
    BY <1>1, <1>3, <1>4 DEF PagesInv, WaitInv, PagesOf
  <1>8. LockInv'
    BY <1>1, <1>2, <1>3 DEF PagesInv, LockInv, PagesOf
  <1> QED
    BY <1>5, <1>6, <1>7, <1>8 DEF PagesInv

\* Committing a parse: the unique index lets the new pages in only where the
\* document has no page left, or lets nothing in.
LEMMA CommitParseInv ==
    ASSUME NEW w \in Workers, NEW layout \in Layouts, TypeOK, PagesInv,
           pc[w] = "cleared", UNCHANGED <<target, run, runs>>,
           \A p \in PagesOf(target[w]) \ delP[w] : p.num \notin DOMAIN layout,
           pages' = KeptPages(w) \cup PagesFrom(w, layout),
           Goto(w, "parsed"), CloseTx(w)
    PROVE  PagesInv'
  <1> w \in Actors
    BY DEF Actors
  <1> DEFINE d   == target[w]
             new == PagesFrom(w, layout)
  <1>1. d \in Docs /\ run[w] \in Nat \ {0}
    BY DEF TypeOK, LocalsTypeOK, BusyOK
  <1>2. layout \in Seq(Nat) /\ Len(layout) \in Nat /\ DOMAIN layout = 1..Len(layout)
    BY PipelineAssumptions DEF LayoutsAssumption
  <1>3. new \subseteq PageRow
    BY <1>1, PagesFromType
  <1>4. /\ \A p \in new : p.doc = d /\ p.run = run[w] /\ p.num \in DOMAIN layout
        /\ \A n \in DOMAIN layout : \E p \in new : p.num = n
    <2> DEFINE row(n) == [doc |-> d, num |-> n, run |-> run[w], size |-> layout[n]]
    <2>1. new = {row(n) : n \in DOMAIN layout}
      BY DEF PagesFrom
    <2>2. \A n : row(n).doc = d /\ row(n).run = run[w] /\ row(n).num = n
      OBVIOUS
    <2> HIDE DEF row, new
    <2> QED
      BY <2>1, <2>2
  <1>5. pages \subseteq PageRow /\ \A p \in PageRow : p.num \in Nat \ {0} /\ p.run \in Nat
    BY DEF TypeOK, DbTypeOK, PageRow
  <1>6. delP[w] = {} \/ delP[w] = PagesOf(d)
    BY DEF PagesInv, LockInv
  <1>7. \/ pages' = (pages \ PagesOf(d)) \cup new /\ delP[w] = PagesOf(d)
        \/ pages' = pages \cup new /\ PagesOf(d) = {} /\ delP[w] = {}
        \/ pages' = pages /\ new = {} /\ delP[w] = {}
    <2>1. CASE delP[w] = PagesOf(d)
      BY <2>1 DEF KeptPages
    <2>2. CASE delP[w] = {} /\ PagesOf(d) = {}
      BY <2>2 DEF KeptPages
    <2>3. CASE delP[w] = {} /\ PagesOf(d) # {}
      <3>1. PICK p \in PagesOf(d) : TRUE
        BY <2>3
      <3>2. p \in pages /\ p.doc = d /\ 1 \in 1..p.num
        BY <1>5 DEF PagesOf
      <3>3. PICK q \in pages : q.doc = d /\ q.num = 1
        BY <3>2 DEF PagesInv, PagesOfOneRun
      <3>4. 1 \notin DOMAIN layout
        BY <2>3, <3>3 DEF PagesOf
      <3>5. new = {}
        BY <1>2, <3>4 DEF PagesFrom
      <3> QED
        BY <2>3, <3>5 DEF KeptPages
    <2> QED
      BY <1>6, <2>1, <2>2, <2>3
  <1>8. /\ pc' = [pc EXCEPT ![w] = "parsed"]
        /\ rows' = [rows EXCEPT ![w] = {}] /\ delP' = [delP EXCEPT ![w] = {}]
    BY DEF Goto, CloseTx
  <1>9. /\ pc \in [Actors -> PC] /\ rows \in [Actors -> SUBSET (PageRow \cup ChunkId)]
        /\ delP \in [Actors -> SUBSET PageRow]
    BY DEF TypeOK, LocalsTypeOK, TxTypeOK
  <1>10. Fresh(w) /\ ~Fresh(w)' /\ \A v \in Workers \ {w} : Fresh(v)' <=> Fresh(v)
    BY <1>8, <1>9 DEF Fresh, Clearing, Actors
  <1>11. \A a \in Actors : pc[a] = "deletingPages" => rows[a] \cap new = {}
    BY <1>4, <1>10 DEF PagesInv, WaitInv
  <1> HIDE DEF new
  <1>12. PagesOfOneRun'
    <2>1. \A p \in pages' : p \in new \/ (p \in pages /\ (p.doc = d => pages' = pages))
      BY <1>7 DEF PagesOf
    <2>2. \A p \in pages' : p.doc = d /\ new # {} => p \in new
      BY <1>4, <1>7 DEF PagesOf
    <2> SUFFICES ASSUME NEW p \in pages'
                 PROVE  /\ \A q \in pages' : q.doc = p.doc => q.run = p.run
                        /\ \A n \in 1..p.num : \E q \in pages' : q.doc = p.doc /\ q.num = n
      BY DEF PagesOfOneRun
    <2>3. CASE p \in new
      <3>1. \A q \in pages' : q.doc = p.doc => q.run = p.run
        BY <1>4, <2>2, <2>3
      <3>2. p.num \in 1..Len(layout)
        BY <1>2, <1>4, <2>3
      <3>3. \A n \in 1..p.num : n \in DOMAIN layout
        BY <1>2, <3>2
      <3>4. new \subseteq pages'
        BY <1>7
      <3> QED
        BY <1>4, <2>3, <3>1, <3>3, <3>4
    <2>4. CASE p \notin new /\ p.doc = d
      BY <2>1, <2>4 DEF PagesInv, PagesOfOneRun
    <2>5. CASE p \notin new /\ p.doc # d
      <3>1. p \in pages /\ \A q : q.doc = p.doc => (q \in pages' <=> q \in pages)
        BY <1>4, <1>7, <2>1, <2>5 DEF PagesOf
      <3> QED
        BY <3>1 DEF PagesInv, PagesOfOneRun
    <2> QED
      BY <2>3, <2>4, <2>5
  <1>13. RunsInv'
    <2>1. pages' \subseteq pages \cup new
      BY <1>7
    <2>2. \A v \in Workers \ {w} : Fresh(v) => run[v] # run[w]
      BY <1>1 DEF PagesInv, RunsInv
    <2> QED
      BY <1>4, <1>10, <2>1, <2>2 DEF PagesInv, RunsInv
  <1>14. WaitInv'
    <2>1. \A a \in Actors : pc'[a] = "deletingPages" =>
            a # w /\ pc[a] = "deletingPages" /\ rows'[a] = rows[a]
      BY <1>8, <1>9
    <2>2. \A a \in Actors : pc[a] = "deletingPages" /\ rows[a] \cap pages' # {}
            => PagesOf(target[a])' \subseteq rows[a]
      <3> SUFFICES ASSUME NEW a \in Actors, pc[a] = "deletingPages", rows[a] \cap pages' # {}
                   PROVE  PagesOf(target[a])' \subseteq rows[a]
        OBVIOUS
      <3>1. \A p \in rows[a] : p.doc = target[a]
        BY DEF PagesInv, WaitInv
      <3>2. PICK p \in rows[a] : p \in pages /\ p \in pages'
        BY <1>7, <1>11
      <3>3. PagesOf(target[a]) \subseteq rows[a]
        BY <3>2 DEF PagesInv, WaitInv
      <3>4. target[a] = d => pages' = pages
        BY <1>7, <3>1, <3>2, <1>11 DEF PagesOf
      <3>5. target[a] # d => PagesOf(target[a])' \subseteq PagesOf(target[a])
        BY <1>4, <1>7 DEF PagesOf
      <3> QED
        BY <3>3, <3>4, <3>5 DEF PagesOf
    <2> QED
      BY <1>10, <2>1, <2>2 DEF PagesInv, WaitInv
  <1>15. LockInv'
    <2> SUFFICES ASSUME NEW a \in Actors, delP'[a] # {}
                 PROVE  pc'[a] = "cleared" /\ delP'[a] = PagesOf(target[a])'
      BY <1>8, <1>9 DEF PagesInv, LockInv
    <2>1. a # w /\ delP'[a] = delP[a] /\ pc'[a] = pc[a]
      BY <1>8, <1>9
    <2>2. pc[a] = "cleared" /\ delP[a] = PagesOf(target[a]) /\ delP[a] \cap delP[w] = {}
      BY <2>1 DEF PagesInv, LockInv
    <2>3. PagesOf(target[a])' = PagesOf(target[a])
      <3>1. CASE target[a] = d
        BY <1>7, <2>1, <2>2, <3>1 DEF PagesOf
      <3>2. CASE target[a] # d
        BY <1>4, <1>7, <3>2 DEF PagesOf
      <3> QED
        BY <3>1, <3>2
    <2> QED
      BY <2>1, <2>2, <2>3
  <1> QED
    BY <1>12, <1>13, <1>14, <1>15 DEF PagesInv

\* A row lock more changes nothing that the invariant looks at.
LEMMA LockRowInv ==
    ASSUME NEW a \in Actors, PagesInv, LockRow(a)
    PROVE  PagesInv'
  <1>1. UNCHANGED <<pages, runs, pc, target, run, rows, delP>>
    BY DEF LockRow, db, locals
  <1> QED
    BY <1>1 DEF PagesInv, PagesOfOneRun, RunsInv, WaitInv, LockInv, PagesOf, Fresh

\* The remaining steps of a run have nothing to do with pages.
LEMMA RunStepInv ==
    ASSUME NEW w \in Workers, TypeOK, PagesInv,
           \/ \E j \in DOMAIN jobs : LoadJob(w, j)
           \/ RunStep(w) \/ StageFails(w) \/ Crash(w)
    PROVE  PagesInv'
  <1> w \in Actors
    BY DEF Actors
  <1> USE DEF TypeOK, LocalsTypeOK, TxTypeOK, Goto, Fresh, db, locals, tx
  <1>1. ASSUME NEW j \in DOMAIN jobs, LoadJob(w, j) PROVE PagesInv'
    BY <1>1, NothingDeleted, Undisturbed DEF LoadJob, Clearing
  <1>2. ASSUME Leave(w), UNCHANGED <<pages, runs>> PROVE PagesInv'
    BY <1>2, Undisturbed DEF Leave, CloseTx, Clearing
  <1>3. CASE LockRow(w)
    BY <1>3, LockRowInv
  <1>4. CASE LoadDocument(w)
    <2>1. CASE target[w] \in deleted
      BY <1>2, <1>4, <2>1 DEF LoadDocument
    <2>2. CASE target[w] \notin deleted
      BY <1>4, <2>2, NothingDeleted, Undisturbed DEF LoadDocument, Clearing
    <2> QED
      BY <2>1, <2>2
  <1>5. CASE Start(w)
    BY <1>5, StartInv
  <1>6. CASE DeleteChunks(w)
    <2>1. pc[w] = "started" /\ pc'[w] = "deletingChunks"
      BY <1>6 DEF DeleteChunks
    <2>2. \A b \in Actors \ {w} : pc'[b] = pc[b] /\ rows'[b] = rows[b]
      BY <1>6 DEF DeleteChunks
    <2>3. UNCHANGED <<pages, runs, target, run, delP>>
      BY <1>6 DEF DeleteChunks
    <2> QED
      BY <2>1, <2>2, <2>3, NothingDeleted, Undisturbed DEF Clearing
  <1>7. CASE ChunksDeleted(w)
    BY <1>7, NothingDeleted, Undisturbed DEF ChunksDeleted, Clearing
  <1>8. CASE DeletePages(w) \/ PagesDeleted(w)
    BY <1>8, DeletePagesInv
  <1>9. ASSUME NEW layout \in Layouts, CommitParse(w, layout) PROVE PagesInv'
    <2>1. CASE Leave(w) /\ UNCHANGED <<pages, chunks>>
      BY <1>2, <1>9, <2>1 DEF CommitParse
    <2>2. CASE ~(Leave(w) /\ UNCHANGED <<pages, chunks>>)
      BY <1>9, <2>2, CommitParseInv DEF CommitParse
    <2> QED
      BY <2>1, <2>2
  <1>10. CASE ReadPages(w)
    BY <1>10, NothingDeleted, Undisturbed DEF ReadPages, Clearing
  <1>11. CASE CommitChunks(w)
    <2>1. CASE Leave(w)
      BY <1>2, <1>11, <2>1 DEF CommitChunks
    <2>2. CASE ~Leave(w)
      <3>1. /\ pc' = [pc EXCEPT ![w] = "chunked"] /\ CloseTx(w)
            /\ UNCHANGED <<pages, runs, target, run>>
        BY <1>11, <2>2 DEF CommitChunks
      <3> QED
        BY <3>1, Undisturbed DEF CloseTx, Clearing
    <2> QED
      BY <2>1, <2>2
  <1>12. CASE ReadChunks(w)
    BY <1>12, NothingDeleted, Undisturbed DEF ReadChunks, Clearing
  <1>13. CASE CommitEmbeddings(w)
    BY <1>13, Undisturbed DEF CommitEmbeddings, CloseTx, Clearing
  <1>14. CASE Finalize(w)
    BY <1>2, <1>14 DEF Finalize
  <1>15. CASE StageFails(w)
    BY <1>2, <1>15 DEF StageFails
  <1>16. CASE Crash(w)
    BY <1>2, <1>16 DEF Crash
  <1> QED
    BY <1>1, <1>3, <1>4, <1>5, <1>6, <1>7, <1>8, <1>9, <1>10, <1>11, <1>12, <1>13, <1>14,
       <1>15, <1>16 DEF RunStep, ClearStep

LEMMA RequestStepInv ==
    ASSUME NEW r \in Requests, TypeOK, PagesInv,
           \/ \E d \in Docs : OpenReprocess(r, d)
           \/ ReprocessStep(r) \/ AbortReprocess(r)
    PROVE  PagesInv'
  <1> r \in Actors /\ r \notin Workers
    BY PipelineAssumptions DEF Actors, ActorsAssumption
  <1> USE DEF TypeOK, LocalsTypeOK, TxTypeOK, Goto, db, locals, tx
  <1>1. ASSUME NEW d \in Docs, OpenReprocess(r, d) PROVE PagesInv'
    BY <1>1, NothingDeleted, Undisturbed DEF OpenReprocess
  <1>2. CASE DeleteChunks(r)
    <2>1. pc[r] = "started" /\ pc'[r] = "deletingChunks"
      BY <1>2 DEF DeleteChunks
    <2>2. \A b \in Actors \ {r} : pc'[b] = pc[b] /\ rows'[b] = rows[b]
      BY <1>2 DEF DeleteChunks
    <2>3. UNCHANGED <<pages, runs, target, run, delP>>
      BY <1>2 DEF DeleteChunks
    <2> QED
      BY <2>1, <2>2, <2>3, NothingDeleted, Undisturbed DEF Clearing
  <1>3. CASE ChunksDeleted(r)
    BY <1>3, NothingDeleted, Undisturbed DEF ChunksDeleted
  <1>4. CASE DeletePages(r) \/ PagesDeleted(r)
    BY <1>4, DeletePagesInv
  <1>5. CASE CommitReprocess(r)
    BY <1>5, CommitReprocessInv
  <1>6. CASE AbortReprocess(r)
    BY <1>6, Undisturbed DEF AbortReprocess, Leave, CloseTx
  <1>7. CASE LockRow(r)
    BY <1>7, LockRowInv
  <1> QED
    BY <1>1, <1>2, <1>3, <1>4, <1>5, <1>6, <1>7 DEF ReprocessStep, ClearStep

LEMMA PagesInvCorrect == Spec => [](TypeOK /\ PagesInv)
  <1>1. Init => PagesInv
    BY DEF Init, PagesInv, PagesOfOneRun, RunsInv, WaitInv, LockInv, Fresh, Clearing, Actors
  <1>2. TypeOK /\ PagesInv /\ [Next]_vars => PagesInv'
    <2> SUFFICES ASSUME TypeOK, PagesInv, [Next]_vars PROVE PagesInv'
      OBVIOUS
    <2>1. ASSUME UNCHANGED <<pages, runs, pc, target, run, rows, delP>> PROVE PagesInv'
      BY <2>1 DEF PagesInv, PagesOfOneRun, RunsInv, WaitInv, LockInv, PagesOf, Fresh
    <2>2. ASSUME NEW d \in Docs, CreateDocument(d) \/ SoftDelete(d) PROVE PagesInv'
      BY <2>1, <2>2 DEF CreateDocument, SoftDelete, locals, tx
    <2>3. CASE UNCHANGED vars
      BY <2>1, <2>3 DEF vars, db, locals, tx
    <2> QED
      BY <2>2, <2>3, RunStepInv, RequestStepInv DEF Next, Quiescent
  <1> QED
    BY <1>1, <1>2, TypeCorrect, PTL DEF Spec

\* However many workers and reprocess requests interleave, crash and fail, the
\* pages of a document come from one parse and are numbered without gaps.
THEOREM PagesCorrect == Spec => []PagesOfOneRun
  <1>1. PagesInv => PagesOfOneRun
    BY DEF PagesInv
  <1> QED
    BY <1>1, PagesInvCorrect, PTL

-----------------------------------------------------------------------------
(* The chunks of a run are all there, or all gone                            *)

\* A run that has not chunked its document yet.
Unchunked(w) == pc[w] \in {"started", "parsed", "pagesRead"} \cup Clearing

\* Of each run the identities in I are those of all its chunks in C, or of none.
WholeRuns(C, I) == \A c, e \in C : c.id.run = e.id.run => (c.id \in I <=> e.id \in I)

\* The identities in I are of runs that have started, and are past their chunking.
OfPastRuns(I) ==
    \A i \in I : /\ i.run \in 1..Len(runs)
                 /\ \A w \in Workers : Unchunked(w) => i.run # run[w]

\* What a transaction has deleted, or a DELETE is about to delete, are whole runs.
HoldsWhole(a) ==
    /\ WholeRuns(chunks, delC[a]) /\ OfPastRuns(delC[a])
    /\ pc[a] = "deletingChunks" => WholeRuns(chunks, rows[a]) /\ OfPastRuns(rows[a])

\* A run that has read the pages has read finitely many, of its document.
ReadsOneDoc(w) ==
    pc[w] = "pagesRead" => IsFiniteSet(rows[w]) /\ \A p \in rows[w] : p.doc = target[w]

\* Chunks have identities of their own, those of a run one document.
ChunkRowsInv ==
    /\ \A c, e \in chunks : c.id = e.id => c = e
    /\ \A c, e \in chunks : c.id.run = e.id.run => c.id.src.doc = e.id.src.doc
    /\ OfPastRuns(Ids(chunks))

WholeInv ==
    /\ RunsWhole /\ ChunkRowsInv /\ IsFiniteSet(pages)
    /\ \A a \in Actors : HoldsWhole(a)
    /\ \A w \in Workers : ReadsOneDoc(w)

\* Actor a moves.  Of the chunks those in D go and the others keep identity and
\* number; a run that starts has a number of its own.
LEMMA WholeStep ==
    ASSUME NEW a \in Actors, NEW D, TypeOK, WholeInv, WholeRuns(chunks, D),
           IsFiniteSet(pages'), Len(runs') \in Nat, Len(runs) <= Len(runs'),
           \A b \in Actors \ {a} : /\ pc'[b] = pc[b] /\ target'[b] = target[b]
                                   /\ rows'[b] = rows[b] /\ delC'[b] = delC[b],
           \A w \in Workers : Unchunked(w)' =>
             run'[w] = Len(runs) + 1 \/ (Unchunked(w) /\ run'[w] = run[w]),
           \A c \in chunks' : c.id \notin D /\ \E e \in chunks : e.id = c.id /\ e.pos = c.pos,
           \A c, e \in chunks' : c.id = e.id => c = e,
           \A e \in chunks : e.id \notin D => \E c \in chunks' : c.id = e.id /\ c.pos = e.pos,
           delC'[a] = {} \/ (WholeRuns(chunks, delC'[a]) /\ OfPastRuns(delC'[a])),
           pc'[a] = "deletingChunks" => WholeRuns(chunks, rows'[a]) /\ OfPastRuns(rows'[a]),
           a \in Workers => ReadsOneDoc(a)'
    PROVE  WholeInv'
  <1>1. ASSUME NEW I, OfPastRuns(I) PROVE OfPastRuns(I)'
    <2> SUFFICES ASSUME NEW i \in I
                 PROVE  /\ i.run \in 1..Len(runs')
                        /\ \A w \in Workers : Unchunked(w)' => i.run # run'[w]
      BY DEF OfPastRuns
    <2>1. i.run \in 1..Len(runs) /\ \A w \in Workers : Unchunked(w) => i.run # run[w]
      BY <1>1 DEF OfPastRuns
    <2>2. Len(runs) \in Nat
      BY DEF TypeOK, DbTypeOK
    <2> QED
      BY <2>1, <2>2
  <1>2. ASSUME NEW I, WholeRuns(chunks, I) PROVE WholeRuns(chunks', I)
    BY <1>2 DEF WholeRuns
  <1>3. RunsWhole'
    <2> SUFFICES ASSUME NEW c \in chunks'
                 PROVE  /\ \A e \in chunks' : e.id.run = c.id.run /\ e.pos = c.pos => e = c
                        /\ \A n \in 0..c.pos : \E e \in chunks' : e.id.run = c.id.run /\ e.pos = n
                        /\ \A k \in 1..c.id.src.size :
                             \E e \in chunks' : e.id = [c.id EXCEPT !.k = k]
      BY DEF RunsWhole
    <2>1. PICK c0 \in chunks : c0.id = c.id /\ c0.pos = c.pos /\ c0.id \notin D
      OBVIOUS
    <2>2. /\ \A e \in chunks : e.id.run = c.id.run /\ e.pos = c.pos => e = c0
          /\ \A n \in 0..c.pos : \E e \in chunks : e.id.run = c.id.run /\ e.pos = n
          /\ \A k \in 1..c.id.src.size : \E e \in chunks : e.id = [c.id EXCEPT !.k = k]
      BY <2>1 DEF WholeInv, RunsWhole
    <2>3. \A e \in chunks : e.id.run = c.id.run =>
            \E f \in chunks' : f.id = e.id /\ f.pos = e.pos
      BY <2>1 DEF WholeRuns
    <2>4. \A k : [c.id EXCEPT !.k = k].run = c.id.run
      <3>1. c.id \in ChunkId
        BY <2>1 DEF TypeOK, DbTypeOK, ChunkRow
      <3> QED
        BY <3>1 DEF ChunkId
    <2>5. ASSUME NEW e \in chunks', e.id.run = c.id.run, e.pos = c.pos PROVE e = c
      <3>1. PICK e0 \in chunks : e0.id = e.id /\ e0.pos = e.pos
        OBVIOUS
      <3>2. e0 = c0
        BY <2>2, <2>5, <3>1
      <3> QED
        BY <2>1, <3>1, <3>2
    <2>6. ASSUME NEW n \in 0..c.pos PROVE \E e \in chunks' : e.id.run = c.id.run /\ e.pos = n
      BY <2>2, <2>3
    <2>7. ASSUME NEW k \in 1..c.id.src.size PROVE \E e \in chunks' : e.id = [c.id EXCEPT !.k = k]
      <3>1. PICK e \in chunks : e.id = [c.id EXCEPT !.k = k]
        BY <2>2
      <3>2. e.id.run = c.id.run
        BY <2>4, <3>1
      <3>3. PICK f \in chunks' : f.id = e.id
        BY <2>3, <3>2
      <3> QED
        BY <3>1, <3>3
    <2> QED
      BY <2>5, <2>6, <2>7
  <1>4. ChunkRowsInv'
    <2>1. Ids(chunks') \subseteq Ids(chunks)
      BY DEF Ids
    <2>2. OfPastRuns(Ids(chunks'))
      BY <2>1 DEF WholeInv, ChunkRowsInv, OfPastRuns
    <2>3. \A c, e \in chunks' : c.id.run = e.id.run => c.id.src.doc = e.id.src.doc
      BY DEF WholeInv, ChunkRowsInv
    <2>4. OfPastRuns(Ids(chunks))'
      BY <1>1, <2>2 DEF Ids
    <2> QED
      BY <2>3, <2>4 DEF ChunkRowsInv
  <1>5. ASSUME NEW b \in Actors PROVE HoldsWhole(b)'
    <2>1. WholeRuns(chunks, {}) /\ OfPastRuns({})
      BY DEF WholeRuns, OfPastRuns
    <2>2. /\ WholeRuns(chunks, delC'[b]) /\ OfPastRuns(delC'[b])
          /\ pc'[b] = "deletingChunks" => WholeRuns(chunks, rows'[b]) /\ OfPastRuns(rows'[b])
      <3>1. CASE b = a
        BY <2>1, <3>1
      <3>2. CASE b # a
        BY <3>2 DEF WholeInv, HoldsWhole
      <3> QED
        BY <3>1, <3>2
    <2>3. PICK I, J : I = delC'[b] /\ J = rows'[b]
      OBVIOUS
    <2>4. WholeRuns(chunks', I) /\ OfPastRuns(I)'
      BY <1>1, <1>2, <2>2, <2>3
    <2>5. pc'[b] = "deletingChunks" => WholeRuns(chunks', J) /\ OfPastRuns(J)'
      BY <1>1, <1>2, <2>2, <2>3
    <2> QED
      BY <2>3, <2>4, <2>5 DEF HoldsWhole, OfPastRuns, WholeRuns
  <1>6. ASSUME NEW w \in Workers PROVE ReadsOneDoc(w)'
    BY DEF WholeInv, ReadsOneDoc, Actors
  <1> QED
    BY <1>3, <1>4, <1>5, <1>6 DEF WholeInv

\* The same where no chunk changes.
LEMMA WholeMoves ==
    ASSUME NEW a \in Actors, TypeOK, WholeInv, UNCHANGED <<chunks, runs>>, IsFiniteSet(pages'),
           \A b \in Actors \ {a} : /\ pc'[b] = pc[b] /\ target'[b] = target[b]
                                   /\ rows'[b] = rows[b] /\ delC'[b] = delC[b],
           \A w \in Workers : Unchunked(w)' => Unchunked(w) /\ run'[w] = run[w],
           delC'[a] = {} \/ (WholeRuns(chunks, delC'[a]) /\ OfPastRuns(delC'[a])),
           pc'[a] = "deletingChunks" => WholeRuns(chunks, rows'[a]) /\ OfPastRuns(rows'[a]),
           a \in Workers => ReadsOneDoc(a)'
    PROVE  WholeInv'
  <1>1. WholeRuns(chunks, {}) /\ Len(runs) \in Nat
    BY DEF WholeRuns, TypeOK, DbTypeOK
  <1>2. \A c, e \in chunks' : c.id = e.id => c = e
    BY DEF WholeInv, ChunkRowsInv
  <1>3. /\ \A c \in chunks' : c.id \notin {} /\ \E e \in chunks : e.id = c.id /\ e.pos = c.pos
        /\ \A e \in chunks : e.id \notin {} => \E c \in chunks' : c.id = e.id /\ c.pos = e.pos
    OBVIOUS
  <1> QED
    BY <1>1, <1>2, <1>3, WholeStep

\* The DELETE of the chunks takes whole runs, whatever it has waited for.
LEMMA ClearStepWhole ==
    ASSUME NEW a \in Actors, TypeOK, WholeInv, ClearStep(a)
    PROVE  WholeInv'
  <1> DEFINE ids == Ids(ChunksOf(target[a]))
  <1>1. UNCHANGED <<chunks, pages, runs, target, run>>
    BY DEF ClearStep, DeleteChunks, ChunksDeleted, DeletePages, PagesDeleted, db, locals
  <1>2. /\ pc \in [Actors -> PC] /\ delC \in [Actors -> SUBSET ChunkId]
        /\ rows \in [Actors -> SUBSET (PageRow \cup ChunkId)]
    BY DEF TypeOK, LocalsTypeOK, TxTypeOK
  <1>3. /\ \A b \in Actors \ {a} : /\ pc'[b] = pc[b] /\ rows'[b] = rows[b]
                                   /\ delC'[b] = delC[b]
        /\ pc[a] \in {"started"} \cup Clearing /\ pc'[a] \in Clearing
    BY <1>2 DEF ClearStep, DeleteChunks, ChunksDeleted, DeletePages, PagesDeleted,
                Goto, Clearing
  <1>4. \A w \in Workers : Unchunked(w)' => Unchunked(w) /\ run'[w] = run[w]
    BY <1>1, <1>3 DEF Unchunked, Actors
  <1>5. a \in Workers => ReadsOneDoc(a)'
    BY <1>3 DEF ReadsOneDoc, Clearing
  <1>6. WholeRuns(chunks, ids) /\ OfPastRuns(ids)
    BY DEF WholeInv, ChunkRowsInv, WholeRuns, OfPastRuns, Ids, ChunksOf
  <1>7. HoldsWhole(a) /\ IsFiniteSet(pages)
    BY DEF WholeInv
  <1>8. /\ WholeRuns(chunks, delC'[a]) /\ OfPastRuns(delC'[a])
        /\ pc'[a] = "deletingChunks" => WholeRuns(chunks, rows'[a]) /\ OfPastRuns(rows'[a])
    <2>1. CASE DeleteChunks(a)
      <3>1. /\ rows' = [rows EXCEPT ![a] = ids] /\ UNCHANGED delC
            /\ pc' = [pc EXCEPT ![a] = "deletingChunks"]
        BY <2>1 DEF DeleteChunks, Goto
      <3> HIDE DEF ids
      <3> QED
        BY <1>2, <1>6, <1>7, <3>1 DEF HoldsWhole
    <2>2. CASE ChunksDeleted(a)
      <3>1. /\ pc[a] = "deletingChunks" /\ pc'[a] = "clearedChunks"
            /\ delC'[a] = rows[a] \cap Ids(chunks)
        BY <1>2, <2>2 DEF ChunksDeleted, Goto
      <3>2. WholeRuns(chunks, rows[a]) /\ OfPastRuns(rows[a])
        BY <1>7, <3>1 DEF HoldsWhole
      <3>3. \A c \in chunks : c.id \in Ids(chunks)
        BY DEF Ids
      <3>4. WholeRuns(chunks, rows[a] \cap Ids(chunks)) /\ OfPastRuns(rows[a] \cap Ids(chunks))
        BY <3>2, <3>3 DEF WholeRuns, OfPastRuns
      <3> QED
        BY <3>1, <3>4
    <2>3. CASE DeletePages(a) \/ PagesDeleted(a)
      <3>1. pc'[a] # "deletingChunks" /\ delC'[a] = delC[a]
        BY <1>2, <2>3 DEF DeletePages, PagesDeleted, Goto
      <3> QED
        BY <1>7, <3>1 DEF HoldsWhole
    <2> QED
      BY <2>1, <2>2, <2>3 DEF ClearStep
  <1> HIDE DEF ids
  <1> QED
    BY <1>1, <1>3, <1>4, <1>5, <1>7, <1>8, WholeMoves

\* A run inserts all of its chunks at once, under a number no chunk has.
LEMMA InsertWhole ==
    ASSUME NEW w \in Workers, NEW pos \in Numberings(IdsFrom(w)),
           TypeOK, PagesInv, WholeInv, pc[w] = "pagesRead",
           chunks' = chunks \cup {[id |-> i, pos |-> pos[i], linked |-> TRUE,
                                   embedded |-> FALSE] : i \in IdsFrom(w)},
           Goto(w, "chunked"), CloseTx(w), UNCHANGED <<pages, target, run, runs>>
    PROVE  WholeInv'
  <1> w \in Actors
    BY DEF Actors
  <1> DEFINE row(i) == [id |-> i, pos |-> pos[i], linked |-> TRUE, embedded |-> FALSE]
             new    == {row(i) : i \in IdsFrom(w)}
  <1>1. /\ pc' = [pc EXCEPT ![w] = "chunked"] /\ pc \in [Actors -> PC]
        /\ rows' = [rows EXCEPT ![w] = {}] /\ delC' = [delC EXCEPT ![w] = {}]
        /\ rows \in [Actors -> SUBSET (PageRow \cup ChunkId)]
        /\ delC \in [Actors -> SUBSET ChunkId] /\ run \in [Workers -> Nat]
        /\ Len(runs) \in Nat
    BY DEF Goto, CloseTx, TypeOK, DbTypeOK, LocalsTypeOK, TxTypeOK
  <1>2. /\ IsFiniteSet(rows[w]) /\ \A p \in rows[w] : p.doc = target[w]
        /\ Unchunked(w)
    BY DEF WholeInv, ReadsOneDoc, Unchunked
  <1>3. /\ \A i \in IdsFrom(w) : /\ i.run = run[w] /\ i.src.doc = target[w]
                                 /\ \A k \in 1..i.src.size : [i EXCEPT !.k = k] \in IdsFrom(w)
        /\ \A i, j \in IdsFrom(w) : pos[i] = pos[j] => i = j
        /\ \A i \in IdsFrom(w) : \A n \in 0..pos[i] : \E j \in IdsFrom(w) : pos[j] = n
    <2>1. ASSUME NEW i \in IdsFrom(w), NEW k \in 1..i.src.size
          PROVE  [i EXCEPT !.k = k] \in IdsFrom(w)
      <3>1. i.src \in rows[w] /\ i = [run |-> run[w], src |-> i.src, k |-> i.k]
        BY IdsOfRun
      <3>2. [i EXCEPT !.k = k] = [run |-> run[w], src |-> i.src, k |-> k]
        BY <3>1
      <3> QED
        BY <3>1, <3>2 DEF IdsFrom
    <2> QED
      BY <1>2, <2>1, IdsOfRun, IdsFinite, NumbersWithoutGap
  <1>4. /\ \A c \in new : c.id \in IdsFrom(w) /\ c = row(c.id) /\ c.pos = pos[c.id]
        /\ \A i \in IdsFrom(w) : row(i) \in new /\ row(i).pos = pos[i] /\ row(i).id = i
    <2>1. \A i : row(i).id = i /\ row(i).pos = pos[i]
      OBVIOUS
    <2> HIDE DEF row
    <2> QED
      BY <2>1
  <1>5. chunks' = chunks \cup new
    OBVIOUS
  <1> HIDE DEF row, new
  <1>6. \A c \in new : c.id.run = run[w] /\ c.id.src.doc = target[w]
    BY <1>3, <1>4
  <1>7. \A c \in chunks : c.id.run # run[w]
    BY <1>2 DEF WholeInv, ChunkRowsInv, OfPastRuns, Ids
  <1>8. RunsWhole'
    <2> SUFFICES ASSUME NEW c \in chunks'
                 PROVE  /\ \A e \in chunks' : e.id.run = c.id.run /\ e.pos = c.pos => e = c
                        /\ \A n \in 0..c.pos : \E e \in chunks' : e.id.run = c.id.run /\ e.pos = n
                        /\ \A k \in 1..c.id.src.size :
                             \E e \in chunks' : e.id = [c.id EXCEPT !.k = k]
      BY DEF RunsWhole
    <2>1. CASE c \in chunks
      <3>1. \A e \in chunks' : e.id.run = c.id.run => e \in chunks
        BY <1>5, <1>6, <1>7, <2>1
      <3>2. chunks \subseteq chunks'
        BY <1>5
      <3> QED
        BY <2>1, <3>1, <3>2 DEF WholeInv, RunsWhole
    <2>2. CASE c \in new
      <3>1. \A e \in chunks' : e.id.run = c.id.run => e \in new
        BY <1>5, <1>6, <1>7, <2>2
      <3>2. ASSUME NEW e \in new, e.pos = c.pos PROVE e = c
        <4>1. e.id = c.id
          BY <1>3, <1>4, <2>2, <3>2
        <4> QED
          BY <1>4, <2>2, <4>1
      <3>3. ASSUME NEW n \in 0..c.pos PROVE \E e \in new : e.id.run = c.id.run /\ e.pos = n
        <4>1. PICK j \in IdsFrom(w) : pos[j] = n
          BY <1>3, <1>4, <2>2
        <4>2. row(j) \in new /\ row(j).pos = n
          BY <1>4, <4>1
        <4> QED
          BY <1>6, <2>2, <4>2
      <3>4. ASSUME NEW k \in 1..c.id.src.size PROVE \E e \in new : e.id = [c.id EXCEPT !.k = k]
        <4>1. [c.id EXCEPT !.k = k] \in IdsFrom(w)
          BY <1>3, <1>4, <2>2
        <4> QED
          BY <1>4, <4>1
      <3> QED
        BY <1>5, <3>1, <3>2, <3>3, <3>4
    <2> QED
      BY <1>5, <2>1, <2>2
  <1>9. \A v \in Workers : /\ Unchunked(v)' => Unchunked(v) /\ v # w
                           /\ v # w => run[v] # run[w]
    <2>1. run[w] # 0
      BY DEF TypeOK, BusyOK
    <2>2. \A v \in Workers : v # w => run[v] # run[w]
      BY <2>1 DEF PagesInv, RunsInv
    <2> QED
      BY <1>1, <2>2 DEF Unchunked, Clearing, Actors
  <1>10. ASSUME NEW I, OfPastRuns(I)
         PROVE  OfPastRuns(I)' /\ (WholeRuns(chunks, I) => WholeRuns(chunks', I))
    <2>1. \A i \in I : i.run # run[w]
      BY <1>2, <1>10 DEF OfPastRuns
    <2>2. OfPastRuns(I)'
      BY <1>9, <1>10 DEF OfPastRuns
    <2>3. ASSUME WholeRuns(chunks, I) PROVE WholeRuns(chunks', I)
      <3>1. \A c \in new : c.id \notin I
        BY <1>6, <2>1
      <3> QED
        BY <1>5, <1>6, <1>7, <2>3, <3>1 DEF WholeRuns
    <2> QED
      BY <2>2, <2>3
  <1>11. ChunkRowsInv'
    <2>1. \A c, e \in chunks' : c.id = e.id => c = e
      <3>1. \A c, e \in new : c.id = e.id => c = e
        BY <1>4
      <3> QED
        BY <1>5, <1>6, <1>7, <3>1 DEF WholeInv, ChunkRowsInv
    <2>2. \A c, e \in chunks' : c.id.run = e.id.run => c.id.src.doc = e.id.src.doc
      BY <1>5, <1>6, <1>7 DEF WholeInv, ChunkRowsInv
    <2>3. ASSUME NEW c \in chunks'
          PROVE  /\ c.id.run \in 1..Len(runs)
                 /\ \A v \in Workers : Unchunked(v)' => c.id.run # run[v]
      <3>1. CASE c \in chunks
        BY <1>9, <3>1 DEF WholeInv, ChunkRowsInv, OfPastRuns, Ids
      <3>2. CASE c \in new
        <4>1. run[w] \in 1..Len(runs)
          BY <1>1 DEF PagesInv, RunsInv, TypeOK, BusyOK
        <4> QED
          BY <1>6, <1>9, <3>2, <4>1
      <3> QED
        BY <1>5, <2>3, <3>1, <3>2
    <2>4. OfPastRuns(Ids(chunks))'
      BY <2>3 DEF OfPastRuns, Ids
    <2> QED
      BY <2>1, <2>2, <2>4 DEF ChunkRowsInv
  <1>12. ASSUME NEW b \in Actors PROVE HoldsWhole(b)'
    <2>1. CASE b = w
      BY <1>1, <2>1 DEF HoldsWhole, WholeRuns, OfPastRuns
    <2>2. CASE b # w
      <3>1. PICK I, J : I = delC[b] /\ J = rows[b]
        OBVIOUS
      <3>2. /\ WholeRuns(chunks, I) /\ OfPastRuns(I)
            /\ pc[b] = "deletingChunks" => WholeRuns(chunks, J) /\ OfPastRuns(J)
        BY <3>1 DEF WholeInv, HoldsWhole
      <3>3. /\ WholeRuns(chunks', I) /\ OfPastRuns(I)'
            /\ pc[b] = "deletingChunks" => WholeRuns(chunks', J) /\ OfPastRuns(J)'
        BY <1>10, <3>2
      <3>4. delC'[b] = I /\ rows'[b] = J /\ pc'[b] = pc[b]
        BY <1>1, <2>2, <3>1
      <3> QED
        BY <3>3, <3>4 DEF HoldsWhole, OfPastRuns, WholeRuns
    <2> QED
      BY <2>1, <2>2
  <1>13. ASSUME NEW v \in Workers PROVE ReadsOneDoc(v)'
    BY <1>1 DEF WholeInv, ReadsOneDoc, Actors
  <1>14. IsFiniteSet(pages')
    BY DEF WholeInv
  <1> QED
    BY <1>8, <1>11, <1>12, <1>13, <1>14 DEF WholeInv

\* The steps of a run.
LEMMA RunStepWhole ==
    ASSUME NEW w \in Workers, TypeOK, PagesInv, WholeInv,
           \/ \E j \in DOMAIN jobs : LoadJob(w, j)
           \/ RunStep(w) \/ StageFails(w) \/ Crash(w)
    PROVE  WholeInv'
  <1> w \in Actors
    BY DEF Actors
  <1>1. /\ pc \in [Actors -> PC] /\ target \in [Actors -> Docs \cup {NoDoc}]
        /\ run \in [Workers -> Nat] /\ rows \in [Actors -> SUBSET (PageRow \cup ChunkId)]
        /\ delC \in [Actors -> SUBSET ChunkId] /\ Len(runs) \in Nat
    BY DEF TypeOK, DbTypeOK, LocalsTypeOK, TxTypeOK
  <1>2. /\ IsFiniteSet(pages) /\ \A c, e \in chunks : c.id = e.id => c = e
        /\ WholeRuns(chunks, delC[w]) /\ OfPastRuns(delC[w]) /\ WholeRuns(chunks, {})
    BY DEF WholeInv, ChunkRowsInv, HoldsWhole, WholeRuns
  <1>3. ASSUME UNCHANGED <<chunks, pages, runs, delC>>, pc'[w] \notin {"deletingChunks", "pagesRead"},
               \A b \in Actors \ {w} : /\ pc'[b] = pc[b] /\ target'[b] = target[b]
                                       /\ rows'[b] = rows[b],
               \A v \in Workers : Unchunked(v)' => Unchunked(v) /\ run'[v] = run[v]
        PROVE  WholeInv'
    BY <1>2, <1>3, WholeMoves DEF ReadsOneDoc
  <1>4. ASSUME Leave(w), UNCHANGED <<chunks, pages, runs>> PROVE WholeInv'
    BY <1>1, <1>2, <1>4, WholeMoves
       DEF Leave, CloseTx, Goto, Unchunked, Clearing, ReadsOneDoc, Actors
  <1>5. CASE LockRow(w)
    BY <1>5 DEF LockRow, db, locals, WholeInv, RunsWhole, ChunkRowsInv, HoldsWhole, ReadsOneDoc,
                WholeRuns, OfPastRuns, Unchunked, Ids
  <1>6. ASSUME NEW j \in DOMAIN jobs, LoadJob(w, j) PROVE WholeInv'
    BY <1>1, <1>3, <1>6 DEF LoadJob, Goto, Unchunked, Clearing, db, tx, Actors
  <1>7. CASE LoadDocument(w)
    <2>1. CASE target[w] \in deleted
      BY <1>4, <1>7, <2>1 DEF LoadDocument, db
    <2>2. CASE target[w] \notin deleted
      BY <1>1, <1>3, <1>7, <2>2 DEF LoadDocument, Goto, Unchunked, Clearing, db, tx, Actors
    <2> QED
      BY <2>1, <2>2
  <1>8. CASE Start(w)
    <2>1. /\ UNCHANGED <<chunks, pages, target, rows, delC>>
          /\ run' = [run EXCEPT ![w] = Len(runs) + 1]
          /\ pc[w] = "loaded" /\ pc' = [pc EXCEPT ![w] = "started"]
          /\ Len(runs') = Len(runs) + 1
      BY <1>1, <1>8 DEF Start, Goto, tx, TypeOK, DbTypeOK
    <2>2. \A v \in Workers : Unchunked(v)' =>
            run'[v] = Len(runs) + 1 \/ (Unchunked(v) /\ run'[v] = run[v])
      BY <1>1, <2>1 DEF Unchunked, Actors
    <2>3. /\ \A c \in chunks' : c.id \notin {} /\ \E e \in chunks : e.id = c.id /\ e.pos = c.pos
          /\ \A c, e \in chunks' : c.id = e.id => c = e
          /\ \A e \in chunks : e.id \notin {} => \E c \in chunks' : c.id = e.id /\ c.pos = e.pos
      BY <1>2, <2>1
    <2>4. /\ \A b \in Actors \ {w} : /\ pc'[b] = pc[b] /\ target'[b] = target[b]
                                     /\ rows'[b] = rows[b] /\ delC'[b] = delC[b]
          /\ delC'[w] = delC[w] /\ pc'[w] = "started" /\ IsFiniteSet(pages')
          /\ Len(runs') \in Nat /\ Len(runs) <= Len(runs')
      BY <1>1, <1>2, <2>1
    <2>5. ReadsOneDoc(w)'
      BY <2>4 DEF ReadsOneDoc
    <2> QED
      BY <1>2, <2>2, <2>3, <2>4, <2>5, WholeStep
  <1>9. CASE ClearStep(w)
    BY <1>9, ClearStepWhole
  <1>10. ASSUME NEW D, WholeRuns(chunks, D), IsFiniteSet(pages'), UNCHANGED <<target, run, runs>>,
                \A c \in chunks' : c.id \notin D /\ \E e \in chunks : e.id = c.id /\ e.pos = c.pos,
                \A c, e \in chunks' : c.id = e.id => c = e,
                \A e \in chunks : e.id \notin D => \E c \in chunks' : c.id = e.id /\ c.pos = e.pos,
                CloseTx(w), \A b \in Actors \ {w} : pc'[b] = pc[b],
                pc'[w] \notin {"deletingChunks", "pagesRead"}, Unchunked(w)' => Unchunked(w)
         PROVE  WholeInv'
    <2>1. /\ \A b \in Actors \ {w} : /\ pc'[b] = pc[b] /\ target'[b] = target[b]
                                     /\ rows'[b] = rows[b] /\ delC'[b] = delC[b]
          /\ delC'[w] = {}
      BY <1>1, <1>10 DEF CloseTx
    <2>2. \A v \in Workers : Unchunked(v)' => Unchunked(v) /\ run'[v] = run[v]
      BY <1>10, <2>1 DEF Unchunked, Actors
    <2>3. ReadsOneDoc(w)'
      BY <1>10, <2>1 DEF ReadsOneDoc
    <2> QED
      BY <1>1, <1>10, <2>1, <2>2, <2>3, WholeStep
  <1>11. ASSUME NEW layout \in Layouts, CommitParse(w, layout) PROVE WholeInv'
    <2>1. CASE Leave(w) /\ UNCHANGED <<pages, chunks>>
      BY <1>4, <1>11, <2>1 DEF CommitParse
    <2>2. CASE ~(Leave(w) /\ UNCHANGED <<pages, chunks>>)
      <3>1. /\ pc[w] = "cleared" /\ pc' = [pc EXCEPT ![w] = "parsed"] /\ CloseTx(w)
            /\ pages' = KeptPages(w) \cup PagesFrom(w, layout) /\ chunks' = KeptChunks(w)
            /\ UNCHANGED <<target, run, runs>>
        BY <1>11, <2>2 DEF CommitParse, Goto, locals
      <3>2. IsFiniteSet(pages')
        BY <1>2, <3>1, PagesStayFinite
      <3>3. /\ \A c \in chunks' : /\ c.id \notin delC[w]
                                  /\ \E e \in chunks : e.id = c.id /\ e.pos = c.pos
            /\ \A c, e \in chunks' : c.id = e.id => c = e
            /\ \A e \in chunks : e.id \notin delC[w] =>
                 \E c \in chunks' : c.id = e.id /\ c.pos = e.pos
        BY <1>2, <3>1, KeptRows
      <3>4. /\ Unchunked(w) /\ pc'[w] = "parsed"
            /\ \A b \in Actors \ {w} : pc'[b] = pc[b]
        BY <1>1, <3>1 DEF Unchunked, Clearing
      <3> QED
        BY <1>2, <1>10, <3>1, <3>2, <3>3, <3>4
    <2> QED
      BY <2>1, <2>2
  <1>12. CASE ReadPages(w)
    <2>1. /\ UNCHANGED <<chunks, pages, runs, target, run, delC>>
          /\ pc[w] = "parsed" /\ pc' = [pc EXCEPT ![w] = "pagesRead"]
          /\ rows' = [rows EXCEPT ![w] = PagesOf(target[w])]
      BY <1>12 DEF ReadPages, Goto, db, locals
    <2>2. IsFiniteSet(PagesOf(target[w])) /\ \A p \in PagesOf(target[w]) : p.doc = target[w]
      BY <1>2, FS_Subset DEF PagesOf
    <2>3. ReadsOneDoc(w)'
      BY <1>1, <2>1, <2>2 DEF ReadsOneDoc
    <2>4. \A v \in Workers : Unchunked(v)' => Unchunked(v) /\ run'[v] = run[v]
      BY <1>1, <2>1 DEF Unchunked, Actors
    <2> QED
      BY <1>1, <1>2, <2>1, <2>3, <2>4, WholeMoves
  <1>13. CASE CommitChunks(w)
    <2>1. /\ pc[w] = "pagesRead" /\ UNCHANGED <<pages, runs>>
          /\ \/ Leave(w) /\ UNCHANGED chunks
             \/ \E pos \in Numberings(IdsFrom(w)) :
                  /\ chunks' = chunks \cup {[id |-> i, pos |-> pos[i], linked |-> TRUE,
                                             embedded |-> FALSE] : i \in IdsFrom(w)}
                  /\ Goto(w, "chunked") /\ CloseTx(w) /\ UNCHANGED <<target, run>>
      BY <1>13 DEF CommitChunks
    <2> QED
      BY <1>4, <2>1, InsertWhole
  <1>14. CASE ReadChunks(w)
    <2>1. /\ UNCHANGED <<chunks, pages, runs, target, run, delC>>
          /\ pc[w] = "chunked" /\ pc' = [pc EXCEPT ![w] = "chunksRead"]
          /\ \A b \in Actors \ {w} : rows'[b] = rows[b]
      BY <1>1, <1>14 DEF ReadChunks, Goto, db, locals
    <2> QED
      BY <1>1, <1>3, <2>1 DEF Unchunked, Clearing, Actors
  <1>15. CASE CommitEmbeddings(w)
    <2>1. /\ pc[w] = "chunksRead" /\ pc' = [pc EXCEPT ![w] = "embedded"] /\ CloseTx(w)
          /\ chunks' = {[c EXCEPT !.embedded = @ \/ c.id \in rows[w]] : c \in chunks}
          /\ UNCHANGED <<pages, target, run, runs>>
      BY <1>15 DEF CommitEmbeddings, Goto
    <2>2. /\ \A c \in chunks' : \E e \in chunks : e.id = c.id /\ e.pos = c.pos
          /\ \A c, e \in chunks' : c.id = e.id => c = e
          /\ \A e \in chunks : \E c \in chunks' : c.id = e.id /\ c.pos = e.pos
      BY <1>2, <2>1, EmbeddedRows
    <2>3. PICK D : D = {}
      OBVIOUS
    <2>4. /\ \A c \in chunks' : c.id \notin D /\ \E e \in chunks : e.id = c.id /\ e.pos = c.pos
          /\ \A e \in chunks : e.id \notin D => \E c \in chunks' : c.id = e.id /\ c.pos = e.pos
      BY <2>2, <2>3
    <2>5. /\ ~Unchunked(w)' /\ IsFiniteSet(pages') /\ pc'[w] = "embedded"
          /\ \A b \in Actors \ {w} : pc'[b] = pc[b]
      BY <1>1, <1>2, <2>1 DEF Unchunked, Clearing
    <2>6. WholeRuns(chunks, D)
      BY <1>2, <2>3
    <2> QED
      BY <1>10, <2>1, <2>2, <2>4, <2>5, <2>6
  <1>16. CASE Finalize(w)
    BY <1>4, <1>16 DEF Finalize
  <1>17. CASE StageFails(w)
    BY <1>4, <1>17 DEF StageFails, db
  <1>18. CASE Crash(w)
    BY <1>4, <1>18 DEF Crash, db
  <1> QED
    BY <1>5, <1>6, <1>7, <1>8, <1>9, <1>11, <1>12, <1>13, <1>14, <1>15, <1>16, <1>17, <1>18
       DEF RunStep

\* The API requests.
LEMMA RequestStepWhole ==
    ASSUME NEW r \in Requests, TypeOK, WholeInv,
           \/ \E d \in Docs : OpenReprocess(r, d)
           \/ ReprocessStep(r) \/ AbortReprocess(r)
    PROVE  WholeInv'
  <1> r \in Actors /\ r \notin Workers
    BY PipelineAssumptions DEF Actors, ActorsAssumption
  <1>1. /\ pc \in [Actors -> PC] /\ target \in [Actors -> Docs \cup {NoDoc}]
        /\ rows \in [Actors -> SUBSET (PageRow \cup ChunkId)]
        /\ delC \in [Actors -> SUBSET ChunkId] /\ Len(runs) \in Nat
    BY DEF TypeOK, DbTypeOK, LocalsTypeOK, TxTypeOK
  <1>2. /\ IsFiniteSet(pages) /\ \A c, e \in chunks : c.id = e.id => c = e
        /\ WholeRuns(chunks, delC[r]) /\ OfPastRuns(delC[r])
    BY DEF WholeInv, ChunkRowsInv, HoldsWhole
  <1>3. ASSUME NEW d \in Docs, OpenReprocess(r, d) PROVE WholeInv'
    <2>1. /\ UNCHANGED <<chunks, pages, runs, run, rows, delC>>
          /\ pc' = [pc EXCEPT ![r] = "started"] /\ target' = [target EXCEPT ![r] = d]
      BY <1>3 DEF OpenReprocess, Goto, db, tx
    <2>2. \A w \in Workers : Unchunked(w)' => Unchunked(w) /\ run'[w] = run[w]
      BY <1>1, <2>1 DEF Unchunked, Actors
    <2> QED
      BY <1>1, <1>2, <2>1, <2>2, WholeMoves
  <1>4. CASE ClearStep(r)
    BY <1>4, ClearStepWhole
  <1>5. ASSUME Leave(r), UNCHANGED runs
        PROVE  /\ \A b \in Actors \ {r} : /\ pc'[b] = pc[b] /\ target'[b] = target[b]
                                          /\ rows'[b] = rows[b] /\ delC'[b] = delC[b]
               /\ delC'[r] = {} /\ pc'[r] = "idle"
               /\ \A w \in Workers : Unchunked(w)' => Unchunked(w) /\ run'[w] = run[w]
    BY <1>1, <1>5 DEF Leave, CloseTx, Goto, Unchunked, Actors
  <1>6. CASE CommitReprocess(r)
    <2>1. /\ pages' = KeptPages(r) /\ chunks' = KeptChunks(r) /\ Leave(r) /\ UNCHANGED runs
      BY <1>6 DEF CommitReprocess
    <2>2. IsFiniteSet(pages')
      BY <1>2, <2>1, FS_Subset DEF KeptPages
    <2>3. /\ \A c \in chunks' : /\ c.id \notin delC[r]
                                /\ \E e \in chunks : e.id = c.id /\ e.pos = c.pos
          /\ \A c, e \in chunks' : c.id = e.id => c = e
          /\ \A e \in chunks : e.id \notin delC[r] =>
               \E c \in chunks' : c.id = e.id /\ c.pos = e.pos
      BY <1>2, <2>1, KeptRows
    <2> QED
      BY <1>1, <1>2, <1>5, <2>1, <2>2, <2>3, WholeStep
  <1>7. CASE AbortReprocess(r)
    <2>1. Leave(r) /\ UNCHANGED <<chunks, pages, runs>>
      BY <1>7 DEF AbortReprocess, db
    <2> QED
      BY <1>2, <1>5, <2>1, WholeMoves
  <1>8. CASE LockRow(r)
    BY <1>8 DEF LockRow, db, locals, WholeInv, RunsWhole, ChunkRowsInv, HoldsWhole, ReadsOneDoc,
                WholeRuns, OfPastRuns, Unchunked, Ids
  <1> QED
    BY <1>3, <1>4, <1>6, <1>7, <1>8 DEF ReprocessStep

\* The invariant holds.
LEMMA WholeInvCorrect == Spec => [](TypeOK /\ PagesInv /\ WholeInv)
  <1>1. Init => WholeInv
    <2> SUFFICES ASSUME Init PROVE WholeInv
      OBVIOUS
    <2>1. /\ chunks = {} /\ pages = {}
          /\ \A a \in Actors : pc[a] = "idle" /\ delC[a] = {}
          /\ \A w \in Workers : pc[w] = "idle"
      BY DEF Init, Actors
    <2>2. IsFiniteSet(pages)
      BY <2>1, FS_EmptySet
    <2>3. RunsWhole /\ ChunkRowsInv
      BY <2>1 DEF RunsWhole, ChunkRowsInv, OfPastRuns, Ids
    <2>4. \A a \in Actors : HoldsWhole(a)
      BY <2>1 DEF HoldsWhole, WholeRuns, OfPastRuns
    <2>5. \A w \in Workers : ReadsOneDoc(w)
      BY <2>1 DEF ReadsOneDoc
    <2> QED
      BY <2>2, <2>3, <2>4, <2>5 DEF WholeInv
  <1>2. TypeOK /\ PagesInv /\ WholeInv /\ [Next]_vars => WholeInv'
    <2> SUFFICES ASSUME TypeOK, PagesInv, WholeInv, [Next]_vars PROVE WholeInv'
      OBVIOUS
    <2>1. ASSUME UNCHANGED <<chunks, pages, runs, pc, target, run, rows, delC>> PROVE WholeInv'
      BY <2>1 DEF WholeInv, RunsWhole, ChunkRowsInv, HoldsWhole, ReadsOneDoc, WholeRuns,
                  OfPastRuns, Unchunked, Ids
    <2>2. ASSUME NEW d \in Docs, CreateDocument(d) \/ SoftDelete(d) PROVE WholeInv'
      BY <2>1, <2>2 DEF CreateDocument, SoftDelete, locals, tx
    <2>3. CASE UNCHANGED vars
      BY <2>1, <2>3 DEF vars, db, locals, tx
    <2> QED
      BY <2>2, <2>3, RunStepWhole, RequestStepWhole DEF Next, Quiescent
  <1> QED
    BY <1>1, <1>2, PagesInvCorrect, PTL DEF Spec

\* However many workers and requests interleave, crash and fail, a document's
\* chunks are those of whole runs.
THEOREM ChunksOfWholeRuns == Spec => []RunsWhole
  <1>1. WholeInv => RunsWhole
    BY DEF WholeInv
  <1> QED
    BY <1>1, WholeInvCorrect, PTL

\* No step takes some of the chunks of a run and leaves others.
LEMMA RunsGoWhole ==
    ASSUME TypeOK, WholeInv, Next
    PROVE  \A c, e \in chunks : c.id.run = e.id.run =>
             (c.id \in Ids(chunks') <=> e.id \in Ids(chunks'))
  <1> DEFINE Goal == \A c, e \in chunks : c.id.run = e.id.run =>
                       (c.id \in Ids(chunks') <=> e.id \in Ids(chunks'))
  <1>1. \A c, e \in chunks : c.id = e.id => c = e
    BY DEF WholeInv, ChunkRowsInv
  <1>2. ASSUME UNCHANGED chunks PROVE Goal
    BY <1>2 DEF Ids
  <1>3. ASSUME NEW a \in Actors, chunks' = KeptChunks(a) PROVE Goal
    <2>1. \A c \in chunks : c.id \in Ids(chunks') <=> c.id \notin delC[a]
      BY <1>1, <1>3, KeptRows DEF Ids
    <2>2. WholeRuns(chunks, delC[a])
      BY DEF WholeInv, HoldsWhole
    <2> QED
      BY <2>1, <2>2 DEF WholeRuns
  <1>4. ASSUME NEW w \in Workers, RunStep(w) PROVE Goal
    <2> w \in Actors
      BY DEF Actors
    <2>1. ASSUME NEW layout \in Layouts, CommitParse(w, layout) PROVE Goal
      <3>1. UNCHANGED chunks \/ chunks' = KeptChunks(w)
        BY <2>1 DEF CommitParse
      <3> QED
        BY <1>2, <1>3, <3>1
    <2>2. CASE CommitChunks(w)
      <3>1. chunks \subseteq chunks'
        BY <2>2 DEF CommitChunks
      <3> QED
        BY <3>1 DEF Ids
    <2>3. CASE CommitEmbeddings(w)
      <3>1. chunks' = {[c EXCEPT !.embedded = @ \/ c.id \in rows[w]] : c \in chunks}
        BY <2>3 DEF CommitEmbeddings
      <3>2. \A e \in chunks : \E c \in chunks' : c.id = e.id
        BY <1>1, <3>1, EmbeddedRows
      <3> QED
        BY <3>2 DEF Ids
    <2>4. ASSUME UNCHANGED db \/ UNCHANGED chunks PROVE Goal
      BY <1>2, <2>4 DEF db
    <2>5. CASE LoadDocument(w) \/ Start(w) \/ ClearStep(w) \/ ReadPages(w) \/ ReadChunks(w)
      BY <2>4, <2>5 DEF LoadDocument, Start, ClearStep, DeleteChunks, ChunksDeleted,
                        DeletePages, PagesDeleted, ReadPages, ReadChunks
    <2>6. CASE Finalize(w) \/ LockRow(w)
      BY <2>4, <2>6 DEF Finalize, LockRow
    <2> QED
      BY <1>4, <2>1, <2>2, <2>3, <2>5, <2>6 DEF RunStep
  <1>5. ASSUME NEW w \in Workers, (\E j \in DOMAIN jobs : LoadJob(w, j)) \/ StageFails(w) \/ Crash(w)
        PROVE  Goal
    BY <1>2, <1>5 DEF LoadJob, StageFails, Crash, db
  <1>6. ASSUME NEW r \in Requests, ReprocessStep(r) PROVE Goal
    <2> r \in Actors
      BY DEF Actors
    <2>1. CASE CommitReprocess(r)
      BY <1>3, <2>1 DEF CommitReprocess
    <2>2. CASE ClearStep(r)
      BY <1>2, <2>2 DEF ClearStep, DeleteChunks, ChunksDeleted, DeletePages,
                        PagesDeleted, db
    <2>3. CASE LockRow(r)
      BY <1>2, <2>3 DEF LockRow, db
    <2> QED
      BY <1>6, <2>1, <2>2, <2>3 DEF ReprocessStep
  <1>7. ASSUME NEW r \in Requests, (\E d \in Docs : OpenReprocess(r, d)) \/ AbortReprocess(r)
        PROVE  Goal
    BY <1>2, <1>7 DEF OpenReprocess, AbortReprocess, db
  <1>8. ASSUME NEW d \in Docs, CreateDocument(d) \/ SoftDelete(d) PROVE Goal
    BY <1>2, <1>8 DEF CreateDocument, SoftDelete
  <1>9. CASE Quiescent
    BY <1>2, <1>9 DEF Quiescent, vars, db
  <1>10. ASSUME NEW w \in Workers,
                \/ \E j \in DOMAIN jobs : LoadJob(w, j)
                \/ RunStep(w) \/ StageFails(w) \/ Crash(w)
         PROVE  Goal
    BY <1>4, <1>5, <1>10
  <1>11. ASSUME NEW r \in Requests,
                \/ \E d \in Docs : OpenReprocess(r, d)
                \/ ReprocessStep(r) \/ AbortReprocess(r)
         PROVE  Goal
    BY <1>6, <1>7, <1>11
  <1> QED
    BY <1>8, <1>9, <1>10, <1>11 DEF Next

\* Whatever deletes chunks, and whatever it has waited for, deletes whole runs.
THEOREM ChunksVanishTogether == Spec => RunsVanishWhole
  <1>1. TypeOK /\ WholeInv /\ [Next]_vars =>
          [\A c, e \in chunks : c.id.run = e.id.run =>
              (c.id \in Ids(chunks') <=> e.id \in Ids(chunks'))]_vars
    BY RunsGoWhole
  <1> QED
    BY <1>1, WholeInvCorrect, PTL DEF Spec, RunsVanishWhole

=============================================================================
