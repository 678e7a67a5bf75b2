------------------------- MODULE IngestionLifecycle -------------------------
(***************************************************************************)
(* A single worker's pipeline implements JobLifecycle: the phase of a job  *)
(* is read from its row, the job being worked on from the worker.          *)
(***************************************************************************)
EXTENDS IngestionPipeline

PhaseOf(row) ==
    CASE row.status = "PENDING"   -> "pending"
      [] row.status = "RUNNING"   -> row.stage
      [] row.status = "SUCCEEDED" -> "succeeded"

Started == {w \in Workers : pc[w] \notin {"idle", "opened", "loaded"}}

Lifecycle == INSTANCE JobLifecycle WITH
    phase <- [j \in DOMAIN jobs |-> PhaseOf(jobs[j])],
    live  <- IF Started = {} THEN 0 ELSE job[CHOOSE w \in Started : TRUE]

\* With a single worker the rows of ingestion_jobs change only as JobLifecycle
\* allows, through crashes, failures, re-runs and overlapping reprocess
\* requests: the flushes of process_ingestion_job write the columns they mean
\* to write although the session compares them with what it has cached.
ImplementsJobLifecycle == Lifecycle!Spec

=============================================================================
