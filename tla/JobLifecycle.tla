---------------------------- MODULE JobLifecycle ----------------------------
(***************************************************************************)
(* What a worker promises of the ingestion jobs: at most one job is being  *)
(* worked on, only that job moves, it passes through the stages in order,  *)
(* and a run that fails or dies leaves its job exactly where it was, to be *)
(* started again from the beginning.                                       *)
(***************************************************************************)
EXTENDS Integers, Sequences

VARIABLES
    phase, \* the phase of every job, in creation order
    live   \* the job being worked on, 0 if none

Running == {"parsing", "chunking", "embedding"}
Phase   == Running \cup {"pending", "succeeded"}

After == [parsing |-> "chunking", chunking |-> "embedding", embedding |-> "succeeded"]

Init == phase = <<>> /\ live = 0

Enqueue ==
    /\ phase' = Append(phase, "pending")
    /\ UNCHANGED live

Start(j) ==
    /\ live = 0
    /\ phase' = [phase EXCEPT ![j] = "parsing"]
    /\ live' = j

Advance ==
    /\ live # 0
    /\ phase[live] \in Running
    /\ phase' = [phase EXCEPT ![live] = After[@]]
    /\ live' = IF phase[live] = "embedding" THEN 0 ELSE live

Abandon ==
    /\ live # 0
    /\ live' = 0
    /\ UNCHANGED phase

Next ==
    \/ Enqueue \/ Advance \/ Abandon
    \/ \E j \in DOMAIN phase : Start(j)

Spec == Init /\ [][Next]_<<phase, live>>

=============================================================================
