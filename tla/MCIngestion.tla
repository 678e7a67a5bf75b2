----------------------------- MODULE MCIngestion -----------------------------
(* Instances of IngestionPipeline for TLC.                                   *)
EXTENDS IngestionLifecycle, TLC

\* A text file (one page), and files of any shape: without pages, a scan without
\* text, or of two pages.
OnePage == {<<1>>}
TwoChunks == {<<2>>}
AnyFile == {<<>>, <<0>>, <<1, 1>>}

ActorSymmetry == Permutations(Workers) \cup Permutations(Requests)

=============================================================================
