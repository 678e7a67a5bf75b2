----------------------------- MODULE MCChunkText -----------------------------
(* Instances of Retrieval, and so of ChunkText, for TLC: the settings are in *)
(* the .cfg files.                                                           *)
EXTENDS Retrieval

SomeScores == 0..2

=============================================================================
