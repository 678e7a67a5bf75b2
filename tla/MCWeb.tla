------------------------------- MODULE MCWeb -------------------------------
(* Instances of WebSession for TLC.                                          *)
EXTENDS WebSession

=============================================================================
