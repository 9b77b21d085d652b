---------------------------- MODULE MCKeyCommit ----------------------------
(* KeyCommit on a few writers, readers and peers.                          *)
EXTENDS KeyCommit, TLC

=============================================================================
