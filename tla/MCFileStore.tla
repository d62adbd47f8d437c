----------------------------- MODULE MCFileStore ----------------------------
(* Two goroutines on one collection of two records and on one entry.       *)
EXTENDS FileStore, TLC

CONSTANTS c1, c2

=============================================================================
