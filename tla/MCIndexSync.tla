---------------------------- MODULE MCIndexSync ----------------------------
(* Small instances of IndexSync for TLC. *)
EXTENDS IndexSync

\* Each file in a directory of its own.
Places == [f \in Files |-> f]
=============================================================================
