---------------------------- MODULE MCWakeSettle ----------------------------
(* Small instances of WakeSettle for TLC. *)
EXTENDS WakeSettle
=============================================================================
