---------------------------- MODULE MCWakeStore -----------------------------
(* Small instances of WakeStore for TLC. *)
EXTENDS WakeStore

CONSTANTS index, docs, sync, extra, more, monitor, hook
=============================================================================
