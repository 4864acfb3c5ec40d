--------------------------- MODULE MCWakeRuntime ----------------------------
(* Small instances of WakeRuntime for TLC. *)
EXTENDS WakeRuntime, TLC

CONSTANTS sync, learning, c1, k1, k2, t1, monitor

\* runtime_wake_policy.KINDS: laya-sync runs before learning.
MCPriority == [x \in Wakes |-> IF x = sync THEN 2 ELSE 3]

\* Slots of a kind are interchangeable (safety runs only).
Slots == Permutations(Workers) \cup Permutations(Timers) \cup Permutations(Callers \ {Monitor})
=============================================================================
