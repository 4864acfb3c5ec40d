----------------------------- MODULE MCTraining -----------------------------
(* Small instances of Training for TLC. *)
EXTENDS Training

CONSTANTS r1, r2, i1, i2
=============================================================================
