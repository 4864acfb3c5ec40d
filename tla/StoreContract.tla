--------------------------- MODULE StoreContract ----------------------------
(***************************************************************************)
(* WakeContract with what a bounded queue adds (core/runtime_work.py,      *)
(* runtime_wake_cancel.py).  Several requests may be noticed at once, when *)
(* retained wakes are promoted together; a dispatch may leave its wake     *)
(* owed, when it is retained besides; and the wake of an unused build may  *)
(* be withdrawn, but not from under its dispatch.                          *)
(***************************************************************************)
CONSTANTS Wakes, Builds, None

VARIABLES owed,    \* wakes some accepted request is still waiting for
          serving  \* the wake being dispatched, or None

vars == <<owed, serving>>

Init == owed = {} /\ serving = None

Requests == UNCHANGED serving /\ owed' \in SUBSET Wakes /\ owed \subseteq owed'

\* A dispatch begins.
Start(x) ==
    /\ serving = None /\ x \in owed
    /\ serving' = x /\ owed' \in {owed, owed \ {x}}

\* It served its wake.
Finish == serving # None /\ serving' = None /\ UNCHANGED owed

\* It did not: the wake is owed again.
Fail == serving # None /\ serving' = None /\ owed' = owed \cup {serving}

Withdraw(x) == x # serving /\ owed' = owed \ {x} /\ UNCHANGED serving

Next == \/ Requests
        \/ \E x \in Wakes : Start(x)
        \/ Finish \/ Fail
        \/ \E x \in Builds : Withdraw(x)
=============================================================================
