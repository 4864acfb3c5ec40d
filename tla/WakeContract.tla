---------------------------- MODULE WakeContract ----------------------------
(***************************************************************************)
(* What the runtime wake queue promises its callers, whatever workers,     *)
(* timers, movers and crashes do underneath (core/runtime_work.py): a      *)
(* requested wake stays owed until a dispatch that began after the request *)
(* finished it; dispatches never overlap; a dispatch that does not finish  *)
(* leaves its wake owed again.                                             *)
(***************************************************************************)
CONSTANTS Wakes,  \* the (kind, target) pairs a caller may ask for
          None    \* "nothing is being dispatched"

VARIABLES owed,    \* wakes some request is still waiting for
          serving  \* the wake being dispatched, or None

vars == <<owed, serving>>

Init == owed = {} /\ serving = None

\* A caller asks for x: also while an earlier request of x is being served.
Request(x) == owed' = owed \cup {x} /\ UNCHANGED serving

\* One dispatch begins: it answers every request made so far, none made later.
Start(x) ==
    /\ serving = None /\ x \in owed
    /\ serving' = x /\ owed' = owed \ {x}

\* The dispatch served its wake.
Finish == serving # None /\ serving' = None /\ UNCHANGED owed

\* It did not (a failure, a crash of the worker): the wake is owed again.
Fail == serving # None /\ serving' = None /\ owed' = owed \cup {serving}

Next == \/ \E x \in Wakes : Request(x) \/ Start(x)
        \/ Finish \/ Fail

Spec == Init /\ [][Next]_vars
=============================================================================
