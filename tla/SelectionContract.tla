------------------------- MODULE SelectionContract -------------------------
(***************************************************************************)
(* What the selection of a project promises its readers, however an        *)
(* install, an upgrade or a restore is interrupted                         *)
(* (laya_fresh_wiki_origin.classify_marker): a reader is told "legacy", one *)
(* bundle, or "blocked"; every change of the answer passes through          *)
(* "blocked"; once a bundle has published, neither legacy nor an older      *)
(* bundle is ever selected again.                                          *)
(***************************************************************************)
EXTENDS Naturals

CONSTANT Newest  \* bundles are 1 .. Newest, by age

VARIABLES view,  \* what a reader is told
          wrote  \* the bundle of the last publish, or 0

vars == <<view, wrote>>

Legacy == <<"legacy", 0>>
Blocked == <<"blocked", 0>>
Candidate(b) == <<"candidate", b>>

Init == view = Legacy /\ wrote = 0

Block == view # Blocked /\ view' = Blocked /\ UNCHANGED wrote

Select(b) == view = Blocked /\ b >= wrote /\ view' = Candidate(b) /\ UNCHANGED wrote

Withdraw == view = Blocked /\ wrote = 0 /\ view' = Legacy /\ UNCHANGED wrote

Publish(b) == view \in {Blocked, Candidate(b)} /\ b >= wrote /\ wrote' = b /\ UNCHANGED view

Next == Block \/ Withdraw \/ \E b \in 1..Newest : Select(b) \/ Publish(b)

Spec == Init /\ [][Next]_vars
=============================================================================
