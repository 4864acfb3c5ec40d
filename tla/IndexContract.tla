--------------------------- MODULE IndexContract ---------------------------
(***************************************************************************)
(* What the published head of an index promises, while the sources under   *)
(* it are edited: it lists the project as it was at one instant, files and *)
(* folders together; a later head is never of an earlier instant; and a    *)
(* new head hides every document that is excluded when it is published.    *)
(***************************************************************************)
EXTENDS Naturals

CONSTANT Files

VARIABLES past,    \* every state the sources have been in: [at, files]
          barred,  \* the excluded files
          served   \* the head: [at, files, hidden]; at = 0 before the first

vars == <<past, barred, served>>

Empty == [at |-> 0, files |-> [f \in Files |-> 0], hidden |-> {}]

Init == /\ \E t \in [Files -> {0, 1}] : past = {[at |-> 1, files |-> t]}
        /\ barred = {} /\ served = Empty

Edit == \E tree \in past' : /\ \A old \in past : old.at < tree.at
                            /\ past' = past \cup {tree}
                            /\ UNCHANGED <<barred, served>>

Bar == \E f \in Files : barred' = barred \cup {f} /\ UNCHANGED <<past, served>>

Publish == \E tree \in past :
    /\ tree.at >= served.at
    /\ served'.at = tree.at /\ served'.files = tree.files
    /\ \A f \in barred : tree.files[f] # 0 => f \in served'.hidden
    /\ UNCHANGED <<past, barred>>

Next == Edit \/ Bar \/ Publish

Spec == Init /\ [][Next]_vars
=============================================================================
