-------------------------- MODULE SelectionProofs --------------------------
(***************************************************************************)
(* What Selection promises, for every number of bundles, faults and         *)
(* restores.  Inv is inductive: in each phase of the ledger it says which   *)
(* bundles the files and the journal may name, and for the operation under  *)
(* way how far its writes have come.  The refinement of SelectionContract   *)
(* follows from what each phase tells a reader (ToldByPhase) and from how a step  *)
(* may move the phase (Moved).                                              *)
(***************************************************************************)
EXTENDS Selection, TLAPS

\* The journal alone, and how far the publishes bind it.
Journal ==
    /\ journal.state = "ready" =>
         /\ journal.pend # 0 /\ journal.prev = 0 /\ ~journal.seen /\ wrote = 0
         /\ intent = NoIntent
         /\ ledger.phase \in {"none", "prepared", "switching", "retired"}
    /\ journal.state = "origin" =>
         /\ ~journal.seen /\ wrote = 0 /\ ledger.phase \in {"restoring", "restored"}
    /\ journal.state \in {"active", "old", "origin"} => journal.pend = 0
    /\ journal.state \in {"active", "old", "pending"} => journal.sel >= wrote
    /\ journal.state = "active" /\ ~journal.seen => journal.prev >= wrote
    /\ journal.state = "active" => journal.prev < journal.sel
    /\ journal.state \in {"pending", "old"} => ~journal.seen
    /\ journal.state = "pending" => journal.prev = journal.sel /\ ledger.phase = "upgrading"
    /\ journal.state = "old" => journal.prev = journal.sel /\ ledger.phase \in {"active", "upgrading"}

\* The journal of an upgrade: before its stage, staged, committed.
Staged == journal.state = "pending" /\ journal.sel = intent.old /\ journal.pend = intent.new
Committed == journal.state = "active" /\ journal.sel = intent.new /\ journal.prev = intent.old

\* What each phase of the ledger says of the files and of the journal.
Phases ==
    /\ ledger.phase # "none" => ledger.row # 0
    /\ ledger.phase \in {"none", "prepared", "retired"} => journal.state = "ready" /\ route = 0
    /\ ledger.phase = "none" => marker = 0
    /\ ledger.phase = "switching" =>
         /\ Aligned(ledger.row) /\ route \in {0, ledger.row} /\ journal.prev = 0
         /\ \/ journal.state = "ready" /\ journal.pend = ledger.row
            \/ journal.state = "active" /\ journal.sel = ledger.row
    /\ ledger.phase = "active" =>
         Aligned(ledger.row) /\ route = ledger.row /\ Selects(ledger.row)
    /\ ledger.phase = "restoring" =>
         /\ Aligned(ledger.row) /\ route \in {0, ledger.row} /\ journal.prev = 0
         /\ \/ journal.state = "active" /\ journal.sel = ledger.row
            \/ journal.state = "origin" /\ route = 0
    /\ ledger.phase = "upgrading" =>
         /\ intent # NoIntent
         /\ {ledger.row, marker, route, reviewed, seal} \subseteq {intent.old, intent.new}
         /\ Selects(intent.old) \/ Staged \/ (Committed /\ ~journal.seen)
         /\ journal.state = "active" /\ journal.sel = intent.old =>
              Aligned(intent.old) /\ route = intent.old
    /\ ledger.phase = "restored" => journal.state = "origin" /\ route = 0

\* Every bundle named is one the host has run; an upgrade goes to a newer one.
Ages ==
    /\ {reviewed, seal} \subseteq 1..host
    /\ {ledger.row, marker, route, journal.sel, journal.prev, journal.pend} \subseteq 0..host
    /\ intent = NoIntent \/ (intent.old \in 1..host /\ intent.new \in 1..host /\ intent.old < intent.new)
    /\ boundIntent = NoIntent \/ (boundIntent.old \in 1..host /\ boundIntent.new \in 1..host)

\* How far the operation under way has come.
Progress ==
    /\ op = "none" => at = "none"
    /\ op = "bind" => ledger.phase = "prepared"
    /\ op = "activate" =>
         /\ ledger.phase = "switching" /\ at \in {"route", "journal", "phase"}
         /\ at \in {"route", "journal"} => journal.state = "ready"
         /\ at \in {"journal", "phase"} => route = ledger.row
         /\ at = "phase" => journal.state = "active"
    /\ op = "undo" =>
         /\ ledger.phase = "switching" /\ journal.state = "ready"
         /\ at \in {"route", "phase"} /\ (at = "phase" => route = 0)
    /\ op = "confirm" =>
         /\ ledger.phase \in {"switching", "restoring"} /\ journal.state = "active"
         /\ at \in {"route", "phase"} /\ (at = "phase" => route = ledger.row)
    /\ op = "withdraw" =>
         /\ ledger.phase = "restoring" /\ at \in {"look", "route", "journal", "phase"}
         /\ at = "look" => route = ledger.row /\ journal.state = "active"
         /\ at = "journal" => route = 0
         /\ at = "phase" => journal.state = "origin"
    /\ op = "retire" => ledger.phase = "retired"
    /\ op = "bound" => ledger.phase = "prepared" /\ (at = "prepare" \/ boundIntent # NoIntent)
    /\ op \in {"upgrade", "restore"} => writer = "idle"

\* An upgrade replaces file after file, once its journal is staged.
Upgrading ==
    op = "upgrade" =>
         /\ at \in {"prepare", "fence", "stage", "seal", "reviewed", "route", "row", "marker",
                    "journal", "phase"}
         /\ at # "prepare" => intent # NoIntent
         /\ at \notin {"prepare", "fence"} => ledger.phase = "upgrading"
         /\ at \notin {"prepare", "fence", "stage"} => Staged \/ Committed
         /\ at \in {"reviewed", "route", "row", "marker", "journal", "phase"} => seal = intent.new
         /\ at \in {"route", "row", "marker", "journal", "phase"} => reviewed = intent.new
         /\ at \in {"row", "marker", "journal", "phase"} => route = intent.new
         /\ at \in {"marker", "journal", "phase"} => ledger.row = intent.new
         /\ at \in {"journal", "phase"} => marker = intent.new
         /\ at = "phase" => Committed

\* A restore puts file after file back, and the journal between them.
Restoring ==
    op = "restore" =>
         /\ at \in {"route", "seal", "reviewed", "journal", "marker", "row", "phase"}
         /\ ledger.phase = "upgrading" /\ journal.prev = intent.old
         /\ at # "route" => route = intent.old
         /\ at \in {"reviewed", "journal", "marker", "row", "phase"} => seal = intent.old
         /\ at \in {"journal", "marker", "row", "phase"} => reviewed = intent.old
         /\ at \in {"marker", "row", "phase"} => journal.state = "old"
         /\ at \in {"row", "phase"} => marker = intent.old
         /\ at = "phase" => ledger.row = intent.old

\* The sync worker publishes only through a selection that cannot be taken back.
Writes ==
    /\ writer # "idle" => op \notin {"upgrade", "restore"} /\ ledger.phase # "upgrading"
    /\ writer = "proved" /\ "writer" \in knows => Selects(target)
    /\ writer \in {"marked", "confirmed"} =>
         journal.state = "active" /\ journal.sel = target /\ journal.seen

\* Until the bundle of a finished upgrade publishes, the store is as the intent says.
Unmoved == ledger.phase = "active" /\ ledger.row = intent.new /\ ~Unrestorable => ~moved

Inv == /\ TypeOK /\ Journal /\ Phases /\ Ages
       /\ Progress /\ Upgrading /\ Restoring /\ Writes /\ Unmoved

-----------------------------------------------------------------------------
(* Lemmas *)

\* The entries of After that the steps look up.
LEMMA Order ==
    /\ DOMAIN After = {"bound", "upgrade", "restore"}
    /\ After["bound"]["prepare"] = "seal" /\ After["bound"]["seal"] = "journal"
    /\ After["bound"]["journal"] = "reviewed" /\ After["bound"]["reviewed"] = "row"
    /\ After["bound"]["row"] = "marker" /\ After["bound"]["marker"] = "phase"
    /\ After["upgrade"]["prepare"] = "fence" /\ After["upgrade"]["fence"] = "stage"
    /\ After["upgrade"]["stage"] = "seal" /\ After["upgrade"]["seal"] = "reviewed"
    /\ After["upgrade"]["reviewed"] = "route" /\ After["upgrade"]["route"] = "row"
    /\ After["upgrade"]["row"] = "marker" /\ After["upgrade"]["marker"] = "journal"
    /\ After["upgrade"]["journal"] = "phase"
    /\ After["restore"]["route"] = "seal" /\ After["restore"]["seal"] = "reviewed"
    /\ After["restore"]["reviewed"] = "journal" /\ After["restore"]["journal"] = "marker"
    /\ After["restore"]["marker"] = "row" /\ After["restore"]["row"] = "phase"
  BY DEF After

\* What follows from an answer a reader was given.
LEMMA Told ==
    /\ \A b : View = Candidate(b) =>
         /\ marker # 0 /\ marker = ledger.row /\ route = ledger.row /\ b = route
         /\ ledger.phase = "active" /\ Selects(b)
    /\ View = Legacy => marker = 0 \/ (marker = ledger.row /\ route = 0)
  BY DEF View, Legacy, Blocked, Candidate

\* The inductive invariant holds at the start.
LEMMA Initially == Init => Inv
<1> SUFFICES ASSUME Init PROVE Inv
  OBVIOUS
<1> USE SelectionAssumption DEF Init, Bundles, OrNone, NoIntent, Ops
<1>1. TypeOK
  <2>1. 0 \in OrNone /\ 1 \in OrNone /\ 1 \in Bundles /\ 0 \in 0..MaxFaults /\ 0 \in 0..MaxRestores
    OBVIOUS
  <2>2. journal \in [state : {"ready", "pending", "active", "old", "origin"},
                    sel : OrNone, prev : OrNone, pend : OrNone, seen : BOOLEAN]
    BY <2>1
  <2>3. NoIntent \in [old : OrNone, new : OrNone, epoch : Nat]
    BY <2>1
  <2>4. QED
    BY <2>1, <2>2, <2>3 DEF TypeOK
<1>2. Journal /\ Phases /\ Ages
  BY DEF Journal, Phases, Ages, Unrestorable, Staged, Committed, Aligned, Selects
<1>3. Progress /\ Upgrading /\ Restoring /\ Writes
  BY DEF Progress, Upgrading, Restoring, Writes
<1>4. Unmoved
  BY DEF Unmoved
<1>5. QED
  BY <1>1, <1>2, <1>3, <1>4 DEF Inv

\* The values of the ledger's phase and of the journal.
Phase == {"none", "prepared", "switching", "active", "upgrading", "restoring", "restored", "retired"}
Journals == [state : {"ready", "pending", "active", "old", "origin"},
             sel : OrNone, prev : OrNone, pend : OrNone, seen : BOOLEAN]

\* What a compare-and-swap of the ledger's phase leaves.
LEMMA Entered ==
    ASSUME TypeOK, NEW p \in Phase, Enters(p)
    PROVE  /\ ledger' \in [phase : Phase, row : OrNone, epoch : Nat]
           /\ ledger'.phase = p /\ ledger'.row = ledger.row
<1>1. ledger \in [phase : Phase, row : OrNone, epoch : Nat]
  BY DEF TypeOK, Phase
<1>2. ledger' = [phase |-> p, row |-> ledger.row, epoch |-> ledger.epoch + 1]
  BY <1>1 DEF Enters
<1>3. QED
  BY <1>1, <1>2

\* A journal record is one when its fields are.
LEMMA JournalRecord ==
    ASSUME NEW s \in {"ready", "pending", "active", "old", "origin"}, NEW a \in OrNone,
           NEW b \in OrNone, NEW c \in OrNone, NEW f \in BOOLEAN
    PROVE  [state |-> s, sel |-> a, prev |-> b, pend |-> c, seen |-> f] \in Journals
  BY DEF Journals

\* What cas_activate leaves.
LEMMA Switched ==
    ASSUME TypeOK, journal' = Activated
    PROVE  /\ journal' \in Journals
           /\ journal'.state = "active" /\ journal'.sel = journal.pend
           /\ journal'.prev = journal.prev /\ journal'.pend = 0 /\ journal'.seen = journal.seen
<1>1. journal \in Journals /\ 0 \in OrNone
  BY SelectionAssumption DEF TypeOK, Journals, OrNone
<1>2. journal' = [state |-> "active", sel |-> journal.pend, prev |-> journal.prev, pend |-> 0,
                  seen |-> journal.seen]
  BY <1>1 DEF Activated, Journals
<1>3. QED
  BY <1>1, <1>2 DEF Journals

\* Every write of every operation, the sync worker and a stop keep the inductive invariant.
LEMMA Step == Inv /\ [Next]_vars => Inv'
<1> SUFFICES ASSUME Inv, [Next]_vars PROVE Inv'
  OBVIOUS
<1> USE SelectionAssumption DEF Inv, TypeOK, Journal, Phases, Ages, Progress, Upgrading, Restoring,
        Writes, Unmoved, Unrestorable, Staged, Committed, Aligned, Selects, Bundles, OrNone, NoIntent, Ops, Phase, Journals
<1>1. CASE BindMarks
  BY <1>1 DEF BindMarks, Ends, intents, syncer, bounds
<1>2. CASE ActivatePublishes
  BY <1>2 DEF ActivatePublishes, Goes, intents, syncer, bounds
<1>3. CASE ActivateCommits
  BY <1>3, Switched DEF ActivateCommits, Commits, Goes, PendingVisible, files, intents,
     syncer, bounds
<1>4. CASE RecoverRewrites
  BY <1>4 DEF RecoverRewrites, Goes, intents, syncer, bounds
<1>5. CASE WithdrawLooks
  <2> USE DEF files, intents, syncer, bounds
  <2>1. CASE Enters("active") /\ op' = "none" /\ at' = "none" /\ UNCHANGED knows
    <3>1. /\ ledger' \in [phase : Phase, row : OrNone, epoch : Nat]
          /\ ledger'.phase = "active" /\ ledger'.row = ledger.row
      BY <2>1, Entered
    <3>2. QED
      BY <1>5, <2>1, <3>1 DEF WithdrawLooks
  <2>2. CASE Goes("route") /\ knows' = knows \cup {"op"} /\ UNCHANGED ledger
    BY <1>5, <2>2 DEF WithdrawLooks, Goes
  <2>3. QED
    BY <1>5, <2>1, <2>2, Zenon DEF WithdrawLooks, Ends
<1>6. CASE WithdrawUnlinks
  BY <1>6 DEF WithdrawUnlinks, Goes, intents, syncer, bounds
<1>7. CASE WithdrawCommits
  <2>1. journal' = journal
        \/ /\ journal.state = "active" /\ ~journal.seen /\ journal.prev = 0
           /\ journal' = [state |-> "origin", sel |-> 0, prev |-> 0, pend |-> 0, seen |-> FALSE]
    BY <1>7 DEF WithdrawCommits, Commits, Ends, Goes, files, intents, syncer, bounds
  <2>2. journal' \in Journals
    <3>1. 0 \in OrNone /\ journal \in Journals
      OBVIOUS
    <3>2. "origin" \in {"ready", "pending", "active", "old", "origin"} /\ FALSE \in BOOLEAN
      OBVIOUS
    <3>3. [state |-> "origin", sel |-> 0, prev |-> 0, pend |-> 0, seen |-> FALSE] \in Journals
      BY <3>1, <3>2, JournalRecord, Zenon
    <3>4. QED
      BY <2>1, <3>1, <3>3
  <2>3. TypeOK'
    BY <1>7, <2>1, <2>2 DEF WithdrawCommits, Commits, Ends, Goes, files, intents, syncer,
       bounds
  <2>4. Journal' /\ Ages'
    BY <1>7, <2>1, <2>2 DEF WithdrawCommits, Commits, Ends, Goes, files, intents, syncer,
       bounds
  <2>5. Phases'
    BY <1>7, <2>1, <2>2 DEF WithdrawCommits, Commits, Ends, Goes, files, intents, syncer,
       bounds
  <2>6. Progress' /\ Upgrading' /\ Restoring'
    <3>1. \/ Goes("phase") /\ journal'.state = "origin"
          \/ Ends
      BY <1>7 DEF WithdrawCommits, Commits
    <3>2. QED
      BY <1>7, <3>1 DEF WithdrawCommits, Ends, Goes, files, intents, syncer
  <2>7. Writes'
    <3>1. CASE journal' = journal
      BY <1>7, <3>1 DEF WithdrawCommits, Commits, Ends, Goes, files, intents, syncer, bounds
    <3>2. CASE journal' # journal
      <4>1. knows' = {} /\ writer \notin {"marked", "confirmed"}
        BY <1>7, <2>1, <3>2 DEF WithdrawCommits, Commits
      <4>2. QED
        BY <1>7, <4>1 DEF WithdrawCommits, Ends, Goes, syncer
    <3>3. QED
      BY <3>1, <3>2
  <2>8. Unmoved'
    BY <1>7 DEF WithdrawCommits, Commits, Ends, Goes, files, intents, syncer, bounds
  <2>9. QED
    BY <2>3, <2>4, <2>5, <2>6, <2>7, <2>8
<1>8. CASE Settles
  BY <1>8, Entered DEF Settles, Ends, files, intents, syncer, bounds
<1>9. CASE RetireUnmarks
  BY <1>9 DEF RetireUnmarks, Ends, intents, syncer, bounds
<1>10. CASE SwapsSeal
  BY <1>10, Order DEF SwapsSeal, From, Proceeds, Switching, To, intents, syncer, bounds,
     Goes
<1>11. CASE SwapsReviewed
  BY <1>11, Order DEF SwapsReviewed, From, Proceeds, Switching, To, intents, syncer, bounds,
     Goes
<1>12. CASE SwapsRoute
  BY <1>12, Order DEF SwapsRoute, From, Proceeds, Switching, To, intents, syncer, bounds,
     Goes
<1>13. CASE SwapsMarker
  BY <1>13, Order DEF SwapsMarker, From, Proceeds, Switching, To, intents, syncer, bounds,
     Goes
<1>14. CASE BoundPrepares
  BY <1>14, Order, Told DEF BoundPrepares, Proceeds, files, syncer, bounds, Goes
<1>15. CASE BoundReplaces
  BY <1>15, Order DEF BoundReplaces, Commits, From, Proceeds, To, files, intents, syncer,
     bounds, Goes
<1>16. CASE BoundRebinds
  BY <1>16, Order DEF BoundRebinds, BoundRow, Ends, From, Proceeds, To, files, intents,
     syncer, bounds, Goes
<1>17. CASE BoundCompletes
  BY <1>17, Told DEF BoundCompletes, Ends, Goes, To, files, syncer, bounds
<1>18. CASE UpgradePrepares
  <2>1. TypeOK'
    <3>1. intent' \in [old : OrNone, new : OrNone, epoch : Nat]
      BY <1>18 DEF UpgradePrepares
    <3>2. at' \in {"none", "look", "prepare", "fence", "stage", "seal", "reviewed", "route",
                  "row", "marker", "journal", "phase"}
      BY <1>18, Order DEF UpgradePrepares, Proceeds, Goes
    <3>3. QED
      BY <1>18, <3>1, <3>2 DEF UpgradePrepares, Proceeds, Goes, files, bounds
  <2>2. Journal' /\ Phases' /\ Ages'
    BY <1>18, Order, Told DEF UpgradePrepares, Proceeds, Upgradable, files, syncer, bounds,
       Goes
  <2>3. Progress' /\ Upgrading' /\ Restoring' /\ Writes'
    BY <1>18, Order, Told DEF UpgradePrepares, Proceeds, Upgradable, files, syncer, bounds,
       Goes
  <2>4. Unmoved'
    BY <1>18, Order, Told DEF UpgradePrepares, Proceeds, Upgradable, files, syncer, bounds,
       Goes
  <2>5. QED
    BY <2>1, <2>2, <2>3, <2>4
<1>19. CASE UpgradeFences
  BY <1>19, Order DEF UpgradeFences, Ends, Fenced, NewRow, OldRow, Proceeds, files, intents,
     syncer, bounds, Goes
<1>20. CASE UpgradeStages
  <2>1. journal' = journal
        \/ /\ Selects(intent.old)
           /\ journal' = [state |-> "pending", sel |-> intent.old, prev |-> intent.old,
                          pend |-> intent.new, seen |-> FALSE]
    BY <1>20, Order DEF UpgradeStages, Commits, From, Proceeds, To, files, intents,
       syncer, bounds, Goes
  <2>2. journal' \in Journals
    <3>1. intent.old \in OrNone /\ intent.new \in OrNone /\ journal \in Journals
      OBVIOUS
    <3>2. "pending" \in {"ready", "pending", "active", "old", "origin"} /\ FALSE \in BOOLEAN
      OBVIOUS
    <3>3. [state |-> "pending", sel |-> intent.old, prev |-> intent.old, pend |-> intent.new,
           seen |-> FALSE] \in Journals
      BY <3>1, <3>2, JournalRecord, Zenon
    <3>4. QED
      BY <2>1, <3>1, <3>3
  <2>3. TypeOK'
    BY <1>20, <2>1, <2>2, Order DEF UpgradeStages, Commits, From, Proceeds, To, files,
       intents, syncer, bounds, Goes
  <2>4. Journal' /\ Ages'
    BY <1>20, <2>1, <2>2, Order DEF UpgradeStages, Commits, From, Proceeds, To, files,
       intents, syncer, bounds, Goes
  <2>5. Phases'
    BY <1>20, <2>1, <2>2, Order DEF UpgradeStages, Commits, From, Proceeds, To, files,
       intents, syncer, bounds, Goes
  <2>6. Progress' /\ Upgrading' /\ Restoring' /\ Writes' /\ Unmoved'
    BY <1>20, <2>1, <2>2, Order DEF UpgradeStages, Commits, From, Proceeds, To, files,
       intents, syncer, bounds, Goes
  <2>7. QED
    BY <2>3, <2>4, <2>5, <2>6
<1>21. CASE UpgradeRenames
  BY <1>21, Order DEF UpgradeRenames, Fenced, NewRow, Proceeds, files, intents, syncer,
     bounds, Goes
<1>22. CASE UpgradeCommits
  <2>1. \/ journal' = journal /\ Committed
        \/ journal.state = "pending" /\ journal' = Activated
    BY <1>22, Order DEF UpgradeCommits, Commits, PendingVisible, Proceeds, To, files,
       intents, syncer, bounds, Goes
  <2>2. CASE journal' = journal /\ Committed
    BY <1>22, <2>2, Order DEF UpgradeCommits, Proceeds, files, intents, syncer, bounds, Goes
  <2>3. CASE journal.state = "pending" /\ journal' = Activated
    <3>1. Staged /\ journal.prev = intent.old /\ intent.new > wrote
      BY <1>22, <2>3 DEF UpgradeCommits
    <3>2. /\ journal' \in Journals /\ Committed' /\ journal'.pend = 0
          /\ journal'.prev >= wrote /\ journal'.sel >= wrote
          /\ journal'.prev < journal'.sel /\ ~journal'.seen
      BY <1>22, <2>3, <3>1, Switched DEF UpgradeCommits, intents
    <3>3. knows' = {}
      BY <1>22, <2>3 DEF UpgradeCommits, Commits
    <3>4. QED
      BY <1>22, <3>2, <3>3, Order DEF UpgradeCommits, Proceeds, files, intents, syncer, bounds, Goes
  <2>4. QED
    BY <2>1, <2>2, <2>3
<1>23. CASE UpgradeUnfences
  <2>1. CASE moved
    BY <1>23, <2>1 DEF UpgradeUnfences, Ends, NewRow, files, intents, syncer, bounds
  <2>2. CASE ~moved
    BY <1>23, <2>2, Entered DEF UpgradeUnfences, Ends, NewRow, files, intents, syncer, bounds
  <2>3. QED
    BY <2>1, <2>2
<1>24. CASE RestoreCommits
  <2>1. journal' = [journal EXCEPT !.state = "old", !.sel = journal.prev, !.pend = 0]
        => journal' = [state |-> "old", sel |-> journal.prev, prev |-> journal.prev,
                       pend |-> 0, seen |-> journal.seen]
    OBVIOUS
  <2>2. journal' = journal
        \/ /\ Staged \/ (Committed /\ ~journal.seen)
           /\ journal' = [state |-> "old", sel |-> journal.prev, prev |-> journal.prev,
                          pend |-> 0, seen |-> journal.seen]
    BY <1>24, <2>1, Order DEF RestoreCommits, Reversible, Reversed, Commits, Proceeds, files, intents, syncer,
       bounds, Goes
  <2>3. journal' \in Journals
    BY <2>2
  <2>4. TypeOK'
    BY <1>24, <2>1, <2>2, <2>3, Order DEF RestoreCommits, Reversible, Reversed, Commits, Proceeds, files,
       intents, syncer, bounds, Goes
  <2>5. Journal' /\ Ages'
    BY <1>24, <2>1, <2>2, <2>3, Order DEF RestoreCommits, Reversible, Reversed, Commits, Proceeds, files,
       intents, syncer, bounds, Goes
  <2>6. Phases'
    BY <1>24, <2>1, <2>2, <2>3, Order DEF RestoreCommits, Reversible, Reversed, Commits, Proceeds, files,
       intents, syncer, bounds, Goes
  <2>7. Progress' /\ Upgrading' /\ Restoring' /\ Writes' /\ Unmoved'
    BY <1>24, <2>1, <2>2, <2>3, Order DEF RestoreCommits, Reversible, Reversed, Commits, Proceeds, files,
       intents, syncer, bounds, Goes
  <2>8. QED
    BY <2>4, <2>5, <2>6, <2>7
<1>25. CASE RestoreRenames
  BY <1>25, Order DEF RestoreRenames, Proceeds, files, intents, syncer, bounds, Goes
<1>26. CASE RestoreUnlocks
  <2>1. CASE moved
    BY <1>26, <2>1 DEF RestoreUnlocks, Ends, files, intents, syncer, bounds
  <2>2. CASE ~moved
    BY <1>26, <2>2, Entered DEF RestoreUnlocks, Ends, files, intents, syncer, bounds
  <2>3. QED
    BY <2>1, <2>2
<1>27. CASE BoundStarts
  BY <1>27 DEF BoundStarts, Begins, files, intents, syncer, bounds, Free
<1>28. CASE UpgradeStarts
  BY <1>28, Told DEF UpgradeStarts, Begins, Finishable, RestoredSettled, Settled,
     Upgradable, files, syncer, bounds, Free, NewRow
<1>29. CASE Bind
  BY <1>29 DEF Bind, Begins, files, intents, syncer, bounds, Free
<1>30. CASE Activate
  BY <1>30, Entered DEF Activate, Begins, files, intents, syncer, bounds, Free
<1>31. CASE Recover
  <2>1. TypeOK'
    BY <1>31 DEF Recover, Begins, files, intents, syncer, bounds, Free
  <2>2. Journal' /\ Phases' /\ Ages'
    BY <1>31 DEF Recover, Begins, files, intents, syncer, bounds, Free
  <2>3. Progress' /\ Upgrading' /\ Restoring' /\ Writes'
    BY <1>31 DEF Recover, Begins, files, intents, syncer, bounds, Free
  <2>4. Unmoved'
    BY <1>31 DEF Recover, Begins, files, intents, syncer, bounds, Free
  <2>5. QED
    BY <2>1, <2>2, <2>3, <2>4
<1>32. CASE Withdraw
  BY <1>32, Entered DEF Withdraw, Begins, files, intents, syncer, bounds, Free
<1>33. CASE Retire
  BY <1>33, Entered DEF Retire, Begins, files, intents, syncer, bounds, Free
<1>34. CASE Restore
  BY <1>34, Entered DEF Restore, Begins, Unrestorable, files, intents, syncer, Free
<1>35. CASE RestoreUnfences
  BY <1>35, Entered DEF RestoreUnfences, OnlyFenced, Free, Unrestorable, files, intents, syncer
<1>36. CASE WriterProves
  BY <1>36, Told DEF WriterProves, files, intents, bounds
<1>37. CASE WriterMarks
  <2>1. journal' = [state |-> "active", sel |-> journal.sel, prev |-> journal.prev,
                   pend |-> journal.pend, seen |-> TRUE]
    BY <1>37 DEF WriterMarks, files, intents, bounds
  <2>2. journal' \in Journals
    BY <2>1
  <2>3. TypeOK'
    BY <1>37, <2>1, <2>2 DEF WriterMarks, files, intents, bounds
  <2>4. Journal' /\ Ages'
    BY <1>37, <2>1, <2>2 DEF WriterMarks, files, intents, bounds
  <2>5. Phases'
    BY <1>37, <2>1, <2>2 DEF WriterMarks, files, intents, bounds
  <2>6. Progress' /\ Upgrading' /\ Restoring' /\ Writes' /\ Unmoved'
    BY <1>37, <2>1, <2>2 DEF WriterMarks, files, intents, bounds
  <2>7. QED
    BY <2>3, <2>4, <2>5, <2>6
<1>38. CASE WriterConfirms
  BY <1>38, Told DEF WriterConfirms, Proves, files, intents, bounds
<1>39. CASE WriterPublishes
  <2>1. TypeOK'
    BY <1>39 DEF WriterPublishes, files, intents, bounds
  <2>2. Journal' /\ Phases' /\ Ages'
    BY <1>39 DEF WriterPublishes, files, intents, bounds
  <2>3. Progress' /\ Upgrading' /\ Restoring' /\ Writes'
    BY <1>39 DEF WriterPublishes, files, intents, bounds
  <2>4. Unmoved'
    BY <1>39 DEF WriterPublishes, files, intents, bounds
  <2>5. QED
    BY <2>1, <2>2, <2>3, <2>4
<1>40. CASE WriterStops
  BY <1>40 DEF WriterStops, files, intents, bounds
<1>41. CASE Stops
  BY <1>41 DEF Stops, Ends, Free, files, intents, syncer
<1>42. CASE HostUpdates
  BY <1>42 DEF HostUpdates, Free, files, intents, syncer
<1>43. CASE UNCHANGED vars
  BY <1>43 DEF vars, files, intents, syncer, bounds
<1>44. QED
  BY <1>1, <1>2, <1>3, <1>4, <1>5, <1>6, <1>7, <1>8, <1>9, <1>10, <1>11, <1>12, <1>13,
     <1>14, <1>15, <1>16, <1>17, <1>18, <1>19, <1>20, <1>21, <1>22, <1>23, <1>24, <1>25,
     <1>26, <1>27, <1>28, <1>29, <1>30, <1>31, <1>32, <1>33, <1>34, <1>35, <1>36, <1>37,
     <1>38, <1>39, <1>40, <1>41, <1>42, <1>43, Zenon DEF Next, OpSteps, WriterSteps

-----------------------------------------------------------------------------
(* What a reader is told, by the phase of the ledger *)

\* Phases in which no bundle is selected and none has published.
Unselected == {"none", "prepared", "retired", "restored"}

\* What each phase tells a reader.
ToldByPhase ==
    /\ ledger.phase \in Unselected => View \in {Legacy, Blocked} /\ wrote = 0
    /\ ledger.phase \in {"switching", "restoring", "upgrading"} => View = Blocked
    /\ ledger.phase = "active" =>
         View = Candidate(ledger.row) /\ ledger.row \in Bundles /\ ledger.row >= wrote

\* ToldByPhase follows from the inductive invariant.
LEMMA Tells == Inv => ToldByPhase
<1> SUFFICES ASSUME Inv PROVE ToldByPhase
  OBVIOUS
<1> USE DEF Legacy, Blocked, Candidate
<1>1. ASSUME ledger.phase \in Unselected PROVE View \in {Legacy, Blocked} /\ wrote = 0
  BY <1>1 DEF Inv, Journal, Phases, Unselected, View
<1>2. ASSUME ledger.phase \in {"switching", "restoring", "upgrading"} PROVE View = Blocked
  <2>1. marker # 0
    BY <1>2 DEF Inv, Phases, Ages, Aligned, NoIntent
  <2>2. QED
    BY <1>2, <2>1 DEF View
<1>3. ASSUME ledger.phase = "active"
      PROVE  View = Candidate(ledger.row) /\ ledger.row \in Bundles /\ ledger.row >= wrote
  <2>1. /\ marker = ledger.row /\ route = ledger.row /\ ledger.row # 0 /\ ledger.row \in OrNone
        /\ Selects(ledger.row)
    BY <1>3 DEF Inv, TypeOK, Phases, Aligned
  <2>2. View = Candidate(ledger.row)
    BY <1>3, <2>1 DEF View
  <2>3. ledger.row >= wrote
    BY <2>1 DEF Inv, Journal, Selects
  <2>4. QED
    BY <2>1, <2>2, <2>3, SelectionAssumption DEF Bundles, OrNone
<1>4. QED
  BY <1>1, <1>2, <1>3 DEF ToldByPhase

\* How one step may move the ledger's phase, and what else a publish changes.
Moved ==
    /\ ledger.phase = "active" /\ ledger'.phase = "active" => ledger'.row = ledger.row
    /\ ledger.phase \in Unselected => ledger'.phase # "active"
    /\ ledger.phase = "active" => ledger'.phase \notin Unselected
    /\ wrote' = wrote \/ (WriterPublishes /\ UNCHANGED ledger)

\* Every step moves the phase and publishes as Moved says.
LEMMA Moves == ASSUME Inv, Next PROVE Moved
<1> USE DEF Moved, Unselected
<1>1. CASE WithdrawLooks
  BY <1>1, Entered DEF WithdrawLooks, Ends, syncer, Inv, TypeOK, Progress, Phase
<1>2. CASE Settles
  BY <1>2, Entered DEF Settles, Ends, syncer, Inv, TypeOK, Progress, Phase
<1>3. CASE BoundRebinds
  BY <1>3 DEF BoundRebinds, BoundRow, Ends, From, To, syncer, Inv, TypeOK, Progress
<1>4. CASE UpgradeFences
  BY <1>4 DEF UpgradeFences, Ends, Fenced, NewRow, OldRow, syncer, Inv, TypeOK
<1>5. CASE UpgradeRenames
  BY <1>5 DEF UpgradeRenames, Fenced, NewRow, syncer, Inv, TypeOK
<1>6. CASE UpgradeUnfences
  BY <1>6, Entered DEF UpgradeUnfences, Ends, NewRow, syncer, Inv, TypeOK, Phase
<1>7. CASE RestoreRenames
  BY <1>7 DEF RestoreRenames, syncer, Inv, TypeOK, Restoring
<1>8. CASE RestoreUnlocks
  BY <1>8, Entered DEF RestoreUnlocks, Ends, syncer, Inv, TypeOK, Restoring, Phase
<1>9. CASE Bind
  BY <1>9 DEF Bind, Begins, syncer, Inv, TypeOK
<1>10. CASE Activate
  BY <1>10, Entered DEF Activate, Begins, syncer, Inv, TypeOK, Phase
<1>11. CASE Withdraw
  BY <1>11, Entered DEF Withdraw, Begins, syncer, Inv, TypeOK, Phase
<1>12. CASE Retire
  BY <1>12, Entered DEF Retire, Begins, syncer, Inv, TypeOK, Phase
<1>13. CASE Restore
  BY <1>13, Entered DEF Restore, Begins, syncer, Inv, TypeOK, Phase
<1>14. CASE RestoreUnfences
  BY <1>14, Entered DEF RestoreUnfences, OnlyFenced, syncer, Inv, TypeOK, Phase
<1>15. CASE WriterPublishes
  BY <1>15 DEF WriterPublishes
<1>16. CASE BindMarks \/ ActivatePublishes \/ ActivateCommits \/ RecoverRewrites \/
          WithdrawUnlinks \/ WithdrawCommits \/ RetireUnmarks \/ SwapsSeal \/ SwapsReviewed
          \/ SwapsRoute \/ SwapsMarker \/ BoundPrepares \/ BoundReplaces \/ BoundCompletes
          \/ UpgradePrepares \/ UpgradeStages \/ UpgradeCommits \/ RestoreCommits \/ Recover
  BY <1>16 DEF BindMarks, ActivatePublishes, ActivateCommits, RecoverRewrites,
     WithdrawUnlinks, WithdrawCommits, RetireUnmarks, SwapsSeal, SwapsReviewed, SwapsRoute,
     SwapsMarker, BoundPrepares, BoundReplaces, BoundCompletes, UpgradePrepares,
     UpgradeStages, UpgradeCommits, RestoreCommits, Recover, syncer
<1>17. CASE BoundStarts \/ UpgradeStarts \/ WriterProves \/ WriterMarks \/ WriterConfirms \/
          WriterStops \/ Stops \/ HostUpdates
  BY <1>17 DEF BoundStarts, UpgradeStarts, WriterProves, WriterMarks, WriterConfirms,
     WriterStops, Stops, HostUpdates, syncer
<1>18. QED
  BY <1>1, <1>2, <1>3, <1>4, <1>5, <1>6, <1>7, <1>8, <1>9, <1>10, <1>11, <1>12, <1>13,
     <1>14, <1>15, <1>16, <1>17, Zenon DEF Next, OpSteps, WriterSteps

-----------------------------------------------------------------------------
(* Theorems *)

\* The inductive invariant of the whole component.
LEMMA Invariance == Spec => []Inv
  BY Initially, Step, PTL DEF Spec

\* Every variable of the selection keeps its type.
THEOREM TypeCorrect == Spec => []TypeOK
<1>1. Inv => TypeOK
  BY DEF Inv
<1>2. QED
  BY <1>1, Invariance, PTL

\* However an activation, an upgrade or a restore is interrupted, a bundle that a reader
\* is told is named by every file and by the journal.
THEOREM SelectedIsWhole == Spec => []SelectedWhole
<1>1. Inv => SelectedWhole
  BY Told DEF Inv, Journal, Phases, SelectedWhole, Selects
<1>2. QED
  BY <1>1, Invariance, PTL

\* No withdrawal, recovery, upgrade or restore takes back the selection of a bundle that
\* has published, or goes behind it.
THEOREM WritesAreKept == Spec => []WritesKept
<1>1. Inv => WritesKept
  BY DEF Inv, TypeOK, Journal, WritesKept
<1>2. QED
  BY <1>1, Invariance, PTL

\* Whatever an interrupted upgrade or restore has left behind its fence, an operator's
\* restore is accepted and none of its checks refuses a write before the last one, of the
\* store's counts; and that one lets every restore of a finished upgrade pass.
THEOREM FenceYields == Spec => []WayOut
<1>1. Inv => WayOut
  <2> SUFFICES ASSUME Inv PROVE WayOut
    OBVIOUS
  <2>1. ledger.phase = "upgrading" => writer = "idle"
    BY DEF Inv, Writes
  <2>2. ASSUME ledger.phase = "upgrading" PROVE ~Unrestorable \/ OnlyFenced
    <3>1. CASE Staged
      BY <3>1 DEF Staged, Unrestorable, Inv, Journal
    <3>2. CASE Committed /\ ~journal.seen
      BY <3>2 DEF Committed, Unrestorable
    <3>3. CASE Selects(intent.old) /\ journal.state = "old"
      BY <3>3 DEF Selects, Unrestorable, Inv, Journal
    <3>4. CASE Selects(intent.old) /\ journal.state = "active"
      BY <2>2, <3>4 DEF Selects, OnlyFenced, Inv, Phases
    <3>5. QED
      BY <2>2, <3>1, <3>2, <3>3, <3>4 DEF Selects, Inv, Phases
  <2>3. ASSUME op = "restore"
        PROVE  /\ {ledger.row, marker, route, reviewed, seal} \subseteq {From, To}
               /\ at = "journal" => Reversible \/ Reversed
    <3>1. ledger.phase = "upgrading" /\ From = intent.new /\ To = intent.old
      BY <2>3 DEF From, To, Inv, Restoring
    <3>2. {ledger.row, marker, route, reviewed, seal} \subseteq {From, To}
      BY <3>1 DEF Inv, Phases
    <3>3. ASSUME at = "journal" PROVE Reversible \/ Reversed
      <4>1. route = journal.prev /\ journal.prev = intent.old
        BY <2>3, <3>3 DEF Inv, Restoring
      <4>2. Selects(intent.old) => Reversed
        BY <4>1 DEF Selects, Reversed, Inv, TypeOK, Journal, OrNone, NoIntent
      <4>3. Staged \/ (Committed /\ ~journal.seen) => Reversible
        BY <4>1 DEF Staged, Committed, Reversible
      <4>4. QED
        BY <3>1, <4>2, <4>3 DEF Inv, Phases
    <3>4. QED
      BY <3>2, <3>3
  <2>4. ledger.phase = "active" /\ ledger.row = intent.new /\ ~Unrestorable => ~moved
    BY DEF Inv, Unmoved
  <2>5. QED
    BY <2>1, <2>2, <2>3, <2>4 DEF WayOut
<1>2. QED
  BY <1>1, Invariance, PTL

\* Selection implements SelectionContract: each step of the detailed system is one of the
\* contract's or leaves what a reader is told alone.
THEOREM SelectionImplements == Spec => ContractSpec
<1> USE DEF Contract!Legacy, Contract!Blocked, Contract!Candidate, Legacy, Blocked, Candidate
<1>1. Init => Contract!Init
  <2>1. ASSUME Init PROVE View = Legacy /\ wrote = 0
    BY <2>1 DEF Init, View
  <2>2. QED
    BY <2>1 DEF Contract!Init
<1>2. Inv /\ Inv' /\ ToldByPhase /\ ToldByPhase' /\ [Next]_vars => [Contract!Next]_Contract!vars
  <2> SUFFICES ASSUME Inv, Inv', ToldByPhase, ToldByPhase', [Next]_vars
               PROVE  Contract!Next \/ UNCHANGED <<View, wrote>>
    BY DEF Contract!vars
  <2>1. CASE UNCHANGED vars
    BY <2>1 DEF vars, files, intents, syncer, View, Selects
  <2>2. CASE Next
    <3>1. Moved
      BY <2>2, Moves
    <3>2. CASE WriterPublishes /\ UNCHANGED ledger
      <4>1. View' = View
        BY <3>2 DEF WriterPublishes, files, View, Selects
      <4>2. View \in {Blocked, Candidate(target)} /\ target \in Bundles /\ target >= wrote
        <5>1. journal.state = "active" /\ journal.sel = target /\ target \in OrNone /\ target >= wrote
          BY <3>2 DEF WriterPublishes, Inv, TypeOK, Journal, Writes
        <5>2. ledger.phase \in {"switching", "restoring", "upgrading", "active"}
          BY <5>1 DEF Inv, TypeOK, Phases
        <5>3. target # 0
          BY <5>1, <5>2 DEF Inv, Phases, Ages, Selects, Staged, Committed
        <5>4. ledger.phase = "active" => ledger.row = target
          BY <5>1 DEF Inv, Phases, Selects
        <5>5. QED
          BY <5>1, <5>2, <5>3, <5>4, SelectionAssumption DEF ToldByPhase, OrNone, Bundles
      <4>3. wrote' = target
        BY <3>2 DEF WriterPublishes
      <4>4. Contract!Publish(target)
        BY <4>1, <4>2, <4>3 DEF Contract!Publish
      <4>5. QED
        BY <4>2, <4>4 DEF Contract!Next, Bundles
    <3>3. CASE wrote' = wrote
      <4>1. /\ ledger.phase \in Unselected \cup {"switching", "restoring", "upgrading", "active"}
            /\ ledger'.phase \in Unselected \cup {"switching", "restoring", "upgrading", "active"}
        BY DEF Inv, TypeOK, Unselected
      <4>2. CASE ledger.phase \in Unselected
        <5>1. View \in {Legacy, Blocked} /\ View' \in {Legacy, Blocked} /\ wrote = 0
          BY <3>1, <4>1, <4>2 DEF ToldByPhase, Moved
        <5>2. QED
          BY <3>3, <5>1 DEF Contract!Next, Contract!Block, Contract!Withdraw
      <4>3. CASE ledger.phase \in {"switching", "restoring", "upgrading"}
        <5>1. View = Blocked
          BY <4>3 DEF ToldByPhase
        <5>2. CASE ledger'.phase = "active"
          <6>1. View' = Candidate(ledger'.row) /\ ledger'.row \in Bundles /\ ledger'.row >= wrote
            BY <3>3, <5>2 DEF ToldByPhase, Bundles
          <6>2. Contract!Select(ledger'.row)
            BY <3>3, <5>1, <6>1 DEF Contract!Select
          <6>3. QED
            BY <6>1, <6>2 DEF Contract!Next, Bundles
        <5>3. CASE ledger'.phase # "active"
          <6>1. View' = Blocked \/ (View' = Legacy /\ wrote = 0)
            BY <3>3, <4>1, <5>3 DEF ToldByPhase
          <6>2. QED
            BY <3>3, <5>1, <6>1 DEF Contract!Next, Contract!Withdraw
        <5>4. QED
          BY <5>2, <5>3
      <4>4. CASE ledger.phase = "active"
        <5>1. View = Candidate(ledger.row)
          BY <4>4 DEF ToldByPhase
        <5>2. View' = Blocked \/ View' = Candidate(ledger.row)
          BY <3>1, <4>1, <4>4 DEF ToldByPhase, Moved
        <5>3. QED
          BY <3>3, <5>1, <5>2 DEF Contract!Next, Contract!Block
      <4>5. QED
        BY <4>1, <4>2, <4>3, <4>4
    <3>4. QED
      BY <3>1, <3>2, <3>3 DEF Moved
  <2>3. QED
    BY <2>1, <2>2
<1>3. QED
  BY <1>1, <1>2, Tells, Invariance, PTL DEF Spec, ContractSpec, Contract!Spec
=============================================================================
