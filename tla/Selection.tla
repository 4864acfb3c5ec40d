----------------------------- MODULE Selection -----------------------------
(***************************************************************************)
(* Which bundle serves one project: the install journal                    *)
(* (laya_install_journal.py), the selection ledger, marker and route file   *)
(* (laya_fresh_wiki_origin.py), the reviewed route and provider attestation *)
(* beside them, and everything that moves them: binding, activation,        *)
(* recovery, withdrawal, retirement, the automatic upgrades of a bound and  *)
(* of a selected build and their restore (laya_bound_upgrade.py,            *)
(* laya_active_upgrade.py, laya_bundle_upgrade.py), against the sync worker *)
(* that publishes through the selection (laya_product_sync_worker.py).      *)
(*                                                                         *)
(* A bundle is its age, 1 .. Newest; a file that names a bundle's route,    *)
(* attestation or digest is the number of that bundle, 0 when absent.  An   *)
(* operation holds the install and operation locks, so there is one at a    *)
(* time; each action is one durable write of it.  The host bundle may only   *)
(* move on between operations: an operation in flight never looks at it.     *)
(* Left out: builds not bound yet, copies of the same bundle, backups.       *)
(*                                                                         *)
(* A definition marked "Variant" is not part of the model: it is a slip     *)
(* one of the properties exists to catch.                                   *)
(***************************************************************************)
EXTENDS Naturals

CONSTANTS
    Newest,       \* the newest bundle
    MaxFaults,    \* bound: operations that stop half way
    MaxRestores   \* bound: restores of an upgrade

ASSUME SelectionAssumption ==
    Newest \in Nat \ {0} /\ MaxFaults \in Nat /\ MaxRestores \in Nat

VARIABLES
    journal,            \* install-journal.sqlite: state, selected, previous, pending, newWriteSeen
    ledger,             \* fresh-wiki-cutover.json: phase, the bundle it names, epoch
    marker, route,      \* in the project: the marker and the published route
    reviewed, seal,     \* in the state root: reviewed-route.json, the attestation
    intent, boundIntent, \* the upgrade intents on disk
    op, at,             \* the operation under way and its next write
    knows,              \* who has read the journal's present epoch
    writer, target,     \* the sync worker, and the bundle it runs as
    host,               \* the bundle the host executes
    wrote,              \* history: the bundle of the last publish
    moved,              \* the store no longer has the counts that the intent recorded
    faults, restores

files == <<marker, route, reviewed, seal>>
intents == <<intent, boundIntent>>
syncer == <<writer, target, wrote, moved>>
bounds == <<host, faults, restores>>
vars == <<journal, ledger, files, intents, op, at, knows, syncer, bounds>>

Bundles == 1..Newest
OrNone == 0..Newest
NoIntent == [old |-> 0, new |-> 0, epoch |-> 0]

Ops == {"none", "bind", "activate", "undo", "confirm", "withdraw", "retire",
        "bound", "upgrade", "restore"}

TypeOK ==
    /\ journal \in [state : {"ready", "pending", "active", "old", "origin"},
                    sel : OrNone, prev : OrNone, pend : OrNone, seen : BOOLEAN]
    /\ ledger \in [phase : {"none", "prepared", "switching", "active", "upgrading",
                            "restoring", "restored", "retired"},
                   row : OrNone, epoch : Nat]
    /\ marker \in OrNone /\ route \in OrNone /\ reviewed \in Bundles /\ seal \in Bundles
    /\ intent \in [old : OrNone, new : OrNone, epoch : Nat]
    /\ boundIntent \in [old : OrNone, new : OrNone, epoch : Nat]
    /\ op \in Ops
    /\ at \in {"none", "look", "prepare", "fence", "stage", "seal", "reviewed", "route",
               "row", "marker", "journal", "phase"}
    /\ knows \subseteq {"op", "writer"}
    /\ writer \in {"idle", "proved", "marked", "confirmed"} /\ target \in OrNone
    /\ host \in Bundles /\ wrote \in OrNone /\ moved \in BOOLEAN
    /\ faults \in 0..MaxFaults /\ restores \in 0..MaxRestores

\* A sealed, inactive build of bundle 1 (create_journal).
Init ==
    /\ journal = [state |-> "ready", sel |-> 0, prev |-> 0, pend |-> 1, seen |-> FALSE]
    /\ ledger = [phase |-> "none", row |-> 0, epoch |-> 0]
    /\ marker = 0 /\ route = 0 /\ reviewed = 1 /\ seal = 1
    /\ intent = NoIntent /\ boundIntent = NoIntent
    /\ op = "none" /\ at = "none" /\ knows = {}
    /\ writer = "idle" /\ target = 0
    /\ host = 1 /\ wrote = 0 /\ moved = FALSE /\ faults = 0 /\ restores = 0

-----------------------------------------------------------------------------
(* What a reader is told *)

Legacy == <<"legacy", 0>>
Blocked == <<"blocked", 0>>
Candidate(b) == <<"candidate", b>>

Selects(b) == journal.state \in {"active", "old"} /\ journal.sel = b

\* select_route and classify_marker.
View ==
    IF marker = 0 THEN Legacy
    ELSE IF marker # ledger.row THEN Blocked
    ELSE IF route # 0
    THEN IF route = ledger.row /\ ledger.phase = "active" /\ Selects(route)
         THEN Candidate(route) ELSE Blocked
    ELSE IF \/ /\ ledger.phase \in {"prepared", "retired"} /\ journal.state = "ready"
               /\ journal.pend = ledger.row /\ ~journal.seen
            \/ ledger.phase = "restored" /\ journal.state = "origin"
         THEN Legacy ELSE Blocked

-----------------------------------------------------------------------------
(* Writes *)

Free == op = "none"
Begins(o, a) == Free /\ op' = o /\ at' = a
Ends == op' = "none" /\ at' = "none"
Goes(a) == at' = a /\ UNCHANGED op

\* _change: the ledger's compare-and-swap to its next phase.
Enters(phase) == ledger' = [ledger EXCEPT !.phase = phase, !.epoch = @ + 1]

\* A committed _cas: whoever read the epoch before has to read it again.
Commits(j) == journal' = j /\ knows' = {}

\* cas_activate: the visible route and attestation are the pending bundle's.
PendingVisible == journal.pend # 0 /\ route = journal.pend /\ seal = journal.pend
Activated == [journal EXCEPT !.state = "active", !.sel = journal.pend, !.pend = 0]

\* The build record, the ledger, its marker and both reviewed files agree on b.
Aligned(b) == marker = b /\ ledger.row = b /\ reviewed = b /\ seal = b

-----------------------------------------------------------------------------
(* Binding, activation, recovery, withdrawal, retirement *)

\* bind: the ledger, unless an interrupted bind left it, then the marker.
Bind ==
    /\ Begins("bind", "marker")
    /\ journal.state = "ready" /\ journal.pend = reviewed /\ seal = reviewed
    /\ route = 0 /\ marker \in {0, reviewed}
    /\ LET bound == [phase |-> "prepared", row |-> reviewed, epoch |-> 1]
       IN (ledger.phase = "none" \/ (ledger = bound /\ marker = 0)) /\ ledger' = bound
    /\ UNCHANGED <<journal, files, intents, knows, syncer, bounds>>

BindMarks ==
    /\ op = "bind" /\ marker' = ledger.row /\ Ends
    /\ UNCHANGED <<journal, ledger, route, reviewed, seal, intents, knows, syncer, bounds>>

\* activate: prepared -> switching, the route, the journal, switching -> active.
Activate ==
    /\ Begins("activate", "route")
    /\ ledger.phase = "prepared" /\ Aligned(ledger.row)
    /\ journal.state = "ready" /\ journal.pend = ledger.row
    /\ Enters("switching")
    /\ UNCHANGED <<journal, files, intents, knows, syncer, bounds>>

ActivatePublishes ==
    /\ op = "activate" /\ at = "route" /\ route = 0
    /\ route' = reviewed /\ Goes("journal")
    /\ UNCHANGED <<journal, ledger, marker, reviewed, seal, intents, knows, syncer, bounds>>

ActivateCommits ==
    /\ op = "activate" /\ at = "journal" /\ PendingVisible
    /\ Commits(Activated) /\ Goes("phase")
    /\ UNCHANGED <<ledger, files, intents, syncer, bounds>>

\* recover: what an interrupted activation or withdrawal left decides which way it goes.
Recover ==
    /\ ledger.phase \in {"switching", "restoring"} /\ marker = ledger.row /\ reviewed = ledger.row
    /\ route \in {0, ledger.row}
    /\ \/ /\ ledger.phase = "switching" /\ journal.state = "ready"
          /\ Begins("undo", "route") /\ UNCHANGED knows
       \/ /\ \/ ledger.phase = "switching"
             \/ ledger.phase = "restoring" /\ journal.seen
          /\ journal.state = "active" /\ journal.sel = ledger.row
          /\ Begins("confirm", "route") /\ UNCHANGED knows
       \/ /\ ledger.phase = "restoring" /\ journal.state = "active" /\ ~journal.seen
          /\ Begins("withdraw", "route") /\ knows' = knows \cup {"op"}
       \/ /\ ledger.phase = "restoring" /\ journal.state = "origin" /\ route = 0
          /\ Begins("withdraw", "phase") /\ UNCHANGED knows
    /\ UNCHANGED <<journal, ledger, files, intents, syncer, bounds>>

RecoverRewrites ==
    /\ op \in {"undo", "confirm"} /\ at = "route"
    /\ route' = IF op = "undo" THEN 0 ELSE ledger.row
    /\ Goes("phase")
    /\ UNCHANGED <<journal, ledger, marker, reviewed, seal, intents, knows, syncer, bounds>>

\* restore of a fresh selection: the fence, a second look at the journal, the route,
\* the journal, the ledger.
Withdraw ==
    /\ Begins("withdraw", "look")
    /\ ledger.phase = "active" /\ marker = ledger.row /\ route = ledger.row /\ reviewed = ledger.row
    /\ journal.state = "active" /\ journal.prev = 0 /\ ~journal.seen
    /\ Enters("restoring")
    /\ UNCHANGED <<journal, files, intents, knows, syncer, bounds>>

WithdrawLooks ==
    /\ op = "withdraw" /\ at = "look"
    /\ IF journal.seen
       THEN Enters("active") /\ Ends /\ UNCHANGED knows
       ELSE Goes("route") /\ knows' = knows \cup {"op"} /\ UNCHANGED ledger
    /\ UNCHANGED <<journal, files, intents, syncer, bounds>>

WithdrawUnlinks ==
    /\ op = "withdraw" /\ at = "route"
    /\ route' = 0 /\ Goes("journal")
    /\ UNCHANGED <<journal, ledger, marker, reviewed, seal, intents, knows, syncer, bounds>>

\* cas_restore_fresh.
WithdrawCommits ==
    /\ op = "withdraw" /\ at = "journal"
    /\ IF "op" \in knows /\ journal.state = "active" /\ journal.prev = 0 /\ ~journal.seen
       THEN /\ Commits([journal EXCEPT !.state = "origin", !.sel = 0, !.pend = 0])
            /\ Goes("phase")
       ELSE Ends /\ UNCHANGED <<journal, knows>>
    /\ UNCHANGED <<ledger, files, intents, syncer, bounds>>

\* The last write of each of these operations.
Settles ==
    /\ at = "phase"
    /\ \/ op \in {"activate", "confirm"} /\ Enters("active")
       \/ op = "undo" /\ Enters("prepared")
       \/ op = "withdraw" /\ Enters("restored")
    /\ Ends
    /\ UNCHANGED <<journal, files, intents, knows, syncer, bounds>>

\* retire: a bound build that was never selected gives its marker up.
Retire ==
    /\ Begins("retire", "marker")
    /\ ledger.phase \in {"prepared", "retired"} /\ route = 0
    /\ journal.state = "ready" /\ journal.pend = ledger.row
    /\ marker = ledger.row \/ (marker = 0 /\ ledger.phase = "prepared")
    /\ IF ledger.phase = "prepared" THEN Enters("retired") ELSE UNCHANGED ledger
    /\ UNCHANGED <<journal, files, intents, knows, syncer, bounds>>

RetireUnmarks ==
    /\ op = "retire" /\ marker' = 0 /\ Ends
    /\ UNCHANGED <<journal, ledger, route, reviewed, seal, intents, knows, syncer, bounds>>

-----------------------------------------------------------------------------
(* The upgrades *)

\* Variant: the attestation is replaced before the fence is up.
AfterSealFirst ==
  [bound   |-> [prepare |-> "seal", seal |-> "journal", journal |-> "reviewed",
                reviewed |-> "row", row |-> "marker", marker |-> "phase"],
   upgrade |-> [prepare |-> "seal", seal |-> "fence", fence |-> "stage", stage |-> "reviewed",
                reviewed |-> "route", route |-> "row", row |-> "marker", marker |-> "journal",
                journal |-> "phase"],
   restore |-> [route |-> "seal", seal |-> "reviewed", reviewed |-> "journal",
                journal |-> "marker", marker |-> "row", row |-> "phase"]]

\* The order of the durable writes of a switch.
After ==
  [bound   |-> [prepare |-> "seal", seal |-> "journal", journal |-> "reviewed",
                reviewed |-> "row", row |-> "marker", marker |-> "phase"],
   upgrade |-> [prepare |-> "fence", fence |-> "stage", stage |-> "seal", seal |-> "reviewed",
                reviewed |-> "route", route |-> "row", row |-> "marker", marker |-> "journal",
                journal |-> "phase"],
   restore |-> [route |-> "seal", seal |-> "reviewed", reviewed |-> "journal",
                journal |-> "marker", marker |-> "row", row |-> "phase"]]

Switching == op \in DOMAIN After
Proceeds == Goes(After[op][at])

\* What the switch under way leaves behind and what it puts in its place.
From == IF op = "bound" THEN boundIntent.old ELSE IF op = "upgrade" THEN intent.old ELSE intent.new
To   == IF op = "bound" THEN boundIntent.new ELSE IF op = "upgrade" THEN intent.new ELSE intent.old

\* _atomic_expected: a file of the old bundle is replaced, one of the new is left.
SwapsSeal ==
    /\ Switching /\ at = "seal" /\ seal \in {From, To} /\ seal' = To /\ Proceeds
    /\ UNCHANGED <<journal, ledger, marker, route, reviewed, intents, knows, syncer, bounds>>

SwapsReviewed ==
    /\ Switching /\ at = "reviewed" /\ reviewed \in {From, To} /\ reviewed' = To /\ Proceeds
    /\ UNCHANGED <<journal, ledger, marker, route, seal, intents, knows, syncer, bounds>>

SwapsRoute ==
    /\ Switching /\ at = "route" /\ route \in {From, To} /\ route' = To /\ Proceeds
    /\ UNCHANGED <<journal, ledger, marker, reviewed, seal, intents, knows, syncer, bounds>>

SwapsMarker ==
    /\ Switching /\ at = "marker" /\ marker \in {From, To} /\ marker' = To /\ Proceeds
    /\ UNCHANGED <<journal, ledger, route, reviewed, seal, intents, knows, syncer, bounds>>

\* upgrade_install of a bound build: nothing is done for a project whose journal
\* already names the host's bundle; another bundle's intent is finished first.
BoundStarts ==
    /\ journal.state = "ready" /\ ledger.phase = "prepared" /\ marker # 0 /\ journal.pend # host
    /\ Begins("bound", IF boundIntent = NoIntent THEN "prepare" ELSE "seal")
    /\ UNCHANGED <<journal, ledger, files, intents, knows, syncer, bounds>>

BoundPrepares ==
    /\ op = "bound" /\ at = "prepare" /\ host # ledger.row
    /\ Aligned(ledger.row) /\ View = Legacy /\ journal.pend = ledger.row
    /\ boundIntent' = [old |-> ledger.row, new |-> host, epoch |-> ledger.epoch] /\ Proceeds
    /\ UNCHANGED <<journal, ledger, files, intent, knows, syncer, bounds>>

\* cas_replace_inactive_candidate.
BoundReplaces ==
    /\ op = "bound" /\ at = "journal" /\ journal.state = "ready" /\ journal.pend \in {From, To}
    /\ IF journal.pend = From THEN Commits([journal EXCEPT !.pend = To])
                              ELSE UNCHANGED <<journal, knows>>
    /\ Proceeds
    /\ UNCHANGED <<ledger, files, intents, syncer, bounds>>

BoundRow(b, n) == [phase |-> "prepared", row |-> b, epoch |-> boundIntent.epoch + n]

BoundRebinds ==
    /\ op = "bound" /\ at = "row"
    /\ IF ledger \in {BoundRow(From, 0), BoundRow(To, 1)}
       THEN ledger' = BoundRow(To, 1) /\ Proceeds
       ELSE Ends /\ UNCHANGED ledger
    /\ UNCHANGED <<journal, files, intents, knows, syncer, bounds>>

\* The intent becomes a receipt; a request for yet another bundle goes on from there.
BoundCompletes ==
    /\ op = "bound" /\ at = "phase" /\ Aligned(To) /\ View = Legacy
    /\ boundIntent' = NoIntent
    /\ IF To = host THEN Ends ELSE Goes("prepare")
    /\ UNCHANGED <<journal, ledger, files, intent, knows, syncer, bounds>>

-----------------------------------------------------------------------------
OldRow == [phase |-> "active", row |-> intent.old, epoch |-> intent.epoch]
Fenced == [phase |-> "upgrading", row |-> intent.old, epoch |-> intent.epoch + 1]
NewRow == [phase |-> "upgrading", row |-> intent.new, epoch |-> intent.epoch + 2]

\* Variant: nobody comes back once the journal has switched.
FinishableNever == FALSE

\* finish_activated: only the rest of a committed switch is missing.
Finishable ==
    intent # NoIntent /\ ledger = NewRow /\ journal.state = "active" /\ journal.sel = intent.new

RestoredSettled ==
    ledger.phase = "active" /\ ledger.row = intent.old /\ journal.state = "old"
    /\ journal.sel = intent.old

\* finished_intent_receipt.
Settled ==
    /\ ledger.phase = "active" /\ ledger.row \in {intent.old, intent.new}
    /\ Selects(ledger.row) /\ View = Candidate(ledger.row)
    /\ ledger.row = intent.old => journal.state = "old"

\* _old_state.
Upgradable ==
    /\ ledger.phase = "active" /\ Aligned(ledger.row) /\ route = ledger.row
    /\ View = Candidate(ledger.row) /\ host # ledger.row

\* upgrade_install of a selected build, under the provider lock the sync worker also needs.
UpgradeStarts ==
    /\ writer = "idle" /\ journal.state \in {"active", "old", "pending"}
    /\ \/ /\ intent # NoIntent
          /\ Finishable \/ (journal.sel # host /\ intent.new = host /\ ~RestoredSettled)
          /\ Begins("upgrade", "fence") /\ UNCHANGED intent
       \/ /\ intent # NoIntent /\ ~Finishable /\ journal.sel # host
          /\ (intent.new # host \/ RestoredSettled) /\ Settled
          /\ Begins("upgrade", "prepare") /\ intent' = NoIntent
       \/ /\ intent = NoIntent /\ journal.sel # host /\ Upgradable
          /\ Begins("upgrade", "prepare") /\ UNCHANGED intent
    /\ UNCHANGED <<journal, ledger, files, boundIntent, knows, syncer, bounds>>

\* _prepare: the intent records the counts of the store as they are.
UpgradePrepares ==
    /\ op = "upgrade" /\ at = "prepare" /\ Upgradable
    /\ intent' = [old |-> ledger.row, new |-> host, epoch |-> ledger.epoch] /\ Proceeds
    /\ moved' = FALSE
    /\ UNCHANGED <<journal, ledger, files, boundIntent, knows, writer, target, wrote, bounds>>

\* _fence.
UpgradeFences ==
    /\ op = "upgrade" /\ at = "fence"
    /\ IF ledger \in {OldRow, Fenced, NewRow}
       THEN ledger' = (IF ledger = OldRow THEN Fenced ELSE ledger) /\ Proceeds
       ELSE Ends /\ UNCHANGED ledger
    /\ UNCHANGED <<journal, files, intents, knows, syncer, bounds>>

\* Variant: staging keeps the mark of the old bundle's writes.
UpgradeStagesSeen ==
    /\ op = "upgrade" /\ at = "stage" /\ Selects(From)
    /\ Commits([journal EXCEPT !.state = "pending", !.prev = From, !.pend = To])
    /\ Proceeds
    /\ UNCHANGED <<ledger, files, intents, syncer, bounds>>

\* cas_stage_update, unless the journal is already that far.
UpgradeStages ==
    /\ op = "upgrade" /\ at = "stage"
    /\ \/ /\ Selects(From)
          /\ Commits([state |-> "pending", sel |-> From, prev |-> From, pend |-> To, seen |-> FALSE])
       \/ /\ (journal.state = "pending" /\ journal.pend = To) \/ (journal.state = "active" /\ journal.sel = To)
          /\ UNCHANGED <<journal, knows>>
    /\ Proceeds
    /\ UNCHANGED <<ledger, files, intents, syncer, bounds>>

\* _replace_ledger.
UpgradeRenames ==
    /\ op = "upgrade" /\ at = "row" /\ ledger \in {Fenced, NewRow}
    /\ ledger' = NewRow /\ Proceeds
    /\ UNCHANGED <<journal, files, intents, knows, syncer, bounds>>

UpgradeCommits ==
    /\ op = "upgrade" /\ at = "journal"
    /\ \/ journal.state = "pending" /\ PendingVisible /\ Commits(Activated)
       \/ journal.state = "active" /\ journal.sel = To /\ UNCHANGED <<journal, knows>>
    /\ Proceeds
    /\ UNCHANGED <<ledger, files, intents, syncer, bounds>>

\* The recheck (active_upgrade_recheck_failed), then the fence.
UpgradeUnfences ==
    /\ op = "upgrade" /\ at = "phase" /\ ledger = NewRow /\ Ends
    /\ IF moved THEN UNCHANGED ledger ELSE Enters("active")
    /\ UNCHANGED <<journal, files, intents, knows, syncer, bounds>>

Unrestorable == journal.seen \/ journal.prev # intent.old

\* upgrade(restore=True): back to the bundle before, until the new one has published.
Restore ==
    /\ writer = "idle" /\ intent # NoIntent /\ ~Unrestorable /\ restores < MaxRestores
    /\ restores' = restores + 1
    /\ Begins("restore", "route")
    /\ \/ ledger.phase = "active" /\ ledger.row = intent.new /\ Enters("upgrading")
       \/ ledger.phase = "upgrading" /\ UNCHANGED ledger
    /\ UNCHANGED <<journal, files, intents, knows, syncer, host, faults>>

OnlyFenced ==
    /\ ledger.phase = "upgrading" /\ Selects(intent.old)
    /\ Aligned(intent.old) /\ route = intent.old

\* ... or nothing but the fence has to be taken back.
RestoreUnfences ==
    /\ Free /\ writer = "idle" /\ intent # NoIntent /\ Unrestorable /\ restores < MaxRestores
    /\ restores' = restores + 1
    /\ OnlyFenced
    /\ Enters("active")
    /\ UNCHANGED <<journal, files, intents, op, at, knows, syncer, host, faults>>

\* cas_recover of a pending switch, cas_restore of a committed one.
Reversible ==
    /\ \/ journal.state = "pending" /\ journal.pend = intent.new
       \/ journal.state = "active" /\ journal.sel = intent.new /\ ~journal.seen
    /\ route = journal.prev

Reversed == journal.state = "old" /\ journal.sel = intent.old

RestoreCommits ==
    /\ op = "restore" /\ at = "journal"
    /\ \/ Reversible /\ Commits([journal EXCEPT !.state = "old", !.sel = journal.prev, !.pend = 0])
       \/ Reversed /\ UNCHANGED <<journal, knows>>
    /\ Proceeds
    /\ UNCHANGED <<ledger, files, intents, syncer, bounds>>

RestoreRenames ==
    /\ op = "restore" /\ at = "row"
    /\ ledger' = [phase |-> "upgrading", row |-> intent.old, epoch |-> ledger.epoch + 1]
    /\ Proceeds
    /\ UNCHANGED <<journal, files, intents, knows, syncer, bounds>>

\* The same check (active_upgrade_restore_store_changed), then the fence.
RestoreUnlocks ==
    /\ op = "restore" /\ at = "phase" /\ Ends
    /\ IF moved THEN UNCHANGED ledger ELSE Enters("active")
    /\ UNCHANGED <<journal, files, intents, knows, syncer, bounds>>

-----------------------------------------------------------------------------
(* The sync worker.  It holds the provider lane of an upgrade from its first proof to *)
(* its last publish, but not the locks of an activation or a withdrawal.              *)

Proves(b) == View = Candidate(b) /\ "writer" \in knows

WriterProves ==
    /\ writer = "idle" /\ op \notin {"upgrade", "restore"}
    /\ \E b \in Bundles : View = Candidate(b) /\ target' = b
    /\ writer' = "proved" /\ knows' = knows \cup {"writer"}
    /\ UNCHANGED <<journal, ledger, files, intents, op, at, wrote, moved, bounds>>

\* Variant: a worker publishes without marking first.
WriterMarksNothing ==
    /\ writer = "proved" /\ "writer" \in knows /\ journal.state = "active"
    /\ writer' = "marked"
    /\ UNCHANGED <<journal, knows, ledger, files, intents, op, at, target, wrote, moved, bounds>>

\* cas_mark_new_write: a selection that was restored takes no writes.
WriterMarks ==
    /\ writer = "proved" /\ "writer" \in knows /\ journal.state = "active"
    /\ journal' = [journal EXCEPT !.seen = TRUE] /\ knows' = {"writer"}
    /\ writer' = "marked"
    /\ UNCHANGED <<ledger, files, intents, op, at, target, wrote, moved, bounds>>

WriterConfirms ==
    /\ writer = "marked" /\ Proves(target) /\ writer' = "confirmed"
    /\ UNCHANGED <<journal, ledger, files, intents, op, at, knows, target, wrote, moved, bounds>>

\* Another publish of the same run proves the selection once more.  Each may change
\* the counts of the store, or bring them back.
WriterPublishes ==
    /\ writer = "confirmed" /\ wrote' = target /\ writer' \in {"marked", "idle"}
    /\ moved' \in {FALSE, intent # NoIntent}
    /\ UNCHANGED <<journal, ledger, files, intents, op, at, knows, target, bounds>>

\* Refused, deferred or dead.
WriterStops ==
    /\ writer # "idle" /\ writer' = "idle"
    /\ UNCHANGED <<journal, ledger, files, intents, op, at, knows, target, wrote, moved, bounds>>

-----------------------------------------------------------------------------
\* The operation dies, or a check, a lock or a write of it fails.
Stops ==
    /\ ~Free /\ faults < MaxFaults /\ faults' = faults + 1 /\ Ends
    /\ UNCHANGED <<journal, ledger, files, intents, knows, syncer, host, restores>>

\* The host starts running a newer bundle.
HostUpdates ==
    /\ Free /\ host < Newest /\ host' = host + 1
    /\ UNCHANGED <<journal, ledger, files, intents, op, at, knows, syncer, faults, restores>>

\* The rest of an operation that has begun.
OpSteps ==
    \/ BindMarks \/ ActivatePublishes \/ ActivateCommits \/ RecoverRewrites \/ WithdrawLooks
    \/ WithdrawUnlinks \/ WithdrawCommits \/ Settles \/ RetireUnmarks
    \/ SwapsSeal \/ SwapsReviewed \/ SwapsRoute \/ SwapsMarker
    \/ BoundPrepares \/ BoundReplaces \/ BoundRebinds \/ BoundCompletes
    \/ UpgradePrepares \/ UpgradeFences \/ UpgradeStages \/ UpgradeRenames \/ UpgradeCommits
    \/ UpgradeUnfences \/ RestoreCommits \/ RestoreRenames \/ RestoreUnlocks

WriterSteps == WriterProves \/ WriterMarks \/ WriterConfirms \/ WriterPublishes \/ WriterStops

Next ==
    \/ OpSteps \/ BoundStarts \/ UpgradeStarts
    \/ Bind \/ Activate \/ Recover \/ Withdraw \/ Retire \/ Restore \/ RestoreUnfences
    \/ WriterSteps \/ Stops \/ HostUpdates

Spec == Init /\ [][Next]_vars

\* Operations go on, SessionStarts and fenced recalls keep asking for the worker
\* (laya_bundle_upgrade.request), and the sync worker ends its runs.
FairSpec ==
    Spec /\ WF_vars(OpSteps) /\ WF_vars(BoundStarts) /\ WF_vars(UpgradeStarts) /\ WF_vars(WriterStops)

-----------------------------------------------------------------------------
(* Properties *)

\* Whatever a reader may use is whole: the route, the reviewed route, the attestation
\* and the journal's selection are all of the bundle it is told.
SelectedWhole ==
    \A b \in Bundles : View = Candidate(b) =>
        Aligned(b) /\ route = b /\ journal.sel = b /\ journal.pend = 0

\* A publish is never taken back: after it neither legacy nor an older bundle is selected.
WritesKept == wrote # 0 => journal.state # "origin" /\ journal.sel >= wrote

\* Every change of the selection passes through "blocked" and respects the publishes.
Contract == INSTANCE SelectionContract WITH view <- View, wrote <- wrote
ContractSpec == Contract!Spec

\* The automatic worker can no longer lift the fence of an upgrade: the host has moved on
\* from a switch not committed, a restore was interrupted, or a publish between intent
\* and fence changed the counts of the store, which every resume then refuses.
Abandoned ==
    \/ ~Finishable /\ intent.new # host
    \/ ledger \notin {Fenced, NewRow}
    \/ moved

\* The fence of an interrupted upgrade is lifted without an operator, unless it is
\* abandoned.
FenceLifts == ledger.phase = "upgrading" ~> ledger.phase # "upgrading" \/ (Free /\ Abandoned)

\* Whatever an interrupted upgrade or restore has left behind its fence, and whatever
\* bundle the host runs by then, an operator's restore is accepted, and no check refuses
\* a write once it has begun, up to the last check, which refuses to lift the fence of a
\* store that has moved since the intent.  A restore of a finished upgrade, which raises
\* the fence itself, never meets that refusal.
WayOut ==
    /\ ledger.phase = "upgrading" => writer = "idle"
    /\ ledger.phase = "upgrading" /\ Free => ~Unrestorable \/ OnlyFenced
    /\ op = "restore" => /\ {ledger.row, marker, route, reviewed, seal} \subseteq {From, To}
                         /\ at = "journal" => Reversible \/ Reversed
    /\ ledger.phase = "active" /\ ledger.row = intent.new /\ ~Unrestorable => ~moved

\* laya_bound_upgrade.py: "a crash leaves the intent for the next run of this same action
\* to finish".
BoundFinishes == boundIntent # NoIntent ~> boundIntent = NoIntent \/ ledger.phase # "prepared"
=============================================================================
