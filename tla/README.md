# Verification of the QMD/Laya runtime

TLA+ models, TLC runs and TLAPS proofs for the background runtime of this
repository: the durable wake queue, the processes that work on it and what
becomes of a wake that fails; the training of one learning job under the
resource coordinator; the selection of the bundle that serves a project, with
its upgrades; the way an index follows its sources; and the way an edited source
becomes reviewed wiki cards. Paths are relative to `src/`.

## 1. The system

The program keeps a project's index, wiki and learned selection up to date
from short-lived processes: hooks of the host agent, command-line tools, a
resident service when one runs. None of them does the work itself. Each leaves
a durable *wake* (kind, target) in a per-user SQLite queue and makes sure some
process will come and dispatch it. There is no boot service and no scheduler:
processes start each other, and coordinate by `flock`s, which the kernel drops
when their holder dies.

### Inventory

| Part (source) | State | Operations | What is hard | What makes it correct |
|---|---|---|---|---|
| Queue tables (`core/runtime_work.py`, `WakeQueue`) | tables `wakes`, `wake_meta`, `wake_overflow` | `offer`, `pending` (promotes overflow), claim, ACK, retry | statements outside a transaction; capacity; revisions | nothing retained is lost; the ACK keeps a newer offer; bounded |
| Queue processes (`core/runtime_work.py`) | worker lease, handoff lock, timer lock, yield file | `request`, `_wake`, `_arm_timer`, `_handoff`, `drain`, `_drain_and_rewake`, `timer`, `_after_timer` | processes that exit while others decide not to start one; crashes; inherited leases | one dispatch at a time; nobody's row is forgotten |
| Retry history (`core/runtime_wake_policy.py`) | attempts, due, streak files | `settle`, `_observe_*`, `_clear_missing`, `_record_stall` | file writes and row commit are separate; four kinds of outcome | drops are earned; reports are made once |
| Monitor (`core/runtime_monitor.py`) | its own lock | one round every 5-30 s | none of its own | restarts workers after crashes |
| Learning-state mover (`core/context_learning/state_move.py`) | handoff lock, lease, yield file | `_request_yield`, `_quiesce_lanes` | competes with workers that re-take the lease | runs alone; gets its turn |
| Wake cancellation (`core/runtime_wake_cancel.py`) | row and overflow entry | `cancel_locked` | races the dispatcher | never removes a running row |
| Handlers, Laya dispatch child (`core/runtime_handlers.py`, `core/laya_runtime_dispatch.py`) | the inherited lease | `dispatch`, `_run_child` | child outlives its dispatcher | lease held until the child ends |
| Resource coordinator (`core/context_learning/resource_coordination.py`) | control, compute, trainer locks, 64 inference slots, reservations, recovery latch | `inference`, `training`, `step`, `activity`, `check` | demand checked under one lock, work under another; orphaned trainers | foreground first; one trainer |
| Learning job (`core/context_learning/automatic_staging.py`, `learning_queue.py`, `local_cycle.py`, `laya_adapter.py`, `training_cursor.py`) | job row, cursor, two head slots, artifact, completion receipt | claim, train, watch, stop, recover, stage, defer | runner and child die separately; five files written by two processes; yields look like failures | the committed head survives; staged means whole; blocks are earned |
| Selection of a project (`core/laya_install_journal.py`, `laya_fresh_wiki_origin.py`, the upgrades `laya_active_upgrade.py`, `laya_bound_upgrade.py`, `laya_bundle_upgrade.py`) | journal row, ledger, marker, route, reviewed route, attestation, upgrade intents | bind, activate, recover, restore, retire, upgrade | six files and a database, written one by one; a sync worker without the lock; newer bundles between two tries | readers see one bundle whole or "blocked"; no publish is taken back |
| Source catalog (`core/laya_source_catalog.py`) | active scan, its rows and directories, snapshot pointer | request, hash, list, verify, publish | the sources change while they are read | a snapshot is the tree at one instant |
| Index claim queue and flow (`core/laya_index_claim_queue.py`, `laya_index_flow.py`, `laya_index_sync.py`, `laya_product_sync_worker.py`) | claims, bindings | look, capture, lease, stage, publish, ack, replan | death between any two; the catalog moves on | what was acknowledged is served |
| Index (`core/laya_index_a.py`, `laya_index_capacity.py`, `laya_vector_capacity.py`) | generations, head, exclusions, receipts | stage, publish, exclude | exclusions while a generation is built | a head of the current epoch offers nothing excluded |
| Directory moves (`core/laya_state_move.py`, `laya_project_dir_move.py`, `state_move.py`) | move journal, staging | move, roll back, recover | crash between renames | data is at exactly one place |
| Resident service (`core/laya_resident_service.py`, `context_learning/inference_service.py`) | lease, successor lock, socket | hello, drain, replace | two services during a hand-over | one service answers |
| Wiki compile and verify queues (`core/wiki_compile_enqueue.py`, `laya_wiki_discovery.py`, `wiki_freshness.py`, `wiki_compile_worker.py`, `wiki_compile.py`, `wiki_verify_worker.py`) | source queue and claimed file, refresh ledger, scan snapshot, cards, staged replacements, verify queue | record, append, scan, claim, guard, extract, write, settle, review, publish | edits at any point of a compile; files written one by one by hook, scan and worker; people edit the same cards | what is served was reviewed; no edit is forgotten |
| Host hooks, event log, configuration, catalogue, extractors, adapters | files | sequential | little | see `PROJECT.json` |

How they interact: hooks, requests, handlers (of the same queue) and the
monitor call `offer` and `_wake`; `_wake` spawns a worker and passes it the
lease, or arms a timer; the worker runs a handler in line or, for a Laya wake,
in a child that inherits the lease; the mover writes the yield file, which
`_wake`, `_handoff` and `drain` read, and takes the same locks; the coordinator
admits learning wakes and reads the queue to let index work go first. A dispatched
learning wake is a runner of `Training`; a dispatched sync wake is a run of the
sync worker, in `IndexSync` as what it does to catalog, claims and index, in
`Selection` as the writer whose proofs the selection must withstand; a
dispatched upgrade is an operation of `Selection`.

A dispatched compile wake is a run of the worker of `WikiCompile`; the scan and the
edit hook that feed it belong to the sessions.

`PROJECT.json` lists every component with its status, and every hazard with
the property that covers it.

## 2. Modules

| Module | What it is |
|---|---|
| `WakeContract` | abstract: what the queue promises a caller |
| `WakeRuntime` | the processes, locks, crashes and the mover around the queue |
| `WakeRuntimeProofs` | inductive invariant of `WakeRuntime`, its safety theorems |
| `WakeRefinement` | proof that `WakeRuntime` implements `WakeContract` |
| `StoreContract` | abstract: the same promise of a queue that can be full, promote and cancel |
| `WakeStore` | the three tables at their capacity, statement by statement |
| `WakeStoreProofs` | its inductive invariant, safety theorems and the proof that it keeps `StoreContract` until a revision is reused |
| `WakeSettle` | the retry history of one Laya wake |
| `WakeSettleProofs` | its invariants and promises, proved |
| `Training` | one learning job: runners, trainer children, inference requests and their locks |
| `TrainingProofs` | its inductive invariant and safety theorems |
| `SelectionContract` | abstract: what the readers of a selection are promised |
| `Selection` | journal, ledger, files and every operation on them, write by write |
| `SelectionProofs` | its inductive invariant and the proof that it implements the contract |
| `IndexContract` | abstract: which heads an index may publish while its sources are edited |
| `IndexSync` | sources, scan, snapshot, claim, generation and the run that drives them |
| `IndexProofs` | its inductive invariant and the proof that it implements the contract |
| `WikiCompile` | one source on its way into the wiki: hook, scan, queues, ledger, cards, worker, review |
| `WikiProofs` | its inductive invariant and safety theorems |
| `MCWakeRuntime`, `MCWakeStore`, `MCWakeSettle`, `MCTraining`, `MCIndexSync`, `MCWikiCompile` | values and symmetry for TLC |

The wake modules, `Training`, `Selection`, `IndexSync` and `WikiCompile` share no
variables. They meet in what each assumes of the others: `Training`, `IndexSync` and
`WikiCompile` are dispatched again after a crash (`WakeRuntime`, `EventuallyDispatched`), at most
one at a time (`SingleDispatch`), until they say they are done.

A definition headed "Variant" is not part of a model: it is a plausible slip in
the definition that follows it, there to show that a property notices it.

### WakeRuntime and the code

`status`, `rev`, `due`, `revision` are the columns of `wakes` and the counter in
`wake_meta`; `due` is one bit ("its time has come"). `pc` says where a process
is; between two of its values the code makes one system call or one SQLite
transaction that others can see. `lease`, `handoff`, `timerLock` name the
holder of each lock file; `Child` as holder is a Laya child whose dispatcher
died. `yielding` is a yield file that is present and not expired.

| Code | Actions |
|---|---|
| `request`, `_handoff` | `Request`, `RequestInside`, `Handoff` |
| `_wake`, `_arm_timer` | `WakeFindsNothing`, `WakeArmsTimer`, `WakeSeesDue`, `LeaseBusy`, `LeaseSpawns` |
| `hook_wake`, `runtime_monitor.run` | `HookWake` |
| `_handoff_worker` | `ContendTakes`, `ContendExpires` |
| `drain`, `_drain_and_rewake` | `DrainResets`, `DrainStops`, `Picks`, `Claim`, `Ack`, `Retry`, `DrainFails`, then the `_wake` actions |
| `timer`, `_after_timer` | `TimerLooks`, `TimerSleeps`, `TimerReleases`, then the `_wake` actions |
| `_quiesce_lanes` | `MoverAsks`, `MoverTakesHandoff`, `MoverTakesLease`, `MoverGivesUp`, `MoverDone` |
| crashes | `WorkerDies`, `CallerDies`, `TimerDies`, `MoverDies`, `OrphanEnds` |

Worker and timer "slots" stand for processes; a process that has exited frees
its slot. When `_wake` must spawn and every slot is taken the step waits. Two
slots suffice for progress: the lease admits one draining worker, the handoff
lock one contender, and a worker that only runs its final `wake()` may reuse
its own slot; likewise a timer that has left may be its own successor.

Left out of `WakeRuntime`: the full queue (in `WakeStore`), attempts and reasons
(in `WakeSettle`), cancellation (in `WakeStore`), a queue root that is moved away
while a timer sleeps (`gone`: the timer leaves and the next hook starts over), a
`request(start=False)`, which is `Offer` without `_wake` and whose caller comes
back with `hook_wake`, and a spawn that fails, which is a `WorkerDies` right
after `LeaseSpawns`.

### WakeStore and the code

`offer` is one `BEGIN IMMEDIATE` transaction and one action. `pending` is not:
Python's `sqlite3` opens a transaction only before the first INSERT, so the
list of entries, the existence check, the row count and the revision counter
for the first promotion are read one by one (`Lists`, `LooksForRow`,
`CountsRows`, `ReadsCounter`). `Writes` is the INSERT, which opens the transaction;
from then on the reader works on its `draft` of the tables, one round of the loop
per `Promotes`, while the others see the old tables and wait to write
(`Unlocked`), until `Commits`. A skipped entry (no room) goes back to
`LooksForRow` for the next. `GivesUp` is `SQLITE_BUSY` or a crash: the draft is
rolled back.

### WakeSettle and the code

One row, one dispatcher, ticks for time. `Ends` is the end of the handler with
the streak write of `_observe_missing`/`_observe_preparing`; `Files` is `settle`
with the clearing and reporting writes; `Commit` is the transaction. `Crash` may
fall between any two. `failures`, `gone`, `unready`, `uncleared` record what
really happened and are read by the properties only.

### Training and the code

`job`, `failures`, `due` are the columns of `learning_jobs`; `cursor`, `head`,
`artifact`, `done` the files the child leaves in the candidate's directory.
A head is the number of groups it was trained on: `head[cursor % 2]` is the
slot the cursor names. `claim` and `trainer` are locks that the child inherits,
so they are free only when runner and child are gone.

| Code | Actions |
|---|---|
| `train_due_staged`, `LearningQueue.claim`, `defer` | `Claims`, `PutsOff`, `Leases`, `LeaseRefused`, `RunnerRaises` |
| `_train_once`, `LocalTrainer._call`, `training_watch.Watch` | `TrainsOnce`, `Asks`, `Terminates`, `TimesOut`, `CleanupFails`, `SeesEnd`, `SeesTrained`, `Stages` |
| `Coordinator.inference`, `inference_compute` | `RequestGates`, `RequestSlot`, `RequestComputes`, `RequestEnds` |
| `TrainingGuard.poll`, `step`, `Coordinator.step` | `ChildPolls`, `ChildYields`, `ChildAsks`, `ChildRefused`, `ChildComputes` |
| `train`, `_train_group`, `UpdateCursor.commit` | `ChildLoads`, `ChildUpdates`, `ChildSaves`, `ChildAdvances` |
| `recover_completed` | `Recovers`, `RecoveryRefused`, `ChildCopies`, `ChildRecords` |
| crashes, the machine | `RunnerDies`, `ChildDies`, `RetryFallsDue`, `Changes`, `Calms` |

Left out: the evaluation of a staged candidate, revoked sources and grants,
planning and consumption of evidence, telemetry, `demand()` probes that collide
with each other, the startup reservation, the provider lane, and the clocks of
the recovery latch (`_admit`), which is the bit `ready`.

### Selection and the code

A bundle is its age. `journal` is the row of `install-journal.sqlite`, `ledger`
the cut-over file, and `marker`, `route`, `reviewed`, `seal` name the bundle whose
file is in place. `moved` says that the store no longer has the counts that the
upgrade's intent recorded: the sync worker may publish between intent and fence, and
both `_switch` and `_restore` compare the counts as their last check before they lift
the fence. An operation holds the install and operation locks, so `op` is
one operation and `at` its next write; `Stops` is its death, or a refused check,
before that write. `View` is `classify_marker`: what a reader is told. `knows` is
who has read the journal's present epoch: a compare-and-set by anyone else fails.

| Code | Actions |
|---|---|
| `bind`, `activate`, `recover`, `restore`, `retire` | `Bind`.., `Activate`.., `Recover`.., `Withdraw`.., `Retire`.. with the steps of each |
| `laya_bound_upgrade.upgrade` | `BoundStarts`, `BoundPrepares`, `BoundReplaces`, the swaps, `BoundRebinds`, `BoundCompletes` |
| `laya_active_upgrade.upgrade`, `finish_activated` | `UpgradeStarts`, `UpgradePrepares`, `UpgradeFences`, `UpgradeStages`, the swaps, `UpgradeRenames`, `UpgradeCommits`, `UpgradeUnfences` |
| `laya_active_upgrade._restore` | `Restore`, the swaps, `RestoreCommits`, `RestoreRenames`, `RestoreUnlocks`, `RestoreUnfences` |
| `_run_capacity` of the sync worker | `WriterProves`, `WriterMarks`, `WriterConfirms`, `WriterPublishes`, `WriterStops` |

`After` orders the swaps of the three operations that share them. Left out:
upgrades of an inactive build, adoption of a bundle re-extracted to the same
root, sealed companions, `_not_older`, backups, a route removed by somebody else.

### IndexSync and the code

Every edit of the sources has a number, and a file is the number of the edit
that wrote it: that number stands for its bytes and its stat signature at that
path. A `Moves` gives a new one to the path it moves to, since rows are kept by path
and the one that path had describes another file. `entries` is the signature of
a directory. The scan's phase is read from its rows, as `_advance` does. `cut` is
a history variable: the sources at the first verification since the last row
changed. `my` are the locals of one `sync_step` call and of the run around it;
`Anew` is where a call begins afresh.

| Code | Actions |
|---|---|
| `request_scan`, `_start_scan`, `_block` | `Requested`, `Started`, `Blocked` inside the steps that call them |
| `LayaSourceCatalog.step` | `Scans`: one `Unit` of `Hashes`, `Lists`, `VerifiesDirs`, `VerifiesFiles` |
| `_publish` (catalog) | `Completes` |
| `_sync_capacity` | `Starts`, `Previews`, `GivesWay`, `Finishes` |
| `sync_step` | `Resumes`, `Looks`, `Captures`, `Restarts`, `NothingToScan`, `Settles`, `Rescans` |
| `vector_fill_step`, `pending_vector_fill_step` | `Fills`, `Previews` |
| `_process_leased` and what it calls | `Leases`, `Loads`, `Stages`, `FindsStaged`, `StageFindsChange`, `StageFindsExclusion`, `Publishes`, `PublishFindsStale`, `Acks`, `Replans` |
| sessions, recalls, the API | `Session`, `Excludes`, and the wake each `Edit` asks for |

A unit of work stands for one step's budget. Left out: byte budgets and files
too large, blocks other than `source_changed`, replaced roots, damaged or busy
stores, legacy claims without a binding, base heads and lease tokens (claims are
leased only under the owner lock, by one run at a time), more than one retained
claim, what the previews of single documents write, exclusions by hash,
`sync_full`, and the search over candidates. `exclude` has no caller in the core
beyond the API; it asks for no wake.

### WikiCompile and the code

One source and one worker: other sources share only the files, and every other
worker leaves at the run lock. A content stands for its hash; a row is its time, its
`partialCompile` marker, its `_requeue_count` and, when a scan made it, its
`contentRevision`. A card is the revision it was compiled from, how often a person
edited it, and its status. Edits inside the managed block (or of the frontmatter keys the
compiler owns) are counted apart from those outside: `compose_generated_card` generates
the block again and keeps the rest, so `Compiled` sets the first count to 0. `review` is a
verify job in hand with the text that was sent; its jobs leave the queue together when the run ends (`Ends`), so a run that died
after a stamp or a publication leaves jobs that the next one discards. `job` is what one
run of the worker knows. `lost` is a history variable: a
step was taken of which the code is known to forget a revision (section 5).
An extraction may come back empty at any run; a card may be refused, held for a person, or
written without its verify job when the writer stops in between (`WritesUnqueued`; a
replacement it staged is then a file that nothing names). Such outcomes are bounded
by the events, but for two that have their reason in the model and recur: a superseded
card is held, and a card of a row marked `partialCompile` refused, as often as it comes.

| Code | Actions |
|---|---|
| `record_pending_refresh`, the edit hook, `append_queue` | `Edits`, `Records`, `Appends`, `HookDies` |
| `laya_wiki_discovery._drain_once` | `Scans`, to one of its three writes |
| other tools and people | `Pulls`, `HandEdits`, `Supersedes` |
| `_main_locked` of the worker, `recover_pending_refreshes`, `reclaim_orphaned_claimed`, `dedup_jobs` | `Recovers`, `Claims`, `Requeues`, `Unlinks` |
| `process_job`, `selected_compiled_revision_card` | `Binds`, `Captures`, `Guards`, `Skips`, `Extracts`, `ExtractsLater`, `ExtractsBadly` |
| `_compile_locked` and its outcomes, `resolve_pending_refresh` | `Writes`, `WritesUnqueued`, `Rejects`, `Holds`, `SettlesFailed`, `SettlesHeld`, `SettlesWhole` |
| `process_verify_job`, `stamp_verification`, `publish_pending_replacement`, `finish_stale_pending` | `Reads`, `Replays`, `Discards`, `Defers`, `ChangedMeanwhile`, `JudgesLater`, `Fails`, `Passes`, `Publishes`, `PublishesLater`, `Ends` |
| crashes | `HookDies`, `WorkerDies`, and `Scans` that stops before its last write |

Left out: deletion of sources and the suppression ledger, `forceRecompile`, the initial
backfill and its batches, engine fallback and budgets, tombstones, discovery grants, the
number of jobs one review takes, the count of deaths after which a review job is given
up, the cap on retries of a whole wake, a hand edit that restores
the verified text, and a hand edit in the instants between a check and a rename
under the card lock. A conflict with a replacement that is already staged is one of
the outcomes `Rejects` and `Holds`. The command line's `wiki_verify_worker.main` takes no run
lock; what it could do beside a worker is not modelled.

## 3. Runs

| Run | Question | Bounds, and why they are enough |
|---|---|---|
| `WakeFaults` | types, one dispatch at a time, the move runs alone, at most one late claim, no row left alone before the first crash or mover, implements `WakeContract` | a Laya and a gated wake of different priority, 2 workers, 1 timer, 1 caller, 2 revisions (the second may arrive during the dispatch of the first), 2 dispatches per worker, 1 fault, 1 mover: 0.5 million states |
| `WakeRecovers` | dispatched in spite of a crash and a mover, a lower row beside one that keeps failing; the mover is served | both wakes, offered once each, and 2 workers (a dispatch, a contender and a successor compete); the monitor as only caller, which makes timers superfluous; 1 fault, 1 move |
| `WakeStoreRace` | nothing retained is lost, a served row stays, a stale promotion overruns by one row, until a promotion reused a revision `StoreContract` is kept, retained wakes are promoted | 2 readers with stale lists, 5 wakes for 2 slots and 2 overflow entries, one slot reserved for index, 4 offers, cancellations: both tables fill, a wake is dropped, and one is promoted past another without room; 0.79 million states |
| `WakeStoreReuse` | the ACK rule with an overflow (violated) | 3 wakes, 1 overflow entry, 5 offers |
| `WakeSettle` | drops are earned, one report per streak, a newer request survives, the wake ends | cap 3, drop after 2 sightings over 3 ticks, stall after 2 ticks, 3 requests, 2 crashes |
| `Training` | the committed head, one trainer, foreground first, whole and earned ends, the job ends | 2 runners with children, so that an orphan meets a second runner; 2 requests on 1 slot; 3 groups, 2 per run, so that the training needs two runs and both head slots are reused; 2 failures block; 2 faults, 1 change of the machine |
| `Selection` | what is selected is whole, publishes are kept, implements `SelectionContract`, the fence is lifted by the worker or, where that gave up, a restore is accepted and comes to its last check | 3 bundles, so that a newer host can meet a leftover intent and an older one; 2 interrupted operations, the second in the recovery of the first; 2 restores; a publish may change the store counts; 0.12 million states |
| `SelectionBound` | the documented end of a bound upgrade (violated) | 2 bundles, 1 interruption |
| `IndexSync` | snapshots are instants, the epoch tells, answers are served, implements `IndexContract`, converges | 2 files in 2 directories, which a rename can join; 2 edits after the first state, an exclusion and 1 stop, each anywhere: a torn read needs one file read before and one after two edits; 0.45 million states |
| `IndexEdits` | the same without sessions (violated) | no exclusions, the same edits |
| `WikiCompile` | what is served was read, nothing is taken back, an idle wiki covers its source, the queues drain unless cards are held back for ever | 2 contents, one of which yields 2 cards, so that one can be proved, rejected or held without the other; rows given up after 1 requeue; 2 events (edits, hand edits inside or outside the block, superseded cards, deaths, failures, holds), each anywhere, and empty answers without a bound, from a wiki never compiled or fully verified: 0.9 million states |
| `WikiSkip` | what the guard takes for a finished compile is one (violated) | the same |

`CHECK_DEADLOCK FALSE` stands where the system may really stop: with bounded
requests the queue drains and nobody is left, or (without fairness) a crash
took the last process.

### What the violated runs show

* `WakeStoreReuse`: `_next_revision`, called from `pending()`, reads the counter
  outside the transaction. A reader that read it before another process offered
  gives a row an old revision: the one its dispatcher claimed. The ACK then
  deletes a row that was offered again during the dispatch. It takes an overflow
  entry of a wake that also has a row, which a freed or cancelled slot makes
  possible. Forcing the same interleaving on `runtime_work.py` with a small limit
  deletes the row as in the trace. A `BEGIN IMMEDIATE` in `pending()` would close it.
* `SelectionBound`: a bound upgrade that dies after its journal step leaves a
  journal that already names the host's bundle. `classify` reads it, and
  `upgrade_install` answers "current" before it comes to the intent, where
  `core/laya_bound_upgrade.py:16` says the next run finishes it. Files, ledger and
  marker stay with the old bundle until the host moves on again.
* `IndexEdits`: a wake that finds an interrupted scan only marks it `again`. The scan
  completes and chains another; its own snapshot is published and answered
  "indexed", the wake is acknowledged, and nobody steps the chained scan, which
  is the one that would see the wake's edit. `core/laya_source_catalog.py:618` and
  `core/laya_index_sync.py:387` say otherwise; the initial build does settle once
  more. The next session repairs it, which is what `IndexSync` shows.
* `WikiSkip`: a scan queues the source and dies before it acknowledges; the worker
  claims that row, and the next scan queues the same revision again. Of the two
  cards one is written and one rejected, so the row returns with `partialCompile`, and
  the written card is verified. `dedup_jobs` then keeps the scan's row, which is newer and
  has no marker: the guard takes the verified sibling for the whole compile, the job is
  skipped, and the rejected card is never compiled. `core/wiki_compile_worker.py:1169` and
  `:1506` say that the marker is there to prevent exactly this.

### Fairness

`Progress` lets every started process go on, every handler end and every
backoff pass. `Picks` is strongly fair per row: a row that fails again and again is
away for seconds each time, and then a lower one has its turn. This needs a
budget of at least 2 dispatches per worker (8 in the code). With a budget of 1
TLC finds a starving schedule: a higher row whose backoff ends just between
two drains, each time.
`FairSpec` adds what recovery rests on in the code: the monitor's rounds, an
orphan's end, expiry of a yield file, and that a process blocked in `flock` gets
a lock that is released again and again (the kernel serves waiters before a
non-blocking retry). Deadlines (`ContendExpires`, `MoverGivesUp`) are never fair:
no property may depend on one. `WakeStore!FairSpec` assumes that one reader, the
monitor, keeps reading the queue, that an open transaction ends (it is a loop over a
list, or rolled back), that deaths and busy databases come to an end, and that
dispatches keep succeeding; the other readers may stop anywhere else. Offers are finite, so
`OverflowDrains` speaks of callers that pause. `WakeSettle!FairSpec`
lets time pass and dispatches end.

`Training!FairSpec`: a process that runs goes on, requests end, pressure and
index work pass, retries fall due, and the wake queue keeps dispatching the
learning wake; deaths, stops and deadlines are never fair. `Settles` excludes the
cleanup reservation, which waits for an operator by design.
`Selection!FairSpec`: an operation under way goes on, sessions and fenced recalls
keep asking for the upgrade worker (`laya_bundle_upgrade.request`), and the sync
worker ends its runs. `IndexSync!FairSpec`: a dispatched run goes on, and where
`Sessions` says so a session or a recall keeps asking for a sync; edits and
exclusions come to an end because they are bounded. `WikiCompile!FairSpec`: a hook and
the worker run to their end, and sessions go on to scan and to kick the worker, as each
session start does; deaths and failures are bounded, never fair. Nothing is
assumed of the extractor, so `Converges` holds where cards are not held back for ever.

The monitor is needed: without it, a request answered `busy` by a mover that
holds the lease, or a contender whose alarm fires too early, leaves a row to
the next hook, as the documentation says of a user without a resident service.

## 4. Proofs

All for arbitrary sets of wakes and processes, priorities, limits and bounds,
from the named assumptions `RuntimeAssumption`, `StoreAssumption`, `SettleAssumption`,
`TrainingAssumption`, `SelectionAssumption`, `IndexAssumption` and
`WikiAssumption`.

* `WakeRuntimeProofs`. `IInv` is inductive (`Inductive`): `TypeInv`; `LeaseInv`,
  that holding the lease, draining, moving and a surviving child are the same
  thing; `ClaimInv`, that a running claim is of a row still there with a revision
  the counter has reached; `LateInv`, that a late claim excludes another picked
  row. `TypeOK`, `SingleDispatch`, `MoverAlone` and `AtMostOneLateClaim` follow.
  `SingleDispatch` alone is not inductive: a worker is excluded by the lock, not
  by the other's state, so the lock must be part of the invariant.
* `UnattendedOnlyDisturbed`: `Spec => []AttendedUndisturbed`, and `NeverUnattended`, the
  same of `CalmSpec`, where nothing disturbs: as long as no fault and no move has
  happened, `CalmInv` holds on top of `IInv` (the timer lock is held exactly by the timer
  that looks at the queue). `CalmCounts` carries it through the steps that keep the two
  counters at zero.
* `WakeRefinement`, theorem `Refines`: `Spec => ContractSpec`, one step per
  action. A row is owed unless a running handler holds exactly its revision; that
  revisions only grow (`ClaimInv`) makes a request during a dispatch visible.
* `WakeStoreProofs`. What a transaction does must be known before its commit shows it:
  `Open` says of the draft that it extends the tables (`Extends`: rows keep their status,
  an entry leaves only for a row), that it passed the limit by its first row at most
  (`Within`), and that its revisions are new if the counter it started from was
  (`Renews`). It can only be kept because nobody else writes meanwhile (`OneWriter`).
  `Revisions` says that the claimed revision is older than that of a newer offer, as
  long as none was reused. `ServedRowStays`, `OverrunByOne` and `RetainedKept`
  follow, for any number of readers and any limits. `RetainedKept` is in no run: `KeepsPromise`
  says it until a revision is reused, the theorem also after that.
  `PromiseKept` maps the tables to `StoreContract`: a wake is owed if it is retained, or has a
  row that is not the very revision being dispatched. An offer, and a commit of promotions,
  is a request; so a wake retained while its own row is dispatched is not settled by
  that dispatch when it is promoted under it, since each promoted entry gets a
  revision past the counter (`Renews` again). The contract is unconditional but for
  `reused'`: `WakeStoreReuse` shows that the step which writes on a stale counter breaks it.
* `WakeSettleProofs`: `HistoryInv` is inductive; `CapDropEarned`,
  `StallReportedOnce` and `DropKeepsNewer` follow, and `MissingDropEarned` with
  `MissingInv` (the streak file never shows more than really happened).
  `Unwritten` is the needed strengthening: a failure between handler and commit.

* `TrainingProofs`. `Inv` is `TypeOK`, `Holds` (who holds which lock, by where runner
  and child stand), `Learnt` (the head a child has in memory, and the slot the
  cursor names), `Kept` (artifact and receipt), `Counts` (failures against real
  trouble), `Gated` (no demand while a child is between the check and the grab).
  `CommittedHead`, `OneTrainer`, `StagedComplete`, `BlockEarned` and the action property
  `ForegroundFirst` follow. `OneTrainer` is not inductive alone: an orphan is
  excluded by the lock it inherited. The alternation of the two slots needs
  `Parity`, that a number and its successor differ modulo 2.
* `SelectionProofs`. `Inv` says for every phase of the ledger and every `at` of an
  operation which bundle each file may name (`Journal`, `Phases`, `Upgrading`,
  `Restoring`), that intents name older and newer rightly (`Ages`), what an operation
  under way has done (`Progress`), and what the sync worker may rely on (`Writes`).
  `SelectedWhole`, `WritesKept`, `WayOut` and `SelectionImplements` follow. For `WayOut` the
  invariant says what the guards of `Restore` read: a staged or committed journal was not yet
  published through, and an active journal of the old bundle means that nothing but
  the fence was written. `Unmoved` says that a finished upgrade, which passed the recheck and
  was not published through since, still has the counts of its intent. `WritesKept` is in no run of
  its own: the contract says it of every step. The contract alone says
  nothing of a blocked project, so every mixture must be in the invariant.
* `IndexProofs`. The argument is the cut: an edit's number is new, so a row that
  disagrees with the sources never agrees with them again; what the last
  verification confirms was therefore true at the first, for all rows together
  (`Listing`). `Inv` adds that rows and claims come from the sources (`Sources`, `ClaimOf`),
  what the head knows (`HeadOf`) and what a run may answer (`Answers`).
  `SnapshotWasTree`, `EpochTells`, `AcknowledgedServes` and `IndexImplements` follow.
* `WikiProofs`. `Inv` is `Shape` (types, and what a statement may assume of the job and card
  in hand), `Stamps` (a trusted card's verifier read every edit in it), `Replacements`
  (a staged card was made for a verified one and keeps what a person wrote outside its block) and
  `Reviewed` (the text at the verifier is of the card under review). It gives
  `ServedWasRead` and, step by step, `NothingTakenBack`: the comparison under the card lock
  is needed at the stamp and again at the publication, because the person edits between.

  `NothingForgotten` (`IdleMeansCovered`) rests on `Coverage` on top of `Inv` and the
  bounded types `Typed`: without news the content at work is the source's (`Captured`),
  a whole extraction compiles card by card (`Written`), the worker has rows as long as it
  works (`Claimed`), and the cards are of the source or a claimed row still stands for it
  (`Covered`). The last is the whole argument: the row may leave the disk (`Unlinks`)
  because what ended it either proved the cards, kept the row, or left the event open.
  `TypeCorrect` needs the two computations on the claimed file: that `Newest` finds a
  row and that `Reclaimed` counts none too often. Both are inductions over its length,
  written as the least number for which it fails (`Least`, from `WFMin` of the library).

Only model-checked: all liveness, since fairness and ENABLED are beyond the prover. The
type invariants and every other invariant and action property of the runs are proved.

## 5. Limits of what is shown

* `MissingDropEarned` excludes a dispatcher that died between the end of a
  handler and the clearing of the streak file. Without that exclusion it is
  false: the streak goes on over the outcome that ended it, against "any other
  outcome restarts the count" (`core/runtime_wake_policy.py:42`).
* `OverrunByOne` is looser than `MAX_WAKES`: two readers can promote on the same
  free slot, and the slot reserved for index can be taken. Each such promotion adds
  one row over the limit, never more.
* A stale list can promote an entry again after its row was served or cancelled:
  a superfluous dispatch, which handlers tolerate by revalidating.
* The yield rule of `docs/runtime-resource-coordination.md:193` ("no new claim") holds but
  for one claim: `drain` reads the yield file, then admits, then claims, and a mover
  that asks in between is overtaken once. `AtMostOneLateClaim` says it is never more.
* `FenceLifts` excludes `Abandoned`. An interrupted active upgrade that a newer host
  bundle supersedes is refused from then on (`active_upgrade_prior_unsettled`), as is
  every upgrade after an intent that was written but never fenced; tests assert
  it, though `docs/architecture.md:144` reads otherwise. An operator's restore that was
  interrupted after it changed the ledger can be finished only by another
  restore, which `WayOut` says is accepted and comes to its last check (given the backup and
  the old bundle's files, which are not modelled); after `RestoreUnfences` the leftover intent can be neither resumed nor
  archived; a bound switch refused at the ledger step leaves the project
  blocked; a restored selection takes no writes until the next upgrade.
* A fence that stays. An upgrade that stops after its intent and before its fence lets the
  sync worker publish. If that changes the store counts, every resume and `finish_activated`
  switch journal and files and are then refused at the recheck
  (`active_upgrade_recheck_failed`, `core/laya_active_upgrade.py:411`), though nothing was
  abandoned and `docs/architecture.md:144` says that the worker also finishes such an
  upgrade. A restore puts journal and files back to the old bundle and is refused at
  its own last check (`active_upgrade_restore_store_changed`, `:507`), as is every later
  one, and no restore is left that would only lift the fence. `Abandoned` contains
  `moved` for this; only a store brought back to the recorded counts ends it.
* `IdleMeansCovered` excludes `lost`, the steps after which a revision is owed and nothing is
  left to say so: the guard accepts a verified sibling though another card of
  the revision is missing (after an edit back to an earlier content, a worker that
  died between two cards, or `WikiSkip`); a replacement whose published card was edited
  meanwhile is dropped although its event was settled, and so is a stamped one that is
  published after the source moved on; an unusable extraction or a card held for
  review of a row without an event; a change taken back before any scan saw it, or whose hook
  died; rows given up after `MAX_REQUEUE_COUNT`. `Converges` does not exclude them: the queues
  drain in spite of them. A published card that is edited by hand while its review runs
  loses the review's job and stays unserved until it is compiled again.
* `Converges` excludes `HeldBack` again and again. An answer without a card is accepted and
  completes no refresh (`core/wiki_compile_worker.py:1358`); a card that is superseded, has
  lost its markers, is ambiguous or is judged a duplicate is held each time (`:1461`). Either
  leaves the event open, `recover_pending_refreshes` (`:1620`) queues it again, and every
  run pays the extractor anew, until the source is edited or a person resolves the hold.
  A row whose writer refuses a card goes round in the same way, with its marker.
  Without the exclusion TLC shows the cycle.
* `CardKept` promises what `rewrite_generated_card` does (`core/wiki_compile.py:982`): what is
  outside the managed block. The disclaimer in the card invites edits without that limit
  (`core/wiki_markers.py:22`). One inside the block takes a verified card out of recall, and
  the next compile writes the block anew: the edit is gone, and the compiler keeps no copy. A
  publication replaces only the text its replacement was made for, so it never takes
  an edit made since; what it may replace inside the block is text a verifier passed.
* Known and not covered: a cancelled build leaves its streak files to a later build
  of the project (`core/runtime_wake_cancel.py:277`), and the recovery latch mixes the monotonic
  and the wall clock (`core/context_learning/resource_coordination.py:184`).
* Not modelled: what handlers do inside a target bundle, the contents of
  diagnostics files, clocks (except as ticks), file permissions checks.

## 6. Plan

Done: the wake modules, `Training`, `Selection`, `IndexSync`, `WikiCompile`, with their
proofs.
Next, in order:

1. `StateMove` (`state_move.py`, `laya_state_move.py`): the whole quiescence and the
   move, composed with `WakeRuntime`'s locks and a `ResidentService`.
2. The wiki's retirement and deletion of sources (`wiki_lifecycle.py`), beside `WikiCompile`;
   then the event log.
3. The recovery latch of the coordinator with its clocks.

### Not modelled

Hooks and their answers, configuration, the wiki's text transformations, the
learning algorithms, extractors and adapters are sequential and keep no state
other processes race for. Moves of directories, the resident services and the
retirement of wiki cards have such state and are the next modules.
