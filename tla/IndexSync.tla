----------------------------- MODULE IndexSync -----------------------------
(***************************************************************************)
(* How one project's index follows its sources: the scan of the source     *)
(* catalog (laya_source_catalog.py), the claim queue and its flow          *)
(* (laya_index_claim_queue.py, laya_index_flow.py, laya_index_capacity.py), *)
(* the publication in the index (laya_index_a.py), and the sync worker that *)
(* drives them for one wake after another (laya_index_sync.py,             *)
(* laya_product_sync_worker.py).  Catalog, queue and index are separate    *)
(* databases: between two actions of a run lies at most one transaction of *)
(* one of them, and the run may die there.  A run holds the owner lock.    *)
(*                                                                         *)
(* Every edit has a number.  A file is the number of the edit that wrote   *)
(* it, or 0; that number stands for its bytes and its stat signature.      *)
(* A unit of work is a step's budget.  Left out: byte budgets, blocks      *)
(* other than source_changed, replaced roots, damaged or busy stores,      *)
(* unbound claims, and what the previews of single documents write.        *)
(*                                                                         *)
(* A definition marked "Variant" is not part of the model: it is a slip    *)
(* one of the properties exists to catch.                                  *)
(***************************************************************************)
EXTENDS Integers, FiniteSets

CONSTANTS
    Files, Dirs, \* numbered in the order of their names
    DirOf,       \* the directory of each file
    Present,     \* the files there are at first
    Excludable,  \* bound: files that may be excluded from serving
    Sessions,    \* sessions keep starting, and each asks for a sync
    MaxEdits,    \* bound: edits of the sources
    MaxStops     \* bound: runs that die or give way

ASSUME IndexAssumption ==
    /\ Files \subseteq Nat /\ IsFiniteSet(Files)
    /\ Dirs \subseteq Nat /\ Dirs # {} /\ DirOf \in [Files -> Dirs]
    /\ Present \subseteq Files /\ Excludable \subseteq Files
    /\ Sessions \in BOOLEAN /\ MaxEdits \in Nat \ {0} /\ MaxStops \in Nat

VARIABLES
    tree, entries,  \* the sources: files; the last edit that changed a directory's entries
    edits,
    past,           \* history: every state of the sources
    scan,           \* catalog: the active scan
    current,        \* catalog: the complete snapshot, and whether its vectors are cached
    excl, head,     \* index: exclusions, published generation
    job,            \* the retained claim, and its generation and receipt in the index
    asked,          \* the sync wake of the project is queued
    pc, my,         \* the run: where, and its locals
    stops

sources == <<tree, entries, edits, past>>
catalog == <<scan, current>>
index   == <<excl, head>>
run     == <<pc, my>>
vars == <<sources, catalog, index, job, asked, run, stops>>

Nowhere == [f \in Files |-> 0]
Members(files) == {f \in Files : files[f] # 0}
Epoch == Cardinality(excl)
Tree == [at |-> edits, files |-> tree]

\* The manifest of a snapshot: its files, and those of them that are not eligible.
Hidden(files) == excl \cap Members(files)

\* A pending scan is in the phase its rows say: it hashes what is listed, lists the next
\* directory, and when nothing is left verifies directories, then files.
NoScan == [state |-> "none", sigs |-> [d \in Dirs |-> 0], rows |-> Nowhere, hashed |-> {},
           dirs |-> {}, same |-> {}, cut |-> [at |-> 0, files |-> Nowhere], again |-> FALSE]
NoSnapshot == [at |-> 0, files |-> Nowhere, filled |-> FALSE]
NoHead == [at |-> 0, files |-> Nowhere, hidden |-> {}, epoch |-> 0]
NoJob == [state |-> "none", at |-> 0, files |-> Nowhere, hidden |-> {}, epoch |-> -1,
          done |-> FALSE]
NewRun == [memo |-> "none", memoEpoch |-> 0, epoch |-> 0, excl |-> {},
           after |-> FALSE, own |-> FALSE, unusable |-> FALSE]

Scanning == scan.state = "pending"
\* require_complete: a newer pending scan does not block the snapshot, a blocked one does.
Complete == current.at # 0 /\ scan.state # "blocked"

Init ==
    /\ tree = [f \in Files |-> IF f \in Present THEN 1 ELSE 0]
    /\ entries = [d \in Dirs |-> 1] /\ edits = 1
    /\ past = {Tree}
    /\ scan = NoScan /\ current = NoSnapshot
    /\ excl = {} /\ head = NoHead /\ job = NoJob
    /\ asked = TRUE /\ pc = "idle" /\ my = NewRun /\ stops = 0

-----------------------------------------------------------------------------
(* The sources, and who asks for a sync *)

\* An edit, and the wake its hook offers.
Edit(files, dirs) ==
    /\ edits < MaxEdits
    /\ tree' = files /\ edits' = edits + 1
    /\ entries' = [d \in Dirs |-> IF d \in dirs THEN edits + 1 ELSE entries[d]]
    /\ past' = past \cup {Tree'}
    /\ asked' = TRUE
    /\ UNCHANGED <<catalog, index, job, run, stops>>

Writes(f) == tree[f] # 0 /\ Edit([tree EXCEPT ![f] = edits + 1], {})
Creates(f) == tree[f] = 0 /\ Edit([tree EXCEPT ![f] = edits + 1], {DirOf[f]})
Deletes(f) == tree[f] # 0 /\ Edit([tree EXCEPT ![f] = 0], {DirOf[f]})
Moves(f, g) == /\ tree[f] # 0 /\ f # g
               /\ Edit([tree EXCEPT ![f] = 0, ![g] = edits + 1], {DirOf[f], DirOf[g]})

\* exclude: append-only, and no wake is asked for.
Excludes(f) ==
    /\ f \in Excludable \ excl
    /\ excl' = excl \cup {f}
    /\ UNCHANGED <<sources, catalog, head, job, asked, run, stops>>

\* SessionStart.
Session ==
    /\ Sessions /\ ~asked /\ asked' = TRUE
    /\ UNCHANGED <<sources, catalog, index, job, run, stops>>

-----------------------------------------------------------------------------
(* The catalog *)

Started == [NoScan EXCEPT !.state = "pending"]
Blocked == [NoScan EXCEPT !.state = "blocked"]

\* request_scan: coalesces into a pending scan, which is then followed by another.
Requested == IF Scanning THEN [scan EXCEPT !.again = TRUE] ELSE Started

Unhashed == Members(scan.rows) \ scan.hashed
Unlisted == {d \in Dirs : scan.sigs[d] = 0}

\* ORDER BY path LIMIT 1
Firsts(S) == {x \in S : \A y \in S : x <= y}

\* The units of catalog.step: the scan afterwards, Blocked if the sources have changed.
Hashes == \E f \in Firsts(Unhashed) :
    scan' = IF tree[f] = scan.rows[f] THEN [scan EXCEPT !.hashed = @ \cup {f}] ELSE Blocked

Lists == /\ Unhashed = {}
         /\ \E d \in Firsts(Unlisted) :
              scan' = [scan EXCEPT
                  !.sigs[d] = entries[d],
                  !.rows = [f \in Files |-> IF DirOf[f] = d THEN tree[f] ELSE @[f]]]

Read == Unhashed = {} /\ Unlisted = {}

\* Variant: a directory is taken as verified because it is still there.
VerifiesDirsByName ==
    /\ Read
    /\ \E d \in Firsts(Dirs \ scan.dirs) :
         scan' = [scan EXCEPT !.dirs = @ \cup {d}, !.cut = IF scan.dirs = {} THEN Tree ELSE @]

\* The first of them marks the instant the snapshot will be of.
VerifiesDirs ==
    /\ Read
    /\ \E d \in Firsts(Dirs \ scan.dirs) :
         scan' = IF entries[d] = scan.sigs[d]
                 THEN [scan EXCEPT !.dirs = @ \cup {d},
                                   !.cut = IF scan.dirs = {} THEN Tree ELSE @]
                 ELSE Blocked

\* Variant: a file is taken as verified because it is still there.
VerifiesFilesByName ==
    /\ Read /\ Dirs \subseteq scan.dirs
    /\ \E f \in Firsts(Members(scan.rows) \ scan.same) :
         scan' = IF tree[f] # 0 THEN [scan EXCEPT !.same = @ \cup {f}] ELSE Blocked

VerifiesFiles ==
    /\ Read /\ Dirs \subseteq scan.dirs
    /\ \E f \in Firsts(Members(scan.rows) \ scan.same) :
         scan' = IF tree[f] = scan.rows[f] THEN [scan EXCEPT !.same = @ \cup {f}] ELSE Blocked

Unit == Hashes \/ Lists \/ VerifiesDirs \/ VerifiesFiles

Verified == Read /\ Dirs \subseteq scan.dirs /\ Members(scan.rows) \subseteq scan.same

-----------------------------------------------------------------------------
(* A run, and the rounds of sync_step *)

Go(at) == pc' = at /\ UNCHANGED my
Stays == UNCHANGED <<sources, index, asked, stops>>

\* Variant: with a snapshot at hand no scan is asked for.
StartsOnSnapshot ==
    /\ pc = "idle" /\ asked /\ asked' = FALSE
    /\ scan' = IF current.at # 0 THEN scan ELSE Requested
    /\ pc' = "round" /\ my' = NewRun
    /\ UNCHANGED <<sources, current, index, job, stops>>

\* The wake is dispatched: _sync_capacity first asks for a scan.
Starts ==
    /\ pc = "idle" /\ asked /\ asked' = FALSE
    /\ scan' = Requested
    /\ pc' = "round" /\ my' = NewRun
    /\ UNCHANGED <<sources, current, index, job, stops>>

\* The next call of sync_step: only what the run knows of the snapshot stays.
Anew(m) == pc' = "round" /\ my' = [NewRun EXCEPT !.memo = m.memo, !.memoEpoch = m.memoEpoch]

\* sync_step takes up a retained claim first, one left leased by a dead run too.
Resumes ==
    /\ pc = "round" /\ job.state # "none"
    /\ Go("lease")
    /\ Stays /\ UNCHANGED <<catalog, job>>

\* A retry keeps the wake.
Retries == asked' = TRUE /\ pc' = "idle" /\ my' = NewRun

\* A wake of higher priority, or too many rounds.
GivesWay ==
    /\ pc = "round" /\ stops < MaxStops /\ stops' = stops + 1
    /\ Retries /\ UNCHANGED <<sources, catalog, index, job>>

Dies ==
    /\ pc \notin {"idle", "round"} /\ stops < MaxStops /\ stops' = stops + 1
    /\ Retries /\ UNCHANGED <<sources, catalog, index, job>>

-----------------------------------------------------------------------------
(* publish_current *)

\* No usable snapshot, or one that is served already: on to the scan.
Nothing == IF my.after THEN "settle" ELSE "scan"

\* While a scan is pending, what this run found of the snapshot is not tried again.
Looks ==
    /\ pc = "look" \/ (pc = "round" /\ job.state = "none")
    /\ LET known == ~my.after /\ Scanning /\ my.memo # "none" /\ my.memoEpoch = Epoch
       IN /\ pc' = IF Complete /\ ~known THEN "capture" ELSE Nothing
          /\ my' = [my EXCEPT !.epoch = Epoch,
                              !.unusable = @ \/ (Complete /\ known /\ my.memo = "unusable")]
    /\ Stays /\ UNCHANGED <<catalog, job>>

\* Variant: the served generation is compared by its manifest only.
ServesManifest == /\ head.at # 0 /\ head.files = current.files
                  /\ head.hidden = Hidden(current.files)

\* The head has the manifest of the snapshot and the exclusion epoch seen before.
Serves == /\ head.at # 0 /\ head.files = current.files
          /\ head.hidden = Hidden(current.files) /\ head.epoch = my.epoch

\* capture_bound_generation_binding.  A snapshot that is not served gets a claim once its
\* vectors are cached: the binding is stored, then enqueue_next, neither seen by others.
Captures ==
    /\ pc = "capture"
    /\ IF Serves
       THEN /\ pc' = Nothing /\ my' = [my EXCEPT !.memo = "served", !.memoEpoch = my.epoch]
            /\ UNCHANGED job
       ELSE IF current.filled
       THEN /\ pc' = "lease" /\ my' = [my EXCEPT !.own = TRUE]
            /\ job' = [NoJob EXCEPT !.state = "pending", !.at = current.at,
                                    !.files = current.files, !.hidden = Hidden(current.files)]
       ELSE /\ Go(IF Scanning /\ ~my.after THEN Nothing ELSE "fill")
            /\ UNCHANGED job
    /\ Stays /\ UNCHANGED catalog

\* A member that is read again is not what the snapshot says.
Changed(files, members) == \E f \in members : tree[f] # files[f]

\* rescan_unless_pending
Rescanned == IF Scanning THEN scan ELSE Requested

\* vector_fill_step: every eligible member is read again and its chunks are cached.
Fills ==
    /\ pc = "fill" /\ Anew(my)
    /\ IF Changed(current.files, Members(current.files) \ excl)
       THEN scan' = Rescanned /\ UNCHANGED current
       ELSE current' = [current EXCEPT !.filled = TRUE] /\ UNCHANGED scan
    /\ Stays /\ UNCHANGED job
-----------------------------------------------------------------------------
(* process_bound_one: the lease, the staged generation, the head, the ACK *)

\* decide: a receipt needs no second publication.
Leases ==
    /\ pc = "lease"
    /\ job' = [job EXCEPT !.state = "leased"]
    /\ Go(IF job.done THEN "ack" ELSE "load")
    /\ Stays /\ UNCHANGED catalog

\* The job's binding still describes the complete snapshot and its eligible members.
Binds == Complete /\ job.files = current.files /\ job.hidden = Hidden(current.files)

\* stage_bound_streaming, up to the index transaction.
Loads ==
    /\ pc = "load"
    /\ my' = [my EXCEPT !.excl = excl]
    /\ pc' = IF Binds THEN "stage" ELSE "replan"
    /\ Stays /\ UNCHANGED <<catalog, job>>

\* Members listed as eligible that have been excluded since the list was made.
Shunned == Members(job.files) \cap (excl \ my.excl)

\* stage_stream: one transaction that reads every member again.
Stages ==
    /\ pc = "stage" /\ job.epoch = -1
    /\ ~Changed(job.files, Members(job.files)) /\ Shunned = {}
    /\ job' = [job EXCEPT !.epoch = Epoch]
    /\ Go("publish")
    /\ Stays /\ UNCHANGED catalog

\* The generation a dead run had staged is compared, not staged again.
FindsStaged ==
    /\ pc = "stage" /\ job.epoch # -1
    /\ ~Changed(job.files, Members(job.files))
    /\ Go("publish")
    /\ Stays /\ UNCHANGED <<catalog, job>>

\* index_stale: a member has changed.
StageFindsChange ==
    /\ pc = "stage" /\ Changed(job.files, Members(job.files))
    /\ Go("replan")
    /\ Stays /\ UNCHANGED <<catalog, job>>

\* excluded_document: not a reason to replan; the claim is released and the wake retried.
StageFindsExclusion ==
    /\ pc = "stage" /\ job.epoch = -1 /\ Shunned # {}
    /\ job' = [job EXCEPT !.state = "pending"]
    /\ Retries /\ UNCHANGED <<sources, catalog, index, stops>>

\* Variant: the head moves without a look at the exclusions since the staging.
PublishesStaged ==
    /\ pc = "publish"
    /\ head' = [at |-> job.at, files |-> job.files, hidden |-> job.hidden, epoch |-> Epoch]
    /\ job' = [job EXCEPT !.done = TRUE]
    /\ Go("ack")
    /\ UNCHANGED <<sources, catalog, excl, asked, stops>>

\* publish_bound: receipt and head in one transaction.
Publishes ==
    /\ pc = "publish" /\ Binds /\ job.epoch = Epoch
    /\ head' = [at |-> job.at, files |-> job.files, hidden |-> job.hidden, epoch |-> job.epoch]
    /\ job' = [job EXCEPT !.done = TRUE]
    /\ Go("ack")
    /\ UNCHANGED <<sources, catalog, excl, asked, stops>>

\* index_stale: exclusions have been added.
PublishFindsStale ==
    /\ pc = "publish" /\ ~(Binds /\ job.epoch = Epoch)
    /\ Go("replan")
    /\ Stays /\ UNCHANGED <<catalog, job>>

\* Variant: the row is marked and kept.
AcksInPlace ==
    /\ pc = "ack" /\ job' = [job EXCEPT !.state = "acknowledged"]
    /\ Go(IF my.own THEN "done" ELSE "look")
    /\ Stays /\ UNCHANGED catalog

\* conditional_ack; a retained claim is followed by the snapshot of now, an own one is
\* the answer "indexed".
Acks ==
    /\ pc = "ack" /\ job' = NoJob
    /\ Go(IF my.own THEN "done" ELSE "look")
    /\ Stays /\ UNCHANGED catalog

\* mark_replan
Replans ==
    /\ pc = "replan" /\ job' = NoJob
    /\ Go("rescan")
    /\ Stays /\ UNCHANGED catalog

Rescans ==
    /\ pc = "rescan" /\ scan' = Rescanned
    /\ IF my.own
       THEN Anew([my EXCEPT !.memo = "unusable", !.memoEpoch = my.epoch])
       ELSE Go("look")
    /\ Stays /\ UNCHANGED <<current, job>>

-----------------------------------------------------------------------------
(* The rest of sync_step: the scan *)

Scans ==
    /\ pc = "scan" /\ Scanning /\ Unit
    /\ Go(IF scan'.state = "blocked" THEN "scan" ELSE "preview")
    /\ Stays /\ UNCHANGED <<current, job>>

\* pending_vector_fill_step: hashed members are read again to be shown ahead, from where it
\* stopped the last time.
Previews ==
    /\ pc = "preview" /\ Anew(my)
    /\ \/ UNCHANGED scan
       \/ Changed(scan.rows, scan.hashed \ excl) /\ scan' = Requested
    /\ Stays /\ UNCHANGED <<current, job>>

\* A scan blocked by a change is restarted.
Restarts ==
    /\ pc = "scan" /\ scan.state = "blocked" /\ scan' = Requested
    /\ Anew(my)
    /\ Stays /\ UNCHANGED <<current, job>>

\* _publish: the snapshot pointer moves, and a scan that was asked for meanwhile begins.
Completes ==
    /\ pc = "scan" /\ Scanning /\ Verified
    /\ current' = [at |-> scan.cut.at, files |-> scan.rows, filled |-> FALSE]
    /\ scan' = IF scan.again THEN Started ELSE NoScan
    /\ pc' = "look" /\ my' = [my EXCEPT !.after = TRUE, !.memo = "none", !.memoEpoch = 0]
    /\ Stays /\ UNCHANGED job

NothingToScan ==
    /\ pc = "scan" /\ scan.state = "none" /\ Go("settle")
    /\ Stays /\ UNCHANGED <<catalog, job>>

\* unchanged()
Settles ==
    /\ pc = "settle"
    /\ IF head.at = 0 \/ my.unusable THEN Anew(my) ELSE Go("done")
    /\ Stays /\ UNCHANGED <<catalog, job>>

\* "indexed" or "unchanged": the dispatcher acknowledges the wake.
Finishes ==
    /\ pc = "done" /\ pc' = "idle" /\ my' = NewRun
    /\ Stays /\ UNCHANGED <<catalog, job>>

-----------------------------------------------------------------------------
Edits == \E f \in Files : \/ Writes(f) \/ Creates(f) \/ Deletes(f)
                         \/ \E g \in Files : Moves(f, g)

Publication == \/ Looks \/ Captures \/ Fills
               \/ Leases \/ Loads \/ Stages \/ FindsStaged \/ StageFindsChange
               \/ StageFindsExclusion \/ Publishes \/ PublishFindsStale
               \/ Acks \/ Replans \/ Rescans

Run == \/ Starts \/ Resumes \/ Publication
       \/ Scans \/ Previews \/ Restarts \/ Completes \/ NothingToScan \/ Settles \/ Finishes

Exclusions == \E f \in Files : Excludes(f)

Next == Edits \/ Exclusions \/ Session \/ Run \/ GivesWay \/ Dies

Spec == Init /\ [][Next]_vars

\* The queue dispatches the wake again and again, a run goes on, and sessions keep
\* starting where Sessions says so.  Edits and exclusions come to an end.
FairSpec == Spec /\ WF_vars(Run) /\ WF_vars(Session)

-----------------------------------------------------------------------------
(* Properties *)

Stamps == [Files -> Nat]
ScanRows == [state : {"none", "pending", "blocked"}, sigs : [Dirs -> Nat], rows : Stamps,
             hashed : SUBSET Files, dirs : SUBSET Dirs, same : SUBSET Files,
             cut : [at : Nat, files : Stamps], again : BOOLEAN]
Snapshots == [at : Nat, files : Stamps, filled : BOOLEAN]
Heads == [at : Nat, files : Stamps, hidden : SUBSET Files, epoch : Nat]
Claims == [state : {"none", "pending", "leased"}, at : Nat, files : Stamps,
           hidden : SUBSET Files, epoch : Nat \cup {-1}, done : BOOLEAN]
Locals == [memo : {"none", "served", "unusable"}, memoEpoch : Nat, epoch : Nat,
           excl : SUBSET Files, after : BOOLEAN, own : BOOLEAN, unusable : BOOLEAN]
Steps == {"idle", "round", "look", "capture", "fill", "lease", "load", "stage",
          "publish", "ack", "replan", "rescan", "scan", "preview",
          "settle", "done"}

\* Types, and an unstaged generation is never published.
TypeOK ==
    /\ tree \in Stamps /\ entries \in [Dirs -> Nat] /\ edits \in Nat \ {0}
    /\ past \subseteq [at : Nat, files : Stamps]
    /\ scan \in ScanRows /\ current \in Snapshots
    /\ excl \subseteq Excludable /\ head \in Heads /\ job \in Claims
    /\ pc \in Steps /\ my \in Locals
    /\ asked \in BOOLEAN /\ stops \in Nat

\* A complete snapshot is the sources at one instant, files and directories together,
\* though they were read one by one while they were edited.
SnapshotWasTree == current.at # 0 => [at |-> current.at, files |-> current.files] \in past

\* What a pin relies on (_pinned): a head of the current exclusion epoch offers no
\* excluded document, whenever the exclusion came during staging or publication.
EpochTells == head.at # 0 /\ head.epoch = Epoch => Hidden(head.files) \subseteq head.hidden

\* When the wake is acknowledged the head serves the complete snapshot under the
\* exclusions this run has seen, and no claim is left behind.
AcknowledgedServes ==
    pc = "done" => /\ head.at # 0 /\ head.files = current.files
                   /\ head.epoch >= my.epoch /\ job = NoJob

\* Once the sources rest, the head comes to list them as they are.
Converges == <>[](/\ head.at # 0 /\ head.files = tree
                  /\ head.hidden = Hidden(tree) /\ head.epoch = Epoch)

Contract == INSTANCE IndexContract WITH
    barred <- excl,
    served <- [at |-> head.at, files |-> head.files, hidden |-> head.hidden]
ContractSpec == Contract!Spec
=============================================================================
