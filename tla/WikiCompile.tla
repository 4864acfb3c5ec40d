---------------------------- MODULE WikiCompile -----------------------------
(***************************************************************************)
(* How an edited source reaches the project wiki on the selected route:    *)
(* the edit hook and the discovery scan that queue it, the compile worker  *)
(* that claims the queue, proves or extracts and writes the cards, the     *)
(* refresh ledger that says an edit is still owed, and the verify pass     *)
(* that stamps and publishes them                                          *)
(* (core/wiki_compile_worker.py, wiki_compile.py, wiki_verify_worker.py,   *)
(* wiki_freshness.py, wiki_compile_enqueue.py, laya_wiki_discovery.py).    *)
(*                                                                         *)
(* One source: sources share only the queue files and the run lock.  One   *)
(* worker: every other one leaves at the run lock.  A definition marked    *)
(* "Variant" is not part of the model: it is a slip one of the properties  *)
(* exists to catch.                                                        *)
(***************************************************************************)
EXTENDS Naturals, Sequences, FiniteSets

CONSTANTS
    Cards,       \* cards of the wiki
    Contents,    \* contents the source file can have
    CardsOf,     \* content -> the cards an extraction of it yields, if it yields any
    First,       \* the content at the start
    None,
    MaxRequeue,  \* MAX_REQUEUE_COUNT
    MaxEvents    \* bound: edits of the source, hand edits of cards, failures

ASSUME WikiAssumption ==
    /\ CardsOf \in [Contents -> SUBSET Cards]
    /\ First \in Contents /\ None \notin Contents
    /\ MaxRequeue \in Nat /\ MaxEvents \in Nat

VARIABLES
    src, hook,        \* the source's content; the edit hook's next statement
    cursor,           \* laya_wiki_discovery: last scanned content, change not yet queued
    clock,            \* order of events and of the rows made by a scan
    ledger,           \* the latest refresh event and whether it is unresolved
    queue, claimed,   \* source queue and the claimed file, rows in file order
    live, staged,     \* card files and the hidden .pending- replacements of the jobs
    jobs,             \* verify queue: the latest job of each card
    pc, job, review,  \* compile worker: statement, current row, verify pass
    lost,             \* history: a step known to forget a revision was taken
    events            \* how many of MaxEvents have happened

sourceVars == <<src, hook, cursor>>
queueVars  == <<clock, ledger, queue, claimed>>
cardVars   == <<live, staged, jobs>>
workVars   == <<pc, job, review>>
vars == <<sourceVars, queueVars, cardVars, workVars, lost, events>>

\* A row's ts, partialCompile marker, _requeue_count and contentRevision.
Row(ts, rev) == [ts |-> ts, partial |-> FALSE, count |-> 0, rev |-> rev]

\* A person's edits in a card: inside the managed block (and the frontmatter keys
\* the compiler owns), and in the rest of it.
Unedited     == [rest |-> 0, block |-> 0]
Edited(hand) == {[hand EXCEPT !.rest = @ + 1], [hand EXCEPT !.block = @ + 1]}

\* A card file: sourceRevisions, a person's edits, its status ("edited":
\* verified, but the text no longer has the verified digest), the edits in the
\* text its verifier read, and whether it was verified after the latest event.
Card(rev, hand, status) ==
    [rev |-> rev, hand |-> hand, status |-> status, read |-> Unedited, since |-> FALSE]
NoCard == Card(None, Unedited, "absent")
Text(card) == <<card.rev, card.hand, card.status>>

\* A verify job: sourceRevisions, pendingPath, expectedTargetHash.
NoJob    == [rev |-> None, staged |-> FALSE, over |-> Text(NoCard)]
NoWork   == [row |-> Row(0, None), bound |-> 0, snap |-> None, todo |-> {},
             failed |-> FALSE, whole |-> FALSE, keep |-> FALSE]
NoReview == [todo |-> {}, card |-> None, text |-> Text(NoCard), done |-> {}]

Revs     == Contents \cup {None}
Statuses == {"absent", "generated", "verified", "edited", "superseded"}
Hands(n) == [rest : 0..n, block : 0..n]
Texts    == Revs \X Hands(MaxEvents) \X Statuses
CardFiles == [rev : Revs, hand : Hands(MaxEvents), status : Statuses, read : Hands(MaxEvents),
              since : BOOLEAN]
Rows     == [ts : Nat, partial : BOOLEAN, count : 0..MaxRequeue, rev : Revs]

TypeOK ==
    /\ src \in Contents /\ hook \in {"idle", "edited", "recorded"}
    /\ cursor \in [snap : Revs, pend : BOOLEAN]
    /\ clock \in Nat /\ ledger \in [id : 0..clock, open : BOOLEAN]
    /\ queue \in Seq(Rows) /\ claimed \in Seq(Rows)
    /\ live \in [Cards -> CardFiles] /\ staged \in [Cards -> CardFiles]
    /\ jobs \in [Cards -> [rev : Revs, staged : BOOLEAN, over : Texts]]
    /\ pc \in {"idle", "claim", "bind", "capture", "guard", "skip", "extract",
               "write", "settle", "requeue", "unlink", "verify", "judge", "publish"}
    /\ job \in [row : Rows, bound : Nat, snap : Revs, todo : SUBSET Cards,
                failed : BOOLEAN, whole : BOOLEAN, keep : BOOLEAN]
    /\ review \in [todo : SUBSET Cards, card : Cards \cup {None}, text : Texts,
                   done : SUBSET Cards]
    /\ lost \in BOOLEAN /\ events \in 0..MaxEvents

\* A wiki that was never compiled, or one whose every card is verified.
Init ==
    /\ src = First /\ hook = "idle" /\ clock = 0 /\ ledger = [id |-> 0, open |-> FALSE]
    /\ queue = <<>> /\ claimed = <<>>
    /\ staged = [k \in Cards |-> NoCard] /\ jobs = [k \in Cards |-> NoJob]
    /\ pc = "idle" /\ job = NoWork /\ review = NoReview /\ lost = FALSE
    /\ events = 0
    /\ \/ /\ cursor = [snap |-> None, pend |-> FALSE]
          /\ live = [k \in Cards |-> NoCard]
       \/ /\ cursor = [snap |-> First, pend |-> FALSE]
          /\ live = [k \in Cards |-> IF k \in CardsOf[First]
                                     THEN Card(First, Unedited, "verified") ELSE NoCard]

Happens == events < MaxEvents /\ events' = events + 1

\* What recall serves: _verified_wiki_row(current_source=False).
Trusted(k) == live[k].status = "verified"

\* Every card of a content is compiled from it, published or staged.
Whole(c) == \A k \in CardsOf[c] : live[k].rev = c \/ staged[k].rev = c

-----------------------------------------------------------------------------
(* The user, the edit hook and the discovery scan *)

\* An agent's edit, with its PostToolUse hook to come; the same content again
\* is a touch.
Edits(c) ==
    /\ Happens /\ hook = "idle" /\ hook' = "edited" /\ src' = c
    /\ UNCHANGED <<cursor, queueVars, cardVars, workVars, lost>>

\* A change without a hook (git, another tool).  One that takes back what no
\* scan has seen is not found: the scan compares with its last snapshot.
Pulls(c) ==
    /\ Happens /\ c # src /\ src' = c
    /\ lost' = (lost \/ (c = cursor.snap /\ ~cursor.pend))
    /\ UNCHANGED <<hook, cursor, queueVars, cardVars, workVars>>

\* No verification so far is later than a new event.
Earlier(cards) == [k \in Cards |-> [cards[k] EXCEPT !.since = FALSE]]

\* record_pending_refresh: the ledger before the queue.
Records ==
    /\ hook = "edited" /\ hook' = "recorded"
    /\ clock' = clock + 1 /\ ledger' = [id |-> clock + 1, open |-> TRUE]
    /\ live' = Earlier(live) /\ staged' = Earlier(staged)
    /\ UNCHANGED <<src, cursor, queue, claimed, jobs, workVars, lost, events>>

Appends ==
    /\ hook = "recorded" /\ hook' = "idle"
    /\ queue' = Append(queue, Row(ledger.id, None))
    /\ UNCHANGED <<src, cursor, clock, ledger, claimed, cardVars, workVars, lost, events>>

\* Killed by its host's timeout; before the ledger row this is a Pulls.
HookDies ==
    /\ Happens /\ hook # "idle" /\ hook' = "idle"
    /\ lost' = (lost \/ (hook = "edited" /\ src = cursor.snap /\ ~cursor.pend))
    /\ UNCHANGED <<src, cursor, queueVars, cardVars, workVars>>

\* Variant: the change is acknowledged when it is seen.
ScansAckingFirst(last) ==
    /\ src # cursor.snap \/ cursor.pend
    /\ IF last = "acked" THEN UNCHANGED events ELSE Happens
    /\ cursor' = [snap |-> src, pend |-> FALSE]
    /\ IF last = "journalled" \/ \E i \in DOMAIN queue : queue[i].rev = src
         THEN UNCHANGED <<clock, queue>>
         ELSE clock' = clock + 1 /\ queue' = Append(queue, Row(clock + 1, src))
    /\ UNCHANGED <<src, hook, ledger, claimed, cardVars, workVars, lost>>

\* _drain_once: the change is journalled, queued unless a row of this revision
\* is still queued, and acknowledged; a scan that dies stops at any of them.
Scans(last) ==
    /\ src # cursor.snap \/ cursor.pend
    /\ IF last = "acked" THEN UNCHANGED events ELSE Happens
    /\ cursor' = [snap |-> src, pend |-> last # "acked"]
    /\ IF last = "journalled" \/ \E i \in DOMAIN queue : queue[i].rev = src
         THEN UNCHANGED <<clock, queue>>
         ELSE clock' = clock + 1 /\ queue' = Append(queue, Row(clock + 1, src))
    /\ UNCHANGED <<src, hook, ledger, claimed, cardVars, workVars, lost>>

\* A person edits a published card, as AUTO_DISCLAIMER in it invites.
HandEdits(k) ==
    /\ Happens /\ live[k].status # "absent"
    /\ \E hand \in Edited(live[k].hand) :
          live' = [live EXCEPT ![k].hand = hand,
                               ![k].status = IF @ = "verified" THEN "edited" ELSE @]
    /\ UNCHANGED <<sourceVars, queueVars, staged, jobs, workVars, lost>>

\* A person ends a card: the compiler may not revive it.
Supersedes(k) ==
    /\ Happens /\ live[k].status \notin {"absent", "superseded"}
    /\ live' = [live EXCEPT ![k].status = "superseded"]
    /\ UNCHANGED <<sourceVars, queueVars, staged, jobs, workVars, lost>>

-----------------------------------------------------------------------------
(* The compile worker: recover, claim, bind, capture *)

Goes(from, to) == pc = from /\ pc' = to

\* _idle_locked: what keeps the compile wake, and what a session's kick flushes.
Busy == queue # <<>> \/ claimed # <<>> \/ ledger.open \/ \E k \in Cards : jobs[k] # NoJob

\* Variant: the worker trusts the queue alone.
RecoversNothing ==
    /\ Busy /\ Goes("idle", "claim")
    /\ UNCHANGED <<sourceVars, queueVars, cardVars, job, review, lost, events>>

\* A wake or a kick gets the run lock.  recover_pending_refreshes: an
\* unresolved event is queued again, at its own time.
Recovers ==
    /\ Busy /\ Goes("idle", "claim")
    /\ queue' = IF ledger.open THEN Append(queue, Row(ledger.id, None)) ELSE queue
    /\ UNCHANGED <<sourceVars, clock, ledger, claimed, cardVars, job, review, lost, events>>

Counted(row) == [row EXCEPT !.count = @ + 1]

\* Variant: a dead worker's rows are counted and never given up.
ReclaimedForever == [i \in DOMAIN claimed |-> Counted(claimed[i])]

\* reclaim_orphaned_claimed: a dead worker's rows, each counted, until it has
\* killed too many.
Reclaimed ==
    LET spared[n \in 0..Len(claimed)] ==
            IF n = 0 THEN <<>>
            ELSE IF claimed[n].count < MaxRequeue
                   THEN Append(spared[n - 1], Counted(claimed[n])) ELSE spared[n - 1]
    IN spared[Len(claimed)]

\* dedup_jobs: the newest row of the source, the last of equally new ones.
Newest(rows) ==
    rows[CHOOSE i \in DOMAIN rows : \A j \in DOMAIN rows :
            rows[j].ts < rows[i].ts \/ (rows[j].ts = rows[i].ts /\ j <= i)]

VerifyNext == [NoReview EXCEPT !.todo = {k \in Cards : jobs[k] # NoJob}]

Claims ==
    LET rows == queue \o Reclaimed IN
    /\ queue' = <<>> /\ claimed' = rows
    /\ IF rows = <<>>
         THEN /\ Goes("claim", "verify") /\ review' = VerifyNext
              /\ lost' = (lost \/ claimed # <<>>) /\ UNCHANGED job
         ELSE /\ Goes("claim", "bind") /\ job' = [NoWork EXCEPT !.row = Newest(rows)]
              /\ UNCHANGED <<review, lost>>
    /\ UNCHANGED <<sourceVars, clock, ledger, cardVars, events>>

\* process_job: the event first, then the content.
Binds ==
    /\ Goes("bind", "capture")
    /\ job' = [job EXCEPT !.bound = IF ledger.open THEN ledger.id ELSE 0]
    /\ UNCHANGED <<sourceVars, queueVars, cardVars, review, lost, events>>

Captures ==
    /\ pc = "capture" /\ pc' = IF job.row.partial THEN "extract" ELSE "guard"
    /\ job' = [job EXCEPT !.snap = src]
    /\ UNCHANGED <<sourceVars, queueVars, cardVars, review, lost, events>>

-----------------------------------------------------------------------------
(* The worker: proof, extraction, cards, settlement *)

\* selected_compiled_revision_card: at least one published card names the
\* captured content, and each that does is trusted, still current, and under
\* an unresolved event was verified before it.
Proven ==
    LET named == {k \in Cards : live[k].rev = job.snap}
    IN /\ named # {} /\ src = job.snap
       /\ \A k \in named : Trusted(k) /\ (ledger.open => ~live[k].since)

Guards ==
    /\ pc = "guard" /\ pc' = IF Proven THEN "skip" ELSE "extract"
    /\ UNCHANGED <<sourceVars, queueVars, cardVars, job, review, lost, events>>

\* resolve_pending_refresh: still the latest event, and the captured content.
Resolvable == ledger = [id |-> job.bound, open |-> TRUE] /\ src = job.snap

\* Done with the row: resolves the bound event or keeps the row for it.
SettlesEvent ==
    /\ ledger' = [ledger EXCEPT !.open = @ /\ ~Resolvable]
    /\ job' = [job EXCEPT !.keep = job.bound # 0 /\ ~Resolvable]

\* Already compiled.  A proof by one card of several forgets the others.
Skips ==
    /\ Goes("skip", "requeue") /\ SettlesEvent
    /\ lost' = (lost \/ (~job'.keep /\ ~Whole(job.snap)))
    /\ UNCHANGED <<sourceVars, clock, queue, claimed, cardVars, review, events>>

\* An answer without a card is accepted too, and completes no refresh.
Extracts ==
    /\ src = job.snap /\ pc = "extract"
    /\ \E cards \in {CardsOf[job.snap], {}} :
         /\ pc' = IF cards = {} THEN "settle" ELSE "write"
         /\ job' = [job EXCEPT !.todo = cards, !.whole = cards # {}]
    /\ UNCHANGED <<sourceVars, queueVars, cardVars, review, lost, events>>

\* The source changed meanwhile, or no provider answers now: the row stays.
ExtractsLater ==
    /\ Goes("extract", "requeue")
    /\ IF src = job.snap THEN Happens ELSE UNCHANGED events
    /\ job' = [job EXCEPT !.keep = TRUE]
    /\ UNCHANGED <<sourceVars, queueVars, cardVars, review, lost>>

\* An unusable answer: the row is dropped, its event stays.
ExtractsBadly ==
    /\ Happens /\ src = job.snap /\ Goes("extract", "requeue")
    /\ lost' = (lost \/ ~ledger.open)
    /\ UNCHANGED <<sourceVars, queueVars, cardVars, job, review>>

CardDone(k) == pc = "write" /\ k \in job.todo
               /\ pc' = IF job.todo = {k} THEN "settle" ELSE "write"

\* compose_generated_card: the block is generated again; the rest survives.
Compiled(k) == Card(job.snap, [rest |-> live[k].hand.rest, block |-> 0], "generated")

\* _compile_locked: a trusted card stays published and its replacement is
\* staged; any other is created or rewritten.  Either gets a verify job.
Writes(k) ==
    /\ CardDone(k) /\ live[k].status # "superseded"
    /\ job' = [job EXCEPT !.todo = @ \ {k}]
    /\ IF Trusted(k)
         THEN staged' = [staged EXCEPT ![k] = Compiled(k)] /\ UNCHANGED live
         ELSE live' = [live EXCEPT ![k] = Compiled(k)] /\ UNCHANGED staged
    /\ jobs' = [jobs EXCEPT ![k] = [rev |-> job.snap, staged |-> Trusted(k),
                                    over |-> Text(IF Trusted(k) THEN live[k] ELSE NoCard)]]
    /\ UNCHANGED <<sourceVars, queueVars, review, lost, events>>

\* The writer stops between the card and its verify job; a replacement without a
\* job is a file that nothing names.
WritesUnqueued(k) ==
    /\ Happens /\ CardDone(k) /\ live[k].status # "superseded"
    /\ job' = [job EXCEPT !.todo = @ \ {k}, !.failed = TRUE, !.whole = FALSE]
    /\ live' = IF Trusted(k) THEN live ELSE [live EXCEPT ![k] = Compiled(k)]
    /\ UNCHANGED <<sourceVars, queueVars, staged, jobs, review, lost>>

\* The writer refuses a card; it may refuse it again whenever the row is retried.
Rejects(k) ==
    /\ CardDone(k)
    /\ job' = [job EXCEPT !.todo = @ \ {k}, !.failed = TRUE, !.whole = FALSE]
    /\ IF job.row.partial THEN UNCHANGED events ELSE Happens
    /\ UNCHANGED <<sourceVars, queueVars, cardVars, review, lost>>

\* merge-needed and candidate: held for a person; a superseded card always is.
Holds(k) ==
    /\ CardDone(k) /\ job' = [job EXCEPT !.todo = @ \ {k}, !.whole = FALSE]
    /\ IF live[k].status = "superseded" THEN UNCHANGED events ELSE Happens
    /\ UNCHANGED <<sourceVars, queueVars, cardVars, review, lost>>

SettlesFailed ==
    /\ job.failed /\ Goes("settle", "requeue")
    /\ job' = [job EXCEPT !.keep = TRUE, !.row.partial = TRUE]
    /\ UNCHANGED <<sourceVars, queueVars, cardVars, review, lost, events>>

\* No card, or one held back: the row is dropped and its event, if any, stays
\* unresolved.
SettlesHeld ==
    /\ ~job.failed /\ ~job.whole /\ Goes("settle", "requeue")
    /\ lost' = (lost \/ (~ledger.open /\ ~Whole(job.snap)))
    /\ UNCHANGED <<sourceVars, queueVars, cardVars, job, review, events>>

SettlesWhole ==
    /\ ~job.failed /\ job.whole /\ Goes("settle", "requeue") /\ SettlesEvent
    /\ UNCHANGED <<sourceVars, clock, queue, claimed, cardVars, review, lost, events>>

Requeues ==
    /\ Goes("requeue", "unlink")
    /\ queue' = IF job.keep THEN Append(queue, job.row) ELSE queue
    /\ UNCHANGED <<sourceVars, clock, ledger, claimed, cardVars, job, review, lost, events>>

Unlinks ==
    /\ Goes("unlink", "verify") /\ claimed' = <<>>
    /\ job' = NoWork /\ review' = VerifyNext
    /\ UNCHANGED <<sourceVars, clock, ledger, queue, cardVars, lost, events>>

-----------------------------------------------------------------------------
(* The verify pass of the same run *)

\* The text a job is about: the staged replacement or the published card.
Target(k) == IF jobs[k].staged THEN staged[k] ELSE live[k]

\* Done with k: its job leaves the queue with the others when the run ends.
Processed(k) ==
    review' = [NoReview EXCEPT !.todo = review.todo \ {k}, !.done = review.done \cup {k}]

\* Under the card lock: the file is still the text that was sent, and the source
\* the one it was checked against.
Same(k)  == Text(Target(k)) = review.text
Fresh(k) == src = jobs[k].rev

Picks(k) == pc = "verify" /\ k \in review.todo

\* A run died between the stamp and the publication.
Replays(k) ==
    /\ Picks(k) /\ jobs[k].staged /\ staged[k].status = "verified"
    /\ pc' = "publish" /\ review' = [review EXCEPT !.todo = @ \ {k}, !.card = k]
    /\ UNCHANGED <<sourceVars, queueVars, cardVars, job, lost, events>>

ToJudge(k) == Target(k).status = "generated" /\ Target(k).rev = jobs[k].rev

\* Missing or no longer generated: a run died after the stamp or the publication.
Discards(k) ==
    /\ Picks(k) /\ ~ToJudge(k) /\ ~(jobs[k].staged /\ staged[k].status = "verified")
    /\ Processed(k)
    /\ UNCHANGED <<sourceVars, queueVars, cardVars, pc, job, lost, events>>

Defers(k) ==
    /\ Picks(k) /\ ToJudge(k) /\ ~Fresh(k)
    /\ review' = [review EXCEPT !.todo = @ \ {k}]
    /\ UNCHANGED <<sourceVars, queueVars, cardVars, pc, job, lost, events>>

\* process_verify_job sends the text and the source to the verifier.
Reads(k) ==
    /\ Picks(k) /\ ToJudge(k) /\ Fresh(k) /\ pc' = "judge"
    /\ review' = [review EXCEPT !.todo = @ \ {k}, !.card = k, !.text = Text(Target(k))]
    /\ UNCHANGED <<sourceVars, queueVars, cardVars, job, lost, events>>

ChangedMeanwhile ==
    LET k == review.card IN
    /\ Goes("judge", "verify") /\ ~Same(k) /\ Processed(k)
    /\ UNCHANGED <<sourceVars, queueVars, cardVars, job, lost, events>>

\* The source moved on, or no answer, no lock or no room for the stamp: the job
\* stays.
JudgesLater ==
    /\ Goes("judge", "verify")
    /\ IF Same(review.card) /\ ~Fresh(review.card) THEN UNCHANGED events ELSE Happens
    /\ UNCHANGED <<sourceVars, queueVars, cardVars, job, review, lost>>

\* A negative verdict leaves the card as it is (onFail and onInconclusive are
\* 'none' on the selected route); an unusable answer ends the job too.
Fails ==
    /\ Happens /\ Goes("judge", "verify") /\ Processed(review.card)
    /\ UNCHANGED <<sourceVars, queueVars, cardVars, job, lost>>

Stamped(card) == [card EXCEPT !.status = "verified", !.read = review.text[2], !.since = TRUE]

\* Variant: the text is not compared again, and the digest is the file's.
PassesUnread ==
    LET k == review.card IN
    /\ pc = "judge" /\ Fresh(k)
    /\ IF jobs[k].staged
         THEN staged' = [staged EXCEPT ![k] = Stamped(@)] /\ pc' = "publish" /\ UNCHANGED <<live, review>>
         ELSE live' = [live EXCEPT ![k] = Stamped(@)] /\ pc' = "verify" /\ Processed(k) /\ UNCHANGED staged
    /\ UNCHANGED <<sourceVars, queueVars, jobs, job, lost, events>>

\* stamp_verification; a staged card is then published.
Passes ==
    LET k == review.card IN
    /\ pc = "judge" /\ Same(k) /\ Fresh(k)
    /\ IF jobs[k].staged
         THEN staged' = [staged EXCEPT ![k] = Stamped(@)] /\ pc' = "publish" /\ UNCHANGED <<live, review>>
         ELSE live' = [live EXCEPT ![k] = Stamped(@)] /\ pc' = "verify" /\ Processed(k) /\ UNCHANGED staged
    /\ UNCHANGED <<sourceVars, queueVars, jobs, job, lost, events>>

\* Variant: whatever is published is replaced.
PublishesOver ==
    LET k == review.card IN
    /\ Goes("publish", "verify") /\ Processed(k)
    /\ live' = [live EXCEPT ![k] = staged[k]]
    /\ staged' = [staged EXCEPT ![k] = NoCard]
    /\ lost' = (lost \/ staged[k].rev # src)
    /\ UNCHANGED <<sourceVars, queueVars, jobs, job, events>>

\* publish_pending_replacement, or finish_stale_pending when the published
\* card is not the one the replacement was made for.
Publishes ==
    LET k == review.card
        expected == Text(live[k]) = jobs[k].over
    IN /\ Goes("publish", "verify") /\ Processed(k)
       /\ live' = [live EXCEPT ![k] = IF expected THEN staged[k] ELSE @]
       /\ staged' = [staged EXCEPT ![k] = NoCard]
       /\ lost' = (lost \/ ~expected \/ staged[k].rev # src)
       /\ UNCHANGED <<sourceVars, queueVars, jobs, job, events>>

\* The archive or the replacement could not be written.
PublishesLater ==
    /\ Happens /\ Goes("publish", "verify")
    /\ UNCHANGED <<sourceVars, queueVars, cardVars, job, review, lost>>

\* run's last statements: the claimed jobs are settled together.
Ends ==
    /\ review.todo = {} /\ Goes("verify", "idle") /\ review' = NoReview
    /\ jobs' = [k \in Cards |-> IF k \in review.done THEN NoJob ELSE jobs[k]]
    /\ UNCHANGED <<sourceVars, queueVars, live, staged, job, lost, events>>

WorkerDies ==
    /\ Happens /\ pc # "idle" /\ pc' = "idle" /\ job' = NoWork /\ review' = NoReview
    /\ UNCHANGED <<sourceVars, queueVars, cardVars, lost>>

-----------------------------------------------------------------------------
(* Specification *)

CompileStep ==
    \/ Recovers \/ Claims \/ Binds \/ Captures \/ Guards \/ Skips
    \/ Extracts \/ ExtractsLater \/ ExtractsBadly
    \/ \E k \in Cards : Writes(k) \/ WritesUnqueued(k) \/ Rejects(k) \/ Holds(k)
    \/ SettlesFailed \/ SettlesHeld \/ SettlesWhole \/ Requeues \/ Unlinks

VerifyStep ==
    \/ \E k \in Cards : Replays(k) \/ Discards(k) \/ Defers(k) \/ Reads(k)
    \/ ChangedMeanwhile \/ JudgesLater \/ Fails \/ Passes \/ Publishes \/ PublishesLater \/ Ends

HookStep == Records \/ Appends
ScanStep == \E last \in {"journalled", "queued", "acked"} : Scans(last)

Next ==
    \/ \E c \in Contents : Edits(c) \/ Pulls(c)
    \/ \E k \in Cards : HandEdits(k) \/ Supersedes(k)
    \/ HookStep \/ HookDies \/ ScanStep
    \/ CompileStep \/ VerifyStep \/ WorkerDies

Spec == Init /\ [][Next]_vars

\* Hooks and the worker run to their end; sessions and hooks go on, and each
\* scans and kicks the worker.
FairSpec == Spec /\ WF_vars(HookStep) /\ WF_vars(ScanStep)
                 /\ WF_vars(CompileStep \/ VerifyStep)

-----------------------------------------------------------------------------
(* Properties *)

\* The text of a card that recall serves is one a verifier has passed.
TrustedWasRead == \A k \in Cards : Trusted(k) => live[k].read = live[k].hand

\* Neither the compiler nor the verifier takes a trusted card out of recall, or
\* loses what a person wrote outside the managed block; what was written inside
\* it is lost to a compile of an untrusted card, and to a publication only when
\* the card is one that a verifier passed with it.
CardKept ==
    [][\A k \in Cards :
        /\ live'[k].hand.rest >= live[k].hand.rest
        /\ Trusted(k) => \/ Trusted(k)'
                         \/ live'[k].hand \in Edited(live[k].hand)
                         \/ live'[k].status = "superseded"
        /\ pc = "publish" => Trusted(k) \/ live'[k].hand.block >= live[k].hand.block]_vars

\* Nothing is on its way: no hook, no worker, no row, no open event, no change
\* a scan has not queued.
Quiet ==
    /\ hook = "idle" /\ pc = "idle" /\ queue = <<>> /\ claimed = <<>> /\ ~ledger.open
    /\ cursor = [snap |-> src, pend |-> FALSE]

\* When nothing is on its way every card of the source is compiled from it.
IdleMeansCovered == Quiet /\ ~lost => Whole(src)

\* An extraction without a card, or with one the writer holds or refuses.
HeldBack == pc = "settle" /\ (job.failed \/ ~job.whole)

\* In the end the queue is drained, the ledger resolved, and every card of the
\* source has had its verdict; unless cards are held back again and again, when
\* the row or its open event goes round at every run.
Converges ==
    []<>HeldBack \/
    <>[](/\ queue = <<>> /\ claimed = <<>> /\ ~ledger.open
         /\ \A k \in Cards : jobs[k] # NoJob => jobs[k].rev # src)

\* What the guard accepts as proof of a finished compile is one.
SkipIsProof == pc = "skip" /\ src = job.snap => Whole(job.snap)
=============================================================================
