----------------------------- MODULE WakeSettle -----------------------------
(***************************************************************************)
(* The retry history of one Laya wake: settle() of                         *)
(* core/runtime_wake_policy.py, the streak files of core/runtime_work.py   *)
(* it decides from, and the end of a dispatch in drain(), which writes the *)
(* files and commits the row one after the other and may die in between.   *)
(*                                                                         *)
(* Time is relative: ticks until the row is due and ticks since a streak   *)
(* began, the latter only as far as a decision looks.  A definition marked *)
(* "Variant" is not part of the model: it is a slip one of the properties  *)
(* exists to catch.                                                        *)
(***************************************************************************)
EXTENDS Naturals

CONSTANTS
    RetryBase, RetryMax, MaxExponent, \* RETRY_BASE_SECS, RETRY_MAX_SECS, RETRY_MAX_EXPONENT
    RetryCap,        \* RETRY_CAP_ATTEMPTS
    DropAfter,       \* MISSING_DROP_SECS
    DropSightings,   \* MISSING_DROP_MIN_OBSERVATIONS
    PreparingWait,   \* PREPARING_RETRY_SECS
    StallAfter,      \* PREPARING_STALL_SECS
    MaxRequests,     \* bound: requests of the wake
    MaxCrashes       \* bound: dispatchers that die before the commit

ASSUME SettleAssumption ==
    /\ {RetryBase, RetryMax, RetryCap, DropAfter, DropSightings, PreparingWait, StallAfter} \subseteq Nat \ {0}
    /\ {MaxExponent, MaxRequests, MaxCrashes} \subseteq Nat

VARIABLES
    stored, attempts, wait,  \* the row, its counted failures, the ticks until it is due
    newer,                   \* requested again since it was claimed
    at, outcome, step,       \* the dispatcher's place in drain, how the handler ended, settle's answer
    missing, preparing,      \* the entries of the two streak files
    requests, crashes,
    \* what really happened, for the properties: counted failures of this row,
    \* missing and preparing endings in a row, with the reports made of the latter,
    \* and whether a dispatcher died before it cleared a missing streak that had ended
    failures, gone, unready, uncleared

row    == <<stored, attempts, wait, newer>>
files  == <<missing, preparing>>
bounds == <<requests, crashes>>
truth  == <<failures, gone, unready, uncleared>>
vars   == <<row, at, outcome, step, files, bounds, truth>>

Outcomes == {"done", "missing", "preparing", "failed"}
NoStreak == [age |-> 0, seen |-> 0, reported |-> FALSE]
LowerOf(a, b) == IF a <= b THEN a ELSE b

\* retry_delay
RetryDelay(n) == LowerOf(RetryMax, RetryBase * 2 ^ LowerOf(n, MaxExponent))

\* Sightings are counted as far as RetryDelay and DropSightings tell them apart.
MaxSeen == DropSightings + MaxExponent
Longer(s) == [s EXCEPT !.seen = LowerOf(@ + 1, MaxSeen)]
Older(s, limit) == IF s.seen = 0 THEN s ELSE [s EXCEPT !.age = LowerOf(@ + 1, limit)]

\* The answers of settle: an acknowledgement, a retry after some ticks.
Acked == [ack |-> TRUE, wait |-> 0, count |-> 0, drop |-> "none", stalled |-> FALSE]
Backoff(ticks, n) == [Acked EXCEPT !.ack = FALSE, !.wait = ticks, !.count = n]

Answers == [ack : BOOLEAN, wait : 0..RetryMax + PreparingWait, count : {0, 1},
            drop : {"none", "target_missing", "retry_cap"}, stalled : BOOLEAN]

Streaks(limit) == [age : 0..limit, seen : 0..MaxSeen, reported : BOOLEAN]

TypeOK ==
    /\ stored \in BOOLEAN /\ newer \in BOOLEAN
    /\ attempts \in 0..RetryCap - 1 /\ wait \in 0..RetryMax + PreparingWait
    /\ at \in {"idle", "run", "ended", "filed"} /\ outcome \in Outcomes \cup {"none"}
    /\ step \in Answers
    /\ missing \in Streaks(DropAfter) /\ preparing \in Streaks(StallAfter)
    /\ requests \in 0..MaxRequests /\ crashes \in 0..MaxCrashes
    /\ failures \in 0..RetryCap
    /\ gone \in Streaks(DropAfter) /\ unready \in Streaks(StallAfter)
    /\ uncleared \in BOOLEAN

Init ==
    /\ stored = FALSE /\ attempts = 0 /\ wait = 0 /\ newer = FALSE
    /\ at = "idle" /\ outcome = "none" /\ step = Acked
    /\ missing = NoStreak /\ preparing = NoStreak
    /\ requests = 0 /\ crashes = 0
    /\ failures = 0 /\ gone = NoStreak /\ unready = NoStreak /\ uncleared = FALSE

-----------------------------------------------------------------------------
(* settle: what becomes of a claimed wake *)

\* Variant: a stall is reported whenever it is seen.
SettlePreparingLoudly ==
    IF preparing.age < StallAfter THEN Backoff(PreparingWait, 0)
    ELSE [Backoff(RetryMax, 0) EXCEPT !.stalled = TRUE]

SettlePreparing ==
    IF preparing.age < StallAfter THEN Backoff(PreparingWait, 0)
    ELSE [Backoff(RetryMax, 0) EXCEPT !.stalled = ~preparing.reported]

\* Variant: enough sightings drop the wake, however close together.
SettleMissingEarly ==
    IF missing.seen >= DropSightings THEN [Acked EXCEPT !.drop = "target_missing"]
    ELSE Backoff(RetryDelay(missing.seen - 1), 0)

SettleMissing ==
    IF missing.seen >= DropSightings /\ missing.age >= DropAfter
    THEN [Acked EXCEPT !.drop = "target_missing"]
    ELSE Backoff(RetryDelay(missing.seen - 1), 0)

\* Variant: no cap.
SettleFailedAgain == Backoff(RetryDelay(attempts), IF attempts < RetryCap THEN 1 ELSE 0)

\* Variant: the cap is compared one failure early.
SettleFailedEarly ==
    IF attempts + 2 >= RetryCap THEN [Acked EXCEPT !.drop = "retry_cap", !.count = 1]
    ELSE Backoff(RetryDelay(attempts), 1)

SettleFailed ==
    IF attempts + 1 >= RetryCap THEN [Acked EXCEPT !.drop = "retry_cap", !.count = 1]
    ELSE Backoff(RetryDelay(attempts), 1)

\* "done" is also a handler's own Dropped answer.
Settle == CASE outcome = "done" -> Acked
            [] outcome = "preparing" -> SettlePreparing
            [] outcome = "missing" -> SettleMissing
            [] outcome = "failed" -> SettleFailed

-----------------------------------------------------------------------------
(* Requests and time *)

\* offer, with or without pull_due.
Request ==
    /\ requests < MaxRequests /\ requests' = requests + 1
    /\ stored' = TRUE /\ newer' = (at # "idle")
    /\ IF stored THEN wait' \in {wait, 0} /\ UNCHANGED <<attempts, failures>>
       ELSE wait' = 0 /\ attempts' = 0 /\ failures' = 0
    /\ UNCHANGED <<at, outcome, step, files, crashes, gone, unready, uncleared>>

Tick ==
    /\ wait' = IF wait = 0 THEN 0 ELSE wait - 1
    /\ missing' = Older(missing, DropAfter) /\ gone' = Older(gone, DropAfter)
    /\ preparing' = Older(preparing, StallAfter) /\ unready' = Older(unready, StallAfter)
    /\ UNCHANGED <<stored, attempts, newer, at, outcome, step, bounds, failures, uncleared>>

-----------------------------------------------------------------------------
(* One dispatch in drain *)

Dispatch ==
    /\ at = "idle" /\ stored /\ wait = 0
    /\ at' = "run" /\ newer' = FALSE
    /\ UNCHANGED <<stored, attempts, wait, outcome, step, files, bounds, truth>>

\* The handler ends; _observe_missing or _observe_preparing adds to its streak.
Ends(o) ==
    /\ at = "run" /\ at' = "ended" /\ outcome' = o
    /\ missing' = IF o = "missing" THEN Longer(missing) ELSE missing
    /\ preparing' = IF o = "preparing" THEN Longer(preparing) ELSE preparing
    /\ failures' = IF o = "failed" THEN LowerOf(failures + 1, RetryCap) ELSE failures
    /\ gone' = IF o = "missing" THEN Longer(gone) ELSE NoStreak
    /\ unready' = IF o = "preparing" THEN Longer(unready) ELSE NoStreak
    /\ UNCHANGED <<row, step, bounds, uncleared>>

\* Streaks another outcome ended are cleared, a stall is reported: on disk before the commit.
Files ==
    /\ at = "ended" /\ at' = "filed" /\ step' = Settle
    /\ missing' = IF outcome # "missing" \/ Settle.ack THEN NoStreak ELSE missing
    /\ preparing' = IF outcome # "preparing" THEN NoStreak
                    ELSE [preparing EXCEPT !.reported = @ \/ Settle.stalled]
    /\ unready' = [unready EXCEPT !.reported = @ \/ Settle.stalled]
    /\ uncleared' = (uncleared /\ outcome = "missing" /\ ~Settle.ack)
    /\ UNCHANGED <<row, outcome, bounds, failures, gone>>

\* Variant: a dropped wake takes its newer request along.
CommitDropsAll ==
    /\ at = "filed" /\ at' = "idle" /\ outcome' = "none" /\ step' = Acked /\ newer' = FALSE
    /\ wait' = step.wait
    /\ IF step.ack
       THEN /\ stored' = (newer /\ step.drop = "none")
            /\ attempts' = 0 /\ failures' = 0
       ELSE attempts' = attempts + step.count /\ UNCHANGED <<stored, failures>>
    /\ UNCHANGED <<files, bounds, gone, unready, uncleared>>

\* The DELETE and UPDATE: an acknowledged row stays only for a newer revision,
\* with a fresh history.
Commit ==
    /\ at = "filed" /\ at' = "idle" /\ outcome' = "none" /\ step' = Acked /\ newer' = FALSE
    /\ wait' = step.wait
    /\ IF step.ack
       THEN stored' = newer /\ attempts' = 0 /\ failures' = 0
       ELSE attempts' = attempts + step.count /\ UNCHANGED <<stored, failures>>
    /\ UNCHANGED <<files, bounds, gone, unready, uncleared>>

\* The dispatcher dies, or its transaction fails: the row is pending again and still due.
Crash ==
    /\ at # "idle" /\ crashes < MaxCrashes
    /\ crashes' = crashes + 1
    /\ at' = "idle" /\ outcome' = "none" /\ step' = Acked /\ newer' = FALSE
    /\ uncleared' = (uncleared \/ (at = "ended" /\ outcome # "missing"))
    /\ UNCHANGED <<stored, attempts, wait, files, requests, failures, gone, unready>>

Next == Request \/ Tick \/ Dispatch \/ (\E o \in Outcomes : Ends(o)) \/ Files \/ Commit \/ Crash

Spec == Init /\ [][Next]_vars

\* Time passes and a dispatch goes on to its end.
FairSpec == Spec /\ WF_vars(Tick) /\ WF_vars(Dispatch) /\ WF_vars(\E o \in Outcomes : Ends(o))
                 /\ WF_vars(Files) /\ WF_vars(Commit)

-----------------------------------------------------------------------------
(* Properties *)

Drops(reason) == at = "filed" /\ at' = "idle" /\ crashes' = crashes /\ step.drop = reason

\* runtime_wake_policy.py: a directory is given up only after being seen missing
\* DropSightings times in a row over DropAfter; "any other outcome restarts the count",
\* unless its dispatcher died before it could write that down.
MissingDropEarned == [][/\ at = "ended" /\ at' = "filed" /\ step'.drop = "target_missing"
                        /\ ~uncleared
                        => gone.seen >= DropSightings /\ gone.age >= DropAfter]_vars

\* A wake is given up for failing only after RetryCap counted failures of its own,
\* whatever crashes, newer requests and other outcomes came between.
CapDropEarned == [][Drops("retry_cap") => failures >= RetryCap]_vars

\* One preparing streak is reported as stalled at most once, crashes included.
StallReportedOnce == [][at = "ended" /\ at' = "filed" /\ step'.stalled => ~unready.reported]_vars

\* "so an explicit re-request still runs once": a request made during the last
\* dispatch survives the drop, due at once and with no attempts counted.
DropKeepsNewer == [][at = "filed" /\ at' = "idle" /\ newer /\ step.drop # "none" /\ crashes' = crashes
                     => stored' /\ attempts' = 0 /\ wait' = 0]_vars

\* A wake whose owner does not stay in preparation forever is done or dropped in the end.
EventuallyGone == (<>[](outcome # "preparing")) => []<>~stored
=============================================================================
