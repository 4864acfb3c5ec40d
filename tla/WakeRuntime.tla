---------------------------- MODULE WakeRuntime -----------------------------
(***************************************************************************)
(* The processes around the durable wake queue of core/runtime_work.py:    *)
(* callers (hooks, requests, the resident service's monitor), the bounded  *)
(* worker that holds the dispatch lease, its successor, the handoff        *)
(* contender, the lease-free timer, and the learning-state mover that asks *)
(* workers to yield.  Locks are flock()s: they vanish with their holder.   *)
(*                                                                         *)
(* The queue stays below its capacity here, where pending() is one atomic  *)
(* read; WakeStore models the full queue.  Time is abstracted to one bit   *)
(* per row: due or still backed off.                                       *)
(*                                                                         *)
(* A definition marked "Variant" is not part of the model: it is a slip    *)
(* one of the properties exists to catch.                                  *)
(***************************************************************************)
EXTENDS Naturals, FiniteSets

CONSTANTS
    Wakes,        \* (kind, target) rows
    Laya,         \* the laya-sync/laya-compile ones: handed off, run in a child
    Gated,        \* learning/auto: wait for the compute admission
    Priority,     \* KINDS: the lower value runs first
    Callers,      \* processes that offer wakes or only wake a worker
    Monitor,      \* the caller whose hook_wakes are the resident service's runtime_monitor
    Workers,      \* slots for processes running "worker"/"handoff"
    Timers,       \* slots for processes running "timer"
    None, Mover, Child,
    MaxRevision,  \* bound: revisions handed out
    MaxRuns,      \* dispatches of one worker (8 in the code)
    MaxFaults,    \* bound: crashes and failed queue transactions
    MaxMoves      \* bound: attempts of the learning-state mover

ASSUME RuntimeAssumption ==
    /\ Laya \subseteq Wakes /\ Gated \subseteq Wakes
    /\ Priority \in [Wakes -> Nat]
    /\ Callers \cap Workers = {} /\ Callers \cap Timers = {} /\ Workers \cap Timers = {}
    /\ None \notin Wakes \cup Callers \cup Workers \cup Timers \cup {Mover, Child}
    /\ {Mover, Child} \cap (Workers \cup Timers) = {} /\ Mover # Child
    /\ MaxRevision \in Nat /\ MaxRuns \in Nat \ {0}
    /\ MaxFaults \in Nat /\ MaxMoves \in Nat

Procs == Callers \cup Workers \cup Timers

VARIABLES
    \* the wakes table and its revision counter (wake_meta)
    status, rev, due, revision,
    \* where each process is; asked: this caller's own request is a Laya one
    pc, asked,
    \* what a worker picked: the row and the revision it read
    claim, runs,
    \* who holds runtime-worker.lock, runtime-worker-handoff.lock, runtime-wake-timer.lock
    lease, handoff, timerLock,
    \* runtime-worker-yield.json stands; the mover; claims made since it was written
    yielding, mover, late,
    \* a Laya child whose dispatcher died: it keeps the lease open
    orphan,
    faults, moves

queueVars == <<status, rev, due, revision>>
workVars  == <<claim, runs>>
moveVars  == <<yielding, mover, moves>>
faultVars == <<orphan, faults>>
vars == <<queueVars, pc, asked, workVars, lease, handoff, timerLock, moveVars, late, faultVars>>

NoClaim == [wake |-> None, rev |-> 0]
ClaimSet == [wake : Wakes \cup {None}, rev : 0..MaxRevision]

CallerPC == {"idle", "wake", "lock", "handoff"}
WorkerPC == {"idle", "contend", "start", "loop", "claim", "run", "wake", "lock"}
TimerPC  == {"idle", "look", "sleep", "leave", "wake", "lock"}

\* A worker between taking the lease and closing it.
Draining == {"start", "loop", "claim", "run"}

TableType ==
    /\ status \in [Wakes -> {"absent", "pending", "running"}]
    /\ rev \in [Wakes -> 0..MaxRevision]
    /\ due \in [Wakes -> BOOLEAN]
    /\ revision \in 0..MaxRevision

PcType ==
    /\ pc \in [Procs -> CallerPC \cup WorkerPC \cup TimerPC]
    /\ \A c \in Callers : pc[c] \in CallerPC
    /\ \A w \in Workers : pc[w] \in WorkerPC
    /\ \A t \in Timers : pc[t] \in TimerPC

TypeOK ==
    /\ TableType /\ PcType
    /\ asked \in [Callers -> BOOLEAN]
    /\ claim \in [Workers -> ClaimSet] /\ orphan \in ClaimSet
    /\ runs \in [Workers -> 0..MaxRuns]
    /\ lease \in Workers \cup {Mover, Child, None}
    /\ handoff \in Workers \cup {Mover, None}
    /\ timerLock \in Timers \cup {None}
    /\ yielding \in BOOLEAN
    /\ mover \in {"idle", "asked", "lined", "moving"}
    /\ late \in Nat
    /\ faults \in 0..MaxFaults /\ moves \in 0..MaxMoves

Init ==
    /\ status = [x \in Wakes |-> "absent"]
    /\ rev = [x \in Wakes |-> 0]
    /\ due = [x \in Wakes |-> FALSE]
    /\ revision = 0
    /\ pc = [p \in Procs |-> "idle"]
    /\ asked = [c \in Callers |-> FALSE]
    /\ claim = [w \in Workers |-> NoClaim]
    /\ runs = [w \in Workers |-> 0]
    /\ lease = None /\ handoff = None /\ timerLock = None
    /\ yielding = FALSE /\ mover = "idle" /\ late = 0
    /\ orphan = NoClaim
    /\ faults = 0 /\ moves = 0

-----------------------------------------------------------------------------
(* The table *)

Present == {x \in Wakes : status[x] # "absent"}
DueRows == {x \in Present : due[x]}

\* next_row: the highest-priority due row; ties go to any of them.
NextRows == {x \in DueRows : \A y \in DueRows : Priority[x] <= Priority[y]}

\* offer below capacity: a new row is pending and due now; an existing one only
\* takes a newer revision, and with pull_due loses its backoff.
Offer(x, pull) ==
    /\ revision < MaxRevision
    /\ revision' = revision + 1
    /\ rev' = [rev EXCEPT ![x] = revision + 1]
    /\ status' = [status EXCEPT ![x] = IF @ = "absent" THEN "pending" ELSE @]
    /\ due' = [due EXCEPT ![x] = @ \/ pull \/ status[x] = "absent"]

\* Time passes: a backed-off row falls due.
FallsDue(x) ==
    /\ status[x] = "pending" /\ ~due[x]
    /\ due' = [due EXCEPT ![x] = TRUE]
    /\ UNCHANGED <<status, rev, revision, pc, asked, workVars, lease, handoff, timerLock, moveVars, late, faultVars>>

-----------------------------------------------------------------------------
(* _wake: any process that may start a worker *)

\* Where _wake returns to: a caller whose Laya request met a busy lease goes on
\* to _handoff, a timer that still holds its lock back to its loop.
After(p, busy) ==
    IF p \in Callers /\ busy /\ asked[p] THEN "handoff"
    ELSE IF p = timerLock THEN "sleep" ELSE "idle"

WakeFindsNothing(p) ==
    /\ pc[p] = "wake" /\ Present = {}
    /\ pc' = [pc EXCEPT ![p] = After(p, FALSE)]
    /\ UNCHANGED <<queueVars, asked, workVars, lease, handoff, timerLock, moveVars, late, faultVars>>

\* Only backed-off rows, or a mover asks for the lease: _arm_timer, unless one runs.
WakeArmsTimer(p) ==
    /\ pc[p] = "wake" /\ Present # {} /\ (DueRows = {} \/ yielding)
    /\ IF timerLock # None
       THEN pc' = [pc EXCEPT ![p] = After(p, FALSE)] /\ UNCHANGED timerLock
       ELSE \E t \in Timers :
              /\ pc[t] = "idle" \/ t = p
              /\ timerLock' = t
              /\ pc' = [pc EXCEPT ![p] = "idle", ![t] = "look"]
    /\ UNCHANGED <<queueVars, asked, workVars, lease, handoff, moveVars, late, faultVars>>

WakeSeesDue(p) ==
    /\ pc[p] = "wake" /\ DueRows # {} /\ ~yielding
    /\ pc' = [pc EXCEPT ![p] = "lock"]
    /\ UNCHANGED <<queueVars, asked, workVars, lease, handoff, timerLock, moveVars, late, faultVars>>

LeaseBusy(p) ==
    /\ pc[p] = "lock" /\ lease # None
    /\ pc' = [pc EXCEPT ![p] = After(p, TRUE)]
    /\ UNCHANGED <<queueVars, asked, workVars, lease, handoff, timerLock, moveVars, late, faultVars>>

\* The lock is taken and passed to the spawned worker in one description.  A
\* worker slot that is itself waking exits at once and may be the successor's.
LeaseSpawns(p) ==
    /\ pc[p] = "lock" /\ lease = None
    /\ \E w \in Workers :
         /\ pc[w] = "idle" \/ w = p
         /\ lease' = w
         /\ pc' = [pc EXCEPT ![p] = After(p, FALSE), ![w] = "start"]
    /\ UNCHANGED <<queueVars, asked, workVars, handoff, timerLock, moveVars, late, faultVars>>

WakeStep(p) == \/ WakeFindsNothing(p) \/ WakeArmsTimer(p) \/ WakeSeesDue(p)
               \/ LeaseBusy(p) \/ LeaseSpawns(p)

-----------------------------------------------------------------------------
(* Callers *)

\* request: the row is committed, then the caller goes on to _wake.
Request(c, x, pull) ==
    /\ pc[c] = "idle"
    /\ Offer(x, pull)
    /\ pc' = [pc EXCEPT ![c] = "wake"]
    /\ asked' = [asked EXCEPT ![c] = x \in Laya]
    /\ UNCHANGED <<workVars, lease, handoff, timerLock, moveVars, late, faultVars>>

\* A request made by the running handler (QMD_RUNTIME_DISPATCH=1): the row only.
RequestInside(w, x, pull) ==
    /\ pc[w] = "run"
    /\ Offer(x, pull)
    /\ UNCHANGED <<pc, asked, workVars, lease, handoff, timerLock, moveVars, late, faultVars>>

\* hook_wake, and a round of runtime_monitor.run that found a due row.
HookWake(c) ==
    /\ pc[c] = "idle"
    /\ c = Monitor => DueRows # {}
    /\ pc' = [pc EXCEPT ![c] = "wake"]
    /\ asked' = [asked EXCEPT ![c] = FALSE]
    /\ UNCHANGED <<queueVars, workVars, lease, handoff, timerLock, moveVars, late, faultVars>>

\* _handoff: one contender, none while a mover asks.
Handoff(c) ==
    /\ pc[c] = "handoff"
    /\ IF yielding \/ handoff # None
       THEN pc' = [pc EXCEPT ![c] = "idle"] /\ UNCHANGED handoff
       ELSE \E w \in Workers :
              /\ pc[w] = "idle"
              /\ handoff' = w
              /\ pc' = [pc EXCEPT ![c] = "idle", ![w] = "contend"]
    /\ UNCHANGED <<queueVars, asked, workVars, lease, timerLock, moveVars, late, faultVars>>

CallerStep(c) == WakeStep(c) \/ Handoff(c)

-----------------------------------------------------------------------------
(* Workers: _handoff_worker, drain, _drain_and_rewake *)

\* Variant: the contender keeps the handoff lock while it drains.
ContendKeepsHandoff(w) ==
    /\ pc[w] = "contend" /\ lease = None
    /\ lease' = w
    /\ pc' = [pc EXCEPT ![w] = "start"]
    /\ UNCHANGED <<queueVars, asked, workVars, handoff, timerLock, moveVars, late, faultVars>>

\* The contender gets the lease, drops the handoff lock and drains.
ContendTakes(w) ==
    /\ pc[w] = "contend" /\ lease = None
    /\ lease' = w /\ handoff' = None
    /\ pc' = [pc EXCEPT ![w] = "start"]
    /\ UNCHANGED <<queueVars, asked, workVars, timerLock, moveVars, late, faultVars>>

\* HANDOFF_SECONDS passed behind a holder: it leaves without waking anybody.
ContendExpires(w) ==
    /\ pc[w] = "contend" /\ lease # None
    /\ handoff' = None
    /\ pc' = [pc EXCEPT ![w] = "idle"]
    /\ UNCHANGED <<queueVars, asked, workVars, lease, timerLock, moveVars, late, faultVars>>

\* drain begins: what a dead worker left running is pending again.
DrainResets(w) ==
    /\ pc[w] = "start"
    /\ status' = [x \in Wakes |-> IF status[x] = "running" THEN "pending" ELSE status[x]]
    /\ pc' = [pc EXCEPT ![w] = "loop"]
    /\ UNCHANGED <<rev, due, revision, asked, workVars, lease, handoff, timerLock,
                   moveVars, late, faultVars>>

\* drain returns and closes the lease (nothing left, nothing due, a mover asks,
\* its budget is spent, or the admission refused until the deadline); the
\* process goes on to wake().
DrainStops(w) ==
    /\ pc[w] = "loop"
    /\ \/ DueRows = {} \/ yielding \/ runs[w] > 0
       \/ NextRows \cap Gated # {}
    /\ lease' = None
    /\ runs' = [runs EXCEPT ![w] = 0]
    /\ pc' = [pc EXCEPT ![w] = "wake"]
    /\ UNCHANGED <<queueVars, asked, claim, handoff, timerLock, moveVars, late, faultVars>>

\* Variant: the budget compared with <= instead of <.
PicksOneMore(w, x) ==
    /\ pc[w] = "loop" /\ runs[w] <= MaxRuns
    /\ ~yielding /\ x \in NextRows
    /\ claim' = [claim EXCEPT ![w] = [wake |-> x, rev |-> rev[x]]]
    /\ pc' = [pc EXCEPT ![w] = "claim"]
    /\ UNCHANGED <<queueVars, asked, runs, lease, handoff, timerLock, moveVars, late, faultVars>>

\* Variant: a draining worker does not look for a yield request.
PicksAnyway(w, x) ==
    /\ pc[w] = "loop" /\ runs[w] < MaxRuns
    /\ x \in NextRows
    /\ claim' = [claim EXCEPT ![w] = [wake |-> x, rev |-> rev[x]]]
    /\ pc' = [pc EXCEPT ![w] = "claim"]
    /\ UNCHANGED <<queueVars, asked, runs, lease, handoff, timerLock, moveVars, late, faultVars>>

\* pending, yield_requested and next_row: the row is read, not yet claimed.
Picks(w, x) ==
    /\ pc[w] = "loop" /\ runs[w] < MaxRuns
    /\ ~yielding /\ x \in NextRows
    /\ claim' = [claim EXCEPT ![w] = [wake |-> x, rev |-> rev[x]]]
    /\ pc' = [pc EXCEPT ![w] = "claim"]
    /\ UNCHANGED <<queueVars, asked, runs, lease, handoff, timerLock, moveVars, late, faultVars>>

\* The claiming UPDATE matches only the revision that was read.
Claim(w) ==
    LET x == claim[w].wake
        won == status[x] = "pending" /\ rev[x] = claim[w].rev
    IN /\ pc[w] = "claim"
       /\ IF won
          THEN /\ status' = [status EXCEPT ![x] = "running"]
               /\ pc' = [pc EXCEPT ![w] = "run"]
               /\ late' = IF yielding THEN late + 1 ELSE late
               /\ UNCHANGED claim
          ELSE /\ claim' = [claim EXCEPT ![w] = NoClaim]
               /\ pc' = [pc EXCEPT ![w] = "loop"]
               /\ UNCHANGED <<status, late>>
       /\ UNCHANGED <<rev, due, revision, asked, runs, lease, handoff, timerLock, moveVars, faultVars>>

\* The end of one dispatch, its settle transaction committed.
Settled(w) ==
    /\ pc[w] = "run"
    /\ runs' = [runs EXCEPT ![w] = @ + 1]
    /\ claim' = [claim EXCEPT ![w] = NoClaim]
    /\ pc' = [pc EXCEPT ![w] = "loop"]

\* Variant: the acknowledgement deletes the row whatever its revision.
AckUnversioned(w) ==
    /\ Settled(w)
    /\ status' = [status EXCEPT ![claim[w].wake] = "absent"]
    /\ due' = [due EXCEPT ![claim[w].wake] = FALSE]
    /\ rev' = [rev EXCEPT ![claim[w].wake] = 0]
    /\ UNCHANGED <<revision, asked, lease, handoff, timerLock, moveVars, late, faultVars>>

\* Served, or dropped: only the claimed revision is deleted, a newer one is due again.
Ack(w) ==
    LET x == claim[w].wake
        served == status[x] = "absent" \/ rev[x] = claim[w].rev
    IN /\ Settled(w)
       /\ status' = [status EXCEPT ![x] = IF served THEN "absent" ELSE "pending"]
       /\ due' = [due EXCEPT ![x] = ~served]
       /\ rev' = IF served THEN [rev EXCEPT ![x] = 0] ELSE rev
       /\ UNCHANGED <<revision, asked, lease, handoff, timerLock, moveVars, late, faultVars>>

\* Variant: a failed row is tried again at once.
RetryAtOnce(w) ==
    LET x == claim[w].wake
    IN /\ Settled(w)
       /\ status' = [status EXCEPT ![x] = IF @ = "absent" THEN @ ELSE "pending"]
       /\ UNCHANGED <<due, rev, revision, asked, lease, handoff, timerLock, moveVars, late, faultVars>>

\* Not done: the row, whatever its revision by now, is backed off.
Retry(w) ==
    LET x == claim[w].wake
    IN /\ Settled(w)
       /\ status' = [status EXCEPT ![x] = IF @ = "absent" THEN @ ELSE "pending"]
       /\ due' = [due EXCEPT ![x] = FALSE]
       /\ UNCHANGED <<rev, revision, asked, lease, handoff, timerLock, moveVars, late, faultVars>>

\* A statement of drain meets a busy database:
\* drain raises, its finally closes the lease, _drain_and_rewake still calls
\* wake(); a row it was dispatching stays running.
DrainFails(w) ==
    /\ pc[w] \in Draining /\ faults < MaxFaults
    /\ faults' = faults + 1
    /\ lease' = None
    /\ claim' = [claim EXCEPT ![w] = NoClaim]
    /\ runs' = [runs EXCEPT ![w] = 0]
    /\ pc' = [pc EXCEPT ![w] = "wake"]
    /\ UNCHANGED <<queueVars, asked, handoff, timerLock, moveVars, late, orphan>>

WorkerStep(w) == \/ WakeStep(w)
                 \/ ContendTakes(w) \/ DrainResets(w) \/ DrainStops(w)
                 \/ \E x \in Wakes : Picks(w, x)
                 \/ Claim(w) \/ Ack(w) \/ Retry(w)

-----------------------------------------------------------------------------
(* The timer *)

TimerLooks(t) ==
    /\ pc[t] = "look"
    /\ pc' = [pc EXCEPT ![t] = IF Present = {} THEN "leave"
                               ELSE IF DueRows # {} THEN "wake" ELSE "sleep"]
    /\ UNCHANGED <<queueVars, asked, workVars, lease, handoff, timerLock, moveVars, late, faultVars>>

\* The chunk is slept, or TIMER_MAX_SECONDS passed.
TimerSleeps(t) ==
    /\ pc[t] = "sleep"
    /\ \E next \in {"look", "leave"} : pc' = [pc EXCEPT ![t] = next]
    /\ UNCHANGED <<queueVars, asked, workVars, lease, handoff, timerLock, moveVars, late, faultVars>>

\* Variant: the timer exits without _after_timer.
TimerJustLeaves(t) ==
    /\ pc[t] = "leave"
    /\ timerLock' = None
    /\ pc' = [pc EXCEPT ![t] = "idle"]
    /\ UNCHANGED <<queueVars, asked, workVars, lease, handoff, moveVars, late, faultVars>>

\* The lock goes first, then _after_timer looks at the queue once more.
TimerReleases(t) ==
    /\ pc[t] = "leave"
    /\ timerLock' = None
    /\ pc' = [pc EXCEPT ![t] = "wake"]
    /\ UNCHANGED <<queueVars, asked, workVars, lease, handoff, moveVars, late, faultVars>>

TimerStep(t) == WakeStep(t) \/ TimerLooks(t) \/ TimerSleeps(t) \/ TimerReleases(t)

-----------------------------------------------------------------------------
(* The learning-state mover: _quiesce_lanes *)

MoverAsks ==
    /\ mover = "idle" /\ moves < MaxMoves
    /\ mover' = "asked" /\ yielding' = TRUE /\ late' = 0 /\ moves' = moves + 1
    /\ UNCHANGED <<queueVars, pc, asked, workVars, lease, handoff, timerLock, faultVars>>

\* First the handoff lock, so that no second worker lines up ...
MoverTakesHandoff ==
    /\ mover = "asked" /\ handoff = None
    /\ mover' = "lined" /\ handoff' = Mover
    /\ UNCHANGED <<queueVars, pc, asked, workVars, lease, timerLock, yielding, moves, late, faultVars>>

\* Variant: the move begins with the handoff lock alone.
MoverSkipsLease ==
    /\ mover = "lined"
    /\ mover' = "moving" /\ yielding' = FALSE /\ late' = 0
    /\ UNCHANGED <<queueVars, pc, asked, workVars, lease, handoff, timerLock, moves, faultVars>>

\* ... then the lease itself, which ends the request.
MoverTakesLease ==
    /\ mover = "lined" /\ lease = None
    /\ mover' = "moving" /\ lease' = Mover /\ yielding' = FALSE /\ late' = 0
    /\ UNCHANGED <<queueVars, pc, asked, workVars, handoff, timerLock, moves, faultVars>>

\* The locks a mover holds, closed.
MoverCloses ==
    /\ mover # "idle" /\ mover' = "idle"
    /\ handoff' = IF handoff = Mover THEN None ELSE handoff
    /\ lease' = IF lease = Mover THEN None ELSE lease
    /\ UNCHANGED <<queueVars, pc, asked, workVars, timerLock, moves, orphan>>

MoverGivesUp ==
    /\ mover \in {"asked", "lined"} /\ MoverCloses
    /\ yielding' = FALSE /\ late' = 0 /\ UNCHANGED faults

MoverDone == mover = "moving" /\ MoverCloses /\ UNCHANGED <<yielding, late, faults>>

\* A request older than its deadline is ignored.
YieldExpires ==
    /\ yielding /\ yielding' = FALSE /\ late' = 0
    /\ UNCHANGED <<queueVars, pc, asked, workVars, lease, handoff, timerLock, mover, moves, faultVars>>

MoverStep == MoverAsks \/ MoverTakesHandoff \/ MoverTakesLease \/ MoverGivesUp \/ MoverDone

-----------------------------------------------------------------------------
(* Faults: the kernel drops a dead process's locks, the table stays *)

Faulty == faults < MaxFaults /\ faults' = faults + 1

\* Variant: the child does not inherit the lease.
WorkerDiesAlone(w) ==
    /\ Faulty /\ pc[w] # "idle"
    /\ orphan' = IF pc[w] = "run" /\ claim[w].wake \in Laya THEN claim[w] ELSE orphan
    /\ lease' = IF lease = w THEN None ELSE lease
    /\ handoff' = IF handoff = w THEN None ELSE handoff
    /\ claim' = [claim EXCEPT ![w] = NoClaim]
    /\ runs' = [runs EXCEPT ![w] = 0]
    /\ pc' = [pc EXCEPT ![w] = "idle"]
    /\ UNCHANGED <<queueVars, asked, timerLock, moveVars, late>>

\* A Laya child inherited the lease and outlives its dispatcher; any other
\* handler dies with it.  (A contender whose alarm fires just after the kernel
\* gave it the lease leaves the same way: at "start", without waking anybody.)
WorkerDies(w) ==
    /\ Faulty /\ pc[w] # "idle"
    /\ LET outlives == pc[w] = "run" /\ claim[w].wake \in Laya
       IN /\ orphan' = IF outlives THEN claim[w] ELSE orphan
          /\ lease' = IF lease # w THEN lease ELSE IF outlives THEN Child ELSE None
    /\ handoff' = IF handoff = w THEN None ELSE handoff
    /\ claim' = [claim EXCEPT ![w] = NoClaim]
    /\ runs' = [runs EXCEPT ![w] = 0]
    /\ pc' = [pc EXCEPT ![w] = "idle"]
    /\ UNCHANGED <<queueVars, asked, timerLock, moveVars, late>>

\* The orphaned child ends; nobody settles its row.
OrphanEnds ==
    /\ lease = Child /\ lease' = None /\ orphan' = NoClaim
    /\ UNCHANGED <<queueVars, pc, asked, workVars, handoff, timerLock, moveVars, late, faults>>

CallerDies(c) ==
    /\ Faulty /\ pc[c] # "idle"
    /\ pc' = [pc EXCEPT ![c] = "idle"]
    /\ UNCHANGED <<queueVars, asked, workVars, lease, handoff, timerLock, moveVars, late, orphan>>

TimerDies(t) ==
    /\ Faulty /\ pc[t] # "idle"
    /\ pc' = [pc EXCEPT ![t] = "idle"]
    /\ timerLock' = IF timerLock = t THEN None ELSE timerLock
    /\ UNCHANGED <<queueVars, asked, workVars, lease, handoff, moveVars, late, orphan>>

\* A dead mover leaves its request behind until it expires.
MoverDies ==
    /\ Faulty /\ MoverCloses /\ UNCHANGED <<yielding, late>>

Fault == \/ \E w \in Workers : WorkerDies(w)
         \/ \E c \in Callers : CallerDies(c)
         \/ \E t \in Timers : TimerDies(t)
         \/ MoverDies

-----------------------------------------------------------------------------
(* Specifications *)

\* Nobody dies and no mover comes.
CalmNext ==
    \/ \E x \in Wakes : FallsDue(x)
    \/ \E c \in Callers :
         \/ \E x \in Wakes, pull \in BOOLEAN : Request(c, x, pull)
         \/ HookWake(c) \/ CallerStep(c)
    \/ \E w \in Workers :
         \/ \E x \in Wakes, pull \in BOOLEAN : RequestInside(w, x, pull)
         \/ WorkerStep(w) \/ ContendExpires(w) \/ DrainFails(w)
    \/ \E t \in Timers : TimerStep(t)

Next == CalmNext \/ MoverStep \/ YieldExpires \/ Fault \/ OrphanEnds

CalmSpec == Init /\ [][CalmNext]_vars
Spec     == Init /\ [][Next]_vars

\* Every process keeps running, every handler and every backoff ends.  Strong
\* for the pick of a row: a row that keeps failing is backed off for seconds,
\* which is when a lower one gets its turn.
Progress ==
    /\ \A x \in Wakes : WF_vars(FallsDue(x)) /\ SF_vars(\E w \in Workers : Picks(w, x))
    /\ \A c \in Callers : WF_vars(CallerStep(c))
    /\ \A w \in Workers : WF_vars(WorkerStep(w))
    /\ \A t \in Timers : WF_vars(TimerStep(t))

\* With crashes the monitor's rounds are what restarts a worker; a blocked
\* flock waiter is served; a request file expires.  A mover's deadline is NOT
\* fair: nothing may depend on it.
FairSpec ==
    /\ Spec /\ Progress
    /\ WF_vars(HookWake(Monitor)) /\ WF_vars(OrphanEnds \/ YieldExpires \/ MoverDone)
    /\ SF_vars(\E w \in Workers : ContendTakes(w))
    /\ SF_vars(MoverTakesHandoff \/ MoverTakesLease)

-----------------------------------------------------------------------------
(* Properties *)

\* Two workers never drain at once, nor one beside the child of a dead
\* dispatcher (runtime_work.py:230-233: the child keeps the lease).
SingleDispatch ==
    /\ \A v, w \in Workers : pc[v] \in Draining /\ pc[w] \in Draining => v = w
    /\ orphan # NoClaim => \A w \in Workers : pc[w] \notin Draining

\* While the mover relocates the directories nothing drains or dispatches.
MoverAlone ==
    mover = "moving" => orphan = NoClaim /\ \A w \in Workers : pc[w] \notin Draining

\* Somebody is on the way to look at the queue again.
Awake(p) == pc[p] \in Draining \cup {"wake", "lock", "look", "sleep", "leave"}

\* Without crashes or movers no row, due or backed off, is ever left without a
\* process that will come back to it (_drain_and_rewake, _arm_timer, _after_timer).
Attended == Present # {} => \E p \in Procs : Awake(p)

\* The same of any run, up to its first crash, error or mover.
AttendedUndisturbed == faults = 0 /\ moves = 0 => Attended

\* A yield request overtakes at most one claim: the one whose worker had
\* already looked for the request (drain reads it before it claims, though
\* docs/runtime-resource-coordination.md says no further wake is claimed).
AtMostOneLateClaim == late <= 1

\* A pending row is dispatched in the end.
EventuallyDispatched == \A x \in Wakes : status[x] = "pending" ~> status[x] = "running"

\* The mover gets both locks without anybody's deadline having to run out.
MoverServed == mover = "asked" ~> mover \in {"moving", "idle"}

\* The claims some handler is working on.
RunningClaims == {claim[w] : w \in {v \in Workers : pc[v] = "run"}} \cup ({orphan} \ {NoClaim})

\* The queue and its processes implement WakeContract: a row is owed unless a
\* running handler holds exactly the revision it has now.
Serving == IF RunningClaims = {} THEN None ELSE (CHOOSE k \in RunningClaims : TRUE).wake
Owed == {x \in Present : [wake |-> x, rev |-> rev[x]] \notin RunningClaims}

Contract == INSTANCE WakeContract WITH owed <- Owed, serving <- Serving
ContractSpec == Contract!Spec
=============================================================================
