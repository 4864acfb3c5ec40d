------------------------------ MODULE Training ------------------------------
(***************************************************************************)
(* One learning job of one learning root: the runners that dispatch it     *)
(* (context_learning/automatic_staging.py, learning_queue.py), the trainer *)
(* child a runner starts (local_cycle.py, laya_adapter.py), the resource   *)
(* coordinator both obey (resource_coordination.py) and the durable cursor *)
(* the child leaves behind (training_cursor.py).                           *)
(*                                                                         *)
(* A lock is named by its holder; the trainer and claim locks pass to the  *)
(* child, so they stay held until runner and child are both gone.  Groups  *)
(* of the optimizer are counted; a head is the number of groups it has     *)
(* been trained on.  Retry times are one bit.  Left out: the evaluation of *)
(* a staged candidate, revoked sources and grants, telemetry.              *)
(*                                                                         *)
(* A definition marked "Variant" is not part of the model: it is a slip    *)
(* one of the properties exists to catch.                                  *)
(***************************************************************************)
EXTENDS Naturals, FiniteSets

CONSTANTS
    Runners,      \* processes that dispatch the job, each with its child
    Requests,     \* foreground inference requests
    Slots,        \* inference slots
    Groups,       \* optimizer groups of the job
    PerRun,       \* groups one child may commit
    MaxFailures,  \* failures that block the job
    None,
    MaxDemand,    \* bound: inference requests made
    MaxEvents,    \* bound: changes of machine pressure and priority work
    MaxFaults     \* bound: crashes, timeouts and unproven cleanups

ASSUME TrainingAssumption ==
    /\ Slots \in Nat \ {0} /\ Groups \in Nat \ {0} /\ PerRun \in Nat \ {0}
    /\ MaxFailures \in Nat \ {0}
    /\ MaxDemand \in Nat /\ MaxEvents \in Nat /\ MaxFaults \in Nat
    /\ None \notin Runners \cup Requests /\ Runners \cap Requests = {}
    /\ IsFiniteSet(Runners) /\ IsFiniteSet(Requests)

VARIABLES
    job, failures, due,           \* learning_jobs: status, failures, retry_at has passed
    cursor, head, artifact, done, \* resume/ and the candidate; completed.json
    claim, trainer,               \* learning-claim.lock, trainer.lock
    control, compute,             \* control.lock, compute.lock
    barrier,                      \* cleanup-reservation.json
    pc,                           \* runner
    child, goal, model, ran,      \* child: where, what for, groups in memory, groups this run
    stop,                         \* what the runner's watch has asked of the child
    request,                      \* inference request
    ready, priority,              \* the machine admits work; index work is due
    trouble,                      \* history: real failures of the trainer
    demands, events, faults

jobVars  == <<job, failures, due>>
diskVars == <<cursor, head, artifact, done>>
procVars == <<child, goal, model, ran>>
envVars  == <<ready, priority, demands, events>>
vars == <<jobVars, diskVars, claim, trainer, control, compute, barrier, pc, procVars,
          stop, request, envVars, trouble, faults>>

Working == {"poll", "asks", "granted", "compute", "saves", "advances", "records"}
Alive(r) == child[r] \in Working

TypeOK ==
    /\ job \in {"queued", "running", "deferred", "blocked", "staged"}
    /\ failures \in 0..MaxFailures /\ due \in BOOLEAN
    /\ cursor \in 0..Groups /\ head \in [0..1 -> 0..Groups]
    /\ artifact \in 0..Groups /\ done \in BOOLEAN
    /\ claim \in Runners \cup {None} /\ trainer \in Runners \cup {None}
    /\ control \in Runners \cup Requests \cup {None}
    /\ compute \in Runners \cup Requests \cup {None}
    /\ barrier \in BOOLEAN
    /\ pc \in [Runners -> {"idle", "claimed", "leased", "recovers", "watches", "stages"}]
    /\ child \in [Runners -> Working \cup {"none", "yielded", "trained", "broken"}]
    /\ goal \in [Runners -> {"load", "update", "final"}]
    /\ model \in [Runners -> 0..Groups] /\ ran \in [Runners -> 0..Groups]
    /\ stop \in [Runners -> {"no", "routine", "urgent"}]
    /\ request \in [Requests -> {"idle", "control", "slot", "compute"}]
    /\ ready \in BOOLEAN /\ priority \in BOOLEAN
    /\ trouble \in 0..MaxFaults
    /\ demands \in 0..MaxDemand /\ events \in 0..MaxEvents /\ faults \in 0..MaxFaults

Init ==
    /\ job = "queued" /\ failures = 0 /\ due = TRUE
    /\ cursor = 0 /\ head = [s \in 0..1 |-> 0] /\ artifact = 0 /\ done = FALSE
    /\ claim = None /\ trainer = None /\ control = None /\ compute = None
    /\ barrier = FALSE
    /\ pc = [r \in Runners |-> "idle"] /\ child = [r \in Runners |-> "none"]
    /\ goal = [r \in Runners |-> "load"] /\ model = [r \in Runners |-> 0]
    /\ ran = [r \in Runners |-> 0] /\ stop = [r \in Runners |-> "no"]
    /\ request = [i \in Requests |-> "idle"]
    /\ ready = TRUE /\ priority = FALSE
    /\ trouble = 0 /\ demands = 0 /\ events = 0 /\ faults = 0

-----------------------------------------------------------------------------
(* The coordinator *)

Holding == {i \in Requests : request[i] \in {"slot", "compute"}}
Demand  == Holding # {}

\* What training, step and check ask for under control.lock.
Admitted == ~barrier /\ ~Demand /\ ready

\* inference: control.lock is polled until the deadline.
RequestGates(i) ==
    /\ request[i] = "idle" /\ demands < MaxDemand /\ control = None
    /\ control' = i /\ request' = [request EXCEPT ![i] = "control"]
    /\ demands' = demands + 1
    /\ UNCHANGED <<jobVars, diskVars, claim, trainer, compute, barrier, pc, procVars,
                   stop, ready, priority, events, trouble, faults>>

\* A free slot, or learning_inference_capacity.
RequestSlot(i) ==
    /\ request[i] = "control" /\ control' = None
    /\ request' = [request EXCEPT ![i] = IF Cardinality(Holding) < Slots THEN "slot" ELSE "idle"]
    /\ UNCHANGED <<jobVars, diskVars, claim, trainer, compute, barrier, pc, procVars,
                   stop, envVars, trouble, faults>>

\* inference_compute; the barrier is looked at again once the lock is held.
RequestComputes(i) ==
    /\ request[i] = "slot" /\ compute = None
    /\ IF barrier
       THEN request' = [request EXCEPT ![i] = "idle"] /\ UNCHANGED compute
       ELSE request' = [request EXCEPT ![i] = "compute"] /\ compute' = i
    /\ UNCHANGED <<jobVars, diskVars, claim, trainer, control, barrier, pc, procVars,
                   stop, envVars, trouble, faults>>

\* Answered, or its deadline passes while it waits for compute.
RequestEnds(i) ==
    /\ request[i] \in {"slot", "compute"}
    /\ request' = [request EXCEPT ![i] = "idle"]
    /\ compute' = IF compute = i THEN None ELSE compute
    /\ UNCHANGED <<jobVars, diskVars, claim, trainer, control, barrier, pc, procVars,
                   stop, envVars, trouble, faults>>

-----------------------------------------------------------------------------
(* The runner *)

\* The runner is gone; locks its child inherited stay with the child.
Leaves(r) ==
    /\ pc' = [pc EXCEPT ![r] = "idle"]
    /\ claim' = IF claim = r /\ ~Alive(r) THEN None ELSE claim
    /\ trainer' = IF trainer = r /\ ~Alive(r) THEN None ELSE trainer

\* LearningQueue.defer: backed off; a failure counts towards the block.
Defer(failure) ==
    LET n == IF failure THEN failures + 1 ELSE failures IN
    IF job \in {"queued", "running", "deferred"}
    THEN /\ failures' = n /\ due' = FALSE
         /\ job' = IF n >= MaxFailures THEN "blocked" ELSE "deferred"
    ELSE UNCHANGED jobVars

\* Variant: a job found running belongs to somebody.
ClaimsNotRunning(r) ==
    /\ pc[r] = "idle" /\ child[r] = "none" /\ claim = None
    /\ job \in {"queued", "deferred"} /\ due /\ ready
    /\ claim' = r /\ job' = "running"
    /\ pc' = [pc EXCEPT ![r] = "claimed"]
    /\ UNCHANGED <<failures, due, diskVars, trainer, control, compute, barrier, procVars,
                   stop, request, envVars, trouble, faults>>

\* train_due_staged up to LearningQueue.claim; a busy claim answers deferred_resource.
Claims(r) ==
    /\ pc[r] = "idle" /\ child[r] = "none" /\ claim = None
    /\ job \in {"queued", "running", "deferred"} /\ due /\ ready
    /\ claim' = r /\ job' = "running"
    /\ pc' = [pc EXCEPT ![r] = "claimed"]
    /\ UNCHANGED <<failures, due, diskVars, trainer, control, compute, barrier, procVars,
                   stop, request, envVars, trouble, faults>>

\* The machine is under pressure before the claim.
PutsOff(r) ==
    /\ pc[r] = "idle" /\ child[r] = "none" /\ ~ready
    /\ job \in {"queued", "running", "deferred"} /\ due
    /\ Defer(FALSE)
    /\ UNCHANGED <<diskVars, claim, trainer, control, compute, barrier, pc, procVars,
                   stop, request, envVars, trouble, faults>>

\* Coordinator.training: trainer.lock, then the checks under control.lock.
Leases(r) ==
    /\ pc[r] = "claimed" /\ trainer = None /\ control = None /\ Admitted /\ ~priority
    /\ trainer' = r /\ pc' = [pc EXCEPT ![r] = "leased"]
    /\ UNCHANGED <<jobVars, diskVars, claim, control, compute, barrier, procVars,
                   stop, request, envVars, trouble, faults>>

LeaseRefused(r) ==
    /\ pc[r] = "claimed"
    /\ trainer # None \/ control # None \/ ~Admitted \/ priority
    /\ Defer(FALSE) /\ Leaves(r)
    /\ UNCHANGED <<diskVars, control, compute, barrier, procVars, stop, request, envVars,
                   trouble, faults>>

\* Variant: any cursor is taken for a finished one.
TrainsOnceEager(r) ==
    /\ pc[r] = "leased"
    /\ LET next == IF done THEN "stages" ELSE IF cursor > 0 THEN "recovers" ELSE "watches"
       IN /\ pc' = [pc EXCEPT ![r] = next]
          /\ IF next = "watches"
             THEN child' = [child EXCEPT ![r] = "poll"] ELSE UNCHANGED child
    /\ UNCHANGED <<jobVars, diskVars, claim, trainer, control, compute, barrier, goal, model, ran,
                   stop, request, envVars, trouble, faults>>

\* _train_once: a completion is reused, a finished cursor recovered, else a child trains.
TrainsOnce(r) ==
    /\ pc[r] = "leased"
    /\ LET next == IF done THEN "stages" ELSE IF cursor = Groups THEN "recovers" ELSE "watches"
       IN /\ pc' = [pc EXCEPT ![r] = next]
          /\ IF next = "watches"
             THEN child' = [child EXCEPT ![r] = "poll"] ELSE UNCHANGED child
    /\ UNCHANGED <<jobVars, diskVars, claim, trainer, control, compute, barrier, goal, model, ran,
                   stop, request, envVars, trouble, faults>>

\* Nothing of a child survives its process.
Fresh(r) == /\ goal' = [goal EXCEPT ![r] = "load"] /\ model' = [model EXCEPT ![r] = 0]
            /\ ran' = [ran EXCEPT ![r] = 0]

\* recover_completed by the runner: the final head is copied out, then recorded.
Recovers(r) ==
    /\ pc[r] = "recovers"
    /\ IF artifact = 0
       THEN artifact' = head[cursor % 2] /\ UNCHANGED <<done, pc>>
       ELSE done' = TRUE /\ pc' = [pc EXCEPT ![r] = "stages"] /\ UNCHANGED artifact
    /\ UNCHANGED <<jobVars, cursor, head, claim, trainer, control, compute, barrier, procVars,
                   stop, request, envVars, trouble, faults>>

\* preparation() is refused meanwhile.
RecoveryRefused(r) ==
    /\ pc[r] = "recovers" /\ ~Admitted
    /\ Defer(FALSE) /\ Leaves(r)
    /\ UNCHANGED <<diskVars, control, compute, barrier, procVars, stop, request, envVars,
                   trouble, faults>>

\* Watch.observe: index work asks for a yield; foreground demand and pressure insist.
\* A probe of the slots by another process can look like demand.
Asks(r, how) ==
    /\ pc[r] = "watches" /\ Alive(r)
    /\ IF how = "urgent" THEN Demand \/ ~ready ELSE priority
    /\ stop[r] # "urgent" /\ stop[r] # how
    /\ stop' = [stop EXCEPT ![r] = how]
    /\ UNCHANGED <<jobVars, diskVars, claim, trainer, control, compute, barrier, pc, procVars,
                   request, envVars, trouble, faults>>

\* stop_owned: the child is gone, with the locks it held.
Stopped(r) ==
    /\ child' = [child EXCEPT ![r] = "none"]
    /\ control' = IF control = r THEN None ELSE control
    /\ compute' = IF compute = r THEN None ELSE compute
    /\ stop' = [stop EXCEPT ![r] = "no"]
    /\ Fresh(r)

Ends(r) ==
    /\ pc' = [pc EXCEPT ![r] = "idle"]
    /\ claim' = IF claim = r THEN None ELSE claim
    /\ trainer' = IF trainer = r THEN None ELSE trainer

\* The grace is over, or the pressure is critical: the child is stopped where it is.
Terminates(r) ==
    /\ pc[r] = "watches" /\ Alive(r) /\ stop[r] = "urgent"
    /\ Stopped(r) /\ Defer(FALSE) /\ Ends(r)
    /\ UNCHANGED <<diskVars, barrier, request, envVars, trouble, faults>>

\* trainer_timeout.
TimesOut(r) ==
    /\ pc[r] = "watches" /\ Alive(r) /\ faults < MaxFaults
    /\ faults' = faults + 1 /\ trouble' = trouble + 1
    /\ Stopped(r) /\ Defer(TRUE) /\ Ends(r)
    /\ UNCHANGED <<diskVars, barrier, request, envVars>>

\* The child's group cannot be proved gone: cleanup_unknown, and it may live on.
CleanupFails(r) ==
    /\ pc[r] = "watches" /\ Alive(r) /\ stop[r] = "urgent" /\ faults < MaxFaults
    /\ faults' = faults + 1 /\ barrier' = TRUE
    /\ Defer(FALSE) /\ Leaves(r)
    /\ stop' = [stop EXCEPT ![r] = "no"]
    /\ UNCHANGED <<diskVars, control, compute, procVars, request, envVars, trouble>>

\* Variant: a yield counts as a failure.
SeesYieldAsFailure(r) ==
    /\ pc[r] = "watches" /\ child[r] \in {"yielded", "broken"}
    /\ Stopped(r) /\ Ends(r) /\ Defer(TRUE)
    /\ UNCHANGED <<diskVars, barrier, request, envVars, trouble, faults>>

\* learning_yield defers; any other exit of the child is a failure.
SeesEnd(r) ==
    /\ pc[r] = "watches" /\ child[r] \in {"yielded", "broken"}
    /\ Stopped(r) /\ Ends(r) /\ Defer(child[r] = "broken")
    /\ UNCHANGED <<diskVars, barrier, request, envVars, trouble, faults>>

\* Trained: record_completion once more, on the same artifact.
SeesTrained(r) ==
    /\ pc[r] = "watches" /\ child[r] = "trained"
    /\ done' = TRUE /\ pc' = [pc EXCEPT ![r] = "stages"]
    /\ Stopped(r)
    /\ UNCHANGED <<jobVars, cursor, head, artifact, claim, trainer, barrier, request, envVars,
                   trouble, faults>>

\* _train_pinned's last transaction, with LearningQueue.complete.
Stages(r) ==
    /\ pc[r] = "stages"
    /\ job' = IF job \in {"queued", "running", "deferred"} THEN "staged" ELSE job
    /\ Ends(r)
    /\ UNCHANGED <<failures, due, diskVars, control, compute, barrier, procVars, stop, request,
                   envVars, trouble, faults>>

\* An exception under the claim: claim()'s finally leaves the job deferred and due;
\* inside _train_pinned's try, the staging transaction included, it counts as a failure.
RunnerRaises(r) ==
    /\ pc[r] \in {"claimed", "leased", "recovers", "stages"} /\ faults < MaxFaults
    /\ faults' = faults + 1
    /\ \/ job' = "deferred" /\ UNCHANGED <<failures, due, trouble>>
       \/ pc[r] # "claimed" /\ Defer(TRUE) /\ trouble' = trouble + 1
    /\ Ends(r)
    /\ UNCHANGED <<diskVars, control, compute, barrier, procVars, stop, request, envVars>>

\* Variant: the child does not inherit the leases.
RunnerDiesAlone(r) ==
    /\ pc[r] # "idle" /\ faults < MaxFaults
    /\ faults' = faults + 1
    /\ Ends(r)
    /\ child' = [child EXCEPT ![r] = IF Alive(r) THEN @ ELSE "none"]
    /\ stop' = [stop EXCEPT ![r] = "no"]
    /\ UNCHANGED <<jobVars, diskVars, control, compute, barrier, goal, model, ran, request, envVars,
                   trouble>>

\* The runner dies; a running child keeps both leases.
RunnerDies(r) ==
    /\ pc[r] # "idle" /\ faults < MaxFaults
    /\ faults' = faults + 1
    /\ Leaves(r)
    /\ child' = [child EXCEPT ![r] = IF Alive(r) THEN @ ELSE "none"]
    /\ stop' = [stop EXCEPT ![r] = "no"]
    /\ UNCHANGED <<jobVars, diskVars, control, compute, barrier, goal, model, ran, request, envVars,
                   trouble>>

-----------------------------------------------------------------------------
(* The child *)

Orphan(r) == pc[r] # "watches"

\* TrainingGuard.poll: a stop byte, the end of the runner, demand, or due index work.
Unwanted(r) == stop[r] # "no" \/ Orphan(r) \/ Demand \/ priority

\* The child is gone, and an orphan's leases with it.
Exits(r, how) ==
    /\ child' = [child EXCEPT ![r] = IF Orphan(r) THEN "none" ELSE how]
    /\ control' = IF control = r THEN None ELSE control
    /\ compute' = IF compute = r THEN None ELSE compute
    /\ claim' = IF claim = r /\ Orphan(r) THEN None ELSE claim
    /\ trainer' = IF trainer = r /\ Orphan(r) THEN None ELSE trainer
    /\ Fresh(r)

childLeaves == <<jobVars, barrier, pc, stop, request, envVars, trouble, faults>>
childKeeps  == <<claim, trainer, childLeaves>>

ChildPolls(r) ==
    /\ child[r] = "poll" /\ ~Unwanted(r)
    /\ child' = [child EXCEPT ![r] = "asks"]
    /\ UNCHANGED <<diskVars, control, compute, goal, model, ran, childKeeps>>

\* At a boundary, or between two micro-batches of a group not committed yet.
ChildYields(r) ==
    /\ child[r] = "poll" \/ (child[r] = "compute" /\ goal[r] = "update")
    /\ Unwanted(r)
    /\ Exits(r, "yielded")
    /\ UNCHANGED <<diskVars, childLeaves>>

\* Variant: the checks of step are made without control.lock.
ChildAsksAlone(r) ==
    /\ child[r] = "asks" /\ Admitted
    /\ child' = [child EXCEPT ![r] = "granted"]
    /\ UNCHANGED <<control, diskVars, compute, goal, model, ran, childKeeps>>

\* Coordinator.step under control.lock ...
ChildAsks(r) ==
    /\ child[r] = "asks" /\ control = None /\ Admitted
    /\ control' = r /\ child' = [child EXCEPT ![r] = "granted"]
    /\ UNCHANGED <<diskVars, compute, goal, model, ran, childKeeps>>

ChildRefused(r) ==
    /\ \/ child[r] = "asks" /\ (control # None \/ ~Admitted)
       \/ child[r] = "granted" /\ (compute # None \/ barrier)
    /\ Exits(r, "yielded")
    /\ UNCHANGED <<diskVars, childLeaves>>

\* ... where it also takes compute.lock, if it is free.
ChildComputes(r) ==
    /\ child[r] = "granted" /\ compute = None /\ ~barrier
    /\ compute' = r /\ control' = IF control = r THEN None ELSE control
    /\ child' = [child EXCEPT ![r] = "compute"]
    /\ UNCHANGED <<diskVars, goal, model, ran, childKeeps>>

\* train: the base model, then the head the cursor names.
ChildLoads(r) ==
    /\ child[r] = "compute" /\ goal[r] = "load"
    /\ model' = [model EXCEPT ![r] = IF cursor = 0 THEN 0 ELSE head[cursor % 2]]
    /\ compute' = None
    /\ goal' = [goal EXCEPT ![r] = IF cursor = Groups THEN "final" ELSE "update"]
    /\ child' = [child EXCEPT ![r] = "poll"]
    /\ UNCHANGED <<diskVars, control, ran, childKeeps>>

\* One optimizer group, in memory.
ChildUpdates(r) ==
    /\ child[r] = "compute" /\ goal[r] = "update"
    /\ model' = [model EXCEPT ![r] = @ + 1]
    /\ child' = [child EXCEPT ![r] = "saves"]
    /\ UNCHANGED <<diskVars, control, compute, goal, ran, childKeeps>>

\* Variant: the head is saved over the committed one.
ChildSavesOver(r) ==
    /\ child[r] = "saves"
    /\ head' = [head EXCEPT ![cursor % 2] = model[r]]
    /\ child' = [child EXCEPT ![r] = "advances"]
    /\ UNCHANGED <<cursor, artifact, done, control, compute, goal, model, ran, childKeeps>>

\* UpdateCursor.commit: the new head replaces the one in the slot not in use ...
ChildSaves(r) ==
    /\ child[r] = "saves"
    /\ head' = [head EXCEPT ![(cursor + 1) % 2] = model[r]]
    /\ child' = [child EXCEPT ![r] = "advances"]
    /\ UNCHANGED <<cursor, artifact, done, control, compute, goal, model, ran, childKeeps>>

\* Variant: the loop over the groups ends one late.
LastLate == cursor = Groups

\* The group being committed is the last.
Last == cursor + 1 = Groups

\* ... and the cursor names it.  run_updates stops after PerRun groups.
ChildAdvances(r) ==
    /\ child[r] = "advances"
    /\ cursor' = cursor + 1
    /\ IF ran[r] + 1 >= PerRun /\ ~Last
       THEN Exits(r, "yielded")
       ELSE /\ child' = [child EXCEPT ![r] = "poll"] /\ compute' = None
            /\ ran' = [ran EXCEPT ![r] = @ + 1]
            /\ goal' = [goal EXCEPT ![r] = IF Last THEN "final" ELSE "update"]
            /\ UNCHANGED <<model, control, claim, trainer>>
    /\ UNCHANGED <<head, artifact, done, childLeaves>>

\* recover_completed in the child: copy out the last head, unless that was done ...
ChildCopies(r) ==
    /\ child[r] = "compute" /\ goal[r] = "final"
    /\ artifact' = IF artifact = 0 THEN head[cursor % 2] ELSE artifact
    /\ child' = [child EXCEPT ![r] = "records"]
    /\ UNCHANGED <<cursor, head, done, control, compute, goal, model, ran, childKeeps>>

\* ... and record it.
ChildRecords(r) ==
    /\ child[r] = "records"
    /\ done' = TRUE
    /\ Exits(r, "trained")
    /\ UNCHANGED <<cursor, head, artifact, childLeaves>>

\* The child crashes, between any two of its writes.
ChildDies(r) ==
    /\ Alive(r) /\ faults < MaxFaults
    /\ faults' = faults + 1 /\ trouble' = trouble + 1
    /\ Exits(r, "broken")
    /\ UNCHANGED <<jobVars, diskVars, barrier, pc, stop, request, envVars>>

-----------------------------------------------------------------------------
(* The surroundings *)

RetryFallsDue ==
    /\ ~due /\ due' = TRUE
    /\ UNCHANGED <<job, failures, diskVars, claim, trainer, control, compute, barrier, pc,
                   procVars, stop, request, envVars, trouble, faults>>

\* Pressure and index work come, a bounded number of times, and go.
Changes ==
    /\ \/ ready /\ events < MaxEvents /\ ready' = FALSE /\ events' = events + 1 /\ UNCHANGED priority
       \/ ~priority /\ events < MaxEvents /\ priority' = TRUE /\ events' = events + 1 /\ UNCHANGED ready
    /\ UNCHANGED <<jobVars, diskVars, claim, trainer, control, compute, barrier, pc, procVars,
                   stop, request, demands, trouble, faults>>

Calms ==
    /\ ~ready \/ priority
    /\ ready' = TRUE /\ priority' = FALSE
    /\ UNCHANGED <<jobVars, diskVars, claim, trainer, control, compute, barrier, pc, procVars,
                   stop, request, demands, events, trouble, faults>>

RunnerSteps(r) ==
    \/ Claims(r) \/ PutsOff(r) \/ Leases(r) \/ LeaseRefused(r) \/ TrainsOnce(r) \/ Recovers(r)
    \/ SeesEnd(r) \/ SeesTrained(r) \/ Stages(r)

ChildSteps(r) ==
    \/ ChildPolls(r) \/ ChildYields(r) \/ ChildAsks(r) \/ ChildRefused(r) \/ ChildComputes(r)
    \/ ChildLoads(r) \/ ChildUpdates(r) \/ ChildSaves(r) \/ ChildAdvances(r) \/ ChildCopies(r)
    \/ ChildRecords(r)

RequestSteps(i) == RequestSlot(i) \/ RequestComputes(i) \/ RequestEnds(i)

Next ==
    \/ \E r \in Runners :
         \/ RunnerSteps(r) \/ ChildSteps(r) \/ RecoveryRefused(r)
         \/ Asks(r, "routine") \/ Asks(r, "urgent") \/ Terminates(r) \/ TimesOut(r) \/ CleanupFails(r)
         \/ RunnerRaises(r) \/ RunnerDies(r) \/ ChildDies(r)
    \/ \E i \in Requests : RequestGates(i) \/ RequestSteps(i)
    \/ RetryFallsDue \/ Changes \/ Calms

Spec == Init /\ [][Next]_vars

\* Started processes go on, requests end, pressure and index work pass, retries fall due
\* and the wake queue (WakeRuntime) keeps dispatching the learning wake.
FairSpec ==
    /\ Spec /\ WF_vars(RetryFallsDue) /\ WF_vars(Calms)
    /\ \A r \in Runners : WF_vars(ChildSteps(r)) /\ WF_vars(RunnerSteps(r))
    /\ \A i \in Requests : WF_vars(RequestSteps(i))

-----------------------------------------------------------------------------
(* Properties *)

\* The head the cursor names holds exactly the groups the cursor counts, whenever a
\* crash, a kill or a yield falls (UpdateCursor: two head slots).
CommittedHead == cursor > 0 => head[cursor % 2] = cursor

\* At most one trainer child is alive, an orphan of a dead runner included: two would
\* write the same head slots.
OneTrainer == \A r, s \in Runners : Alive(r) /\ Alive(s) => r = s

\* No training step gets the compute lease while an inference request holds a slot:
\* a request waits for the step under way, never for another.
ForegroundFirst == [][\A r \in Runners : compute # r /\ compute' = r => ~Demand]_vars

\* What is staged is the whole training, and stays it: every group, recorded as complete.
StagedComplete == job = "staged" => done /\ artifact = Groups

\* Only failures block a job; yields, pressure, deaths of runners and
\* interrupted recoveries never count towards it.
BlockEarned == failures <= trouble

\* The job is staged or blocked in the end, unless an unproven cleanup stopped everything.
Settles == <>(job \in {"staged", "blocked"} \/ barrier)
=============================================================================
