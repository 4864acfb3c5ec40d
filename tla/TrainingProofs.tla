--------------------------- MODULE TrainingProofs ---------------------------
(***************************************************************************)
(* What Training promises of one learning job, for every number of          *)
(* runners, requests, slots and groups and every bound.  Inv is inductive:  *)
(* the cursor is only safe because one trainer lives at a time, and that    *)
(* because a child keeps the leases of a runner that died.                  *)
(***************************************************************************)
EXTENDS Training, TLAPS

\* A runner at work and a child alive hold the leases; a child outlives only a runner
\* that watched it.
Holds ==
    \A r \in Runners :
      /\ pc[r] # "idle" \/ Alive(r) => claim = r
      /\ pc[r] \in {"leased", "recovers", "watches", "stages"} \/ Alive(r) => trainer = r
      /\ pc[r] # "idle" => job \in {"running", "deferred"}
      /\ pc[r] = "watches" => child[r] # "none"
      /\ pc[r] # "watches" => child[r] \in Working \cup {"none"}
      /\ pc[r] \notin {"idle", "watches"} => child[r] = "none"

\* What a child has in memory is what the cursor counts, and one group more while it
\* commits one.
Learnt ==
    \A r \in Runners :
      /\ ~Alive(r) => goal[r] = "load"
      /\ goal[r] = "load" => /\ model[r] = 0 /\ ran[r] = 0
                             /\ child[r] \notin {"saves", "advances", "records"}
      /\ goal[r] = "update" =>
           /\ cursor < Groups /\ ran[r] <= cursor /\ child[r] # "records"
           /\ model[r] = IF child[r] \in {"saves", "advances"} THEN cursor + 1 ELSE cursor
      /\ goal[r] = "final" => cursor = Groups /\ child[r] \notin {"saves", "advances"}
      /\ child[r] = "advances" => head[(cursor + 1) % 2] = cursor + 1
      /\ child[r] \in {"records", "trained"} => artifact = Groups
      /\ pc[r] = "recovers" => cursor = Groups
      /\ pc[r] = "stages" => done

\* What is on disk.
Kept ==
    /\ CommittedHead
    /\ artifact # 0 => artifact = Groups /\ cursor = Groups
    /\ done => artifact = Groups
    /\ StagedComplete

\* Every counted failure happened; a broken child's is not counted yet.
Counts ==
    /\ BlockEarned
    /\ \A r \in Runners : child[r] = "broken" => failures < trouble
    /\ trouble <= faults
    /\ job \in {"queued", "running", "deferred"} => failures < MaxFailures

\* A child that was granted a step still holds control.lock, so no request got a slot since.
Gated ==
    /\ \A i \in Requests : request[i] = "control" => control = i
    /\ \A r \in Runners : child[r] = "granted" => control = r /\ ~Demand

Inv == TypeOK /\ Holds /\ Learnt /\ Kept /\ Counts /\ Gated

-----------------------------------------------------------------------------
(* Lemmas *)

\* The two head slots are distinct: the slot in use is never the one written.
LEMMA Parity == \A c \in Nat : c % 2 \in 0..1 /\ (c + 1) % 2 \in 0..1 /\ (c + 1) % 2 # c % 2
  BY SMT

\* The inductive invariant holds at the start.
LEMMA Initially == Init => Inv
<1> SUFFICES ASSUME Init PROVE Inv
  OBVIOUS
<1> USE TrainingAssumption DEF Init
<1>1. TypeOK
  <2>1. /\ 0 \in 0..Groups /\ 0 \in 0..MaxFailures /\ 0 \in 0..MaxFaults
        /\ 0 \in 0..MaxDemand /\ 0 \in 0..MaxEvents
    OBVIOUS
  <2>2. head \in [0..1 -> 0..Groups]
    BY <2>1
  <2>3. QED
    BY <2>1, <2>2, Zenon DEF TypeOK, Working
<1>2. Holds /\ Learnt
  BY DEF Holds, Learnt, Alive, Working
<1>3. Kept /\ Counts
  BY DEF Kept, Counts, CommittedHead, StagedComplete, BlockEarned
<1>4. Gated
  BY DEF Gated
<1>5. QED
  BY <1>1, <1>2, <1>3, <1>4 DEF Inv

\* What LearningQueue.defer leaves of a job that is not settled.
Outcome(failure) ==
    /\ due' \in BOOLEAN /\ failures' \in 0..MaxFailures
    /\ failures' = IF failure THEN failures + 1 ELSE failures
    /\ job' \in {"deferred", "blocked"}
    /\ job' = "blocked" => failure
    /\ job' = "deferred" => failures' < MaxFailures

\* Defer on such a job backs it off or, at the last failure, blocks it.
LEMMA Deferred ==
    ASSUME TypeOK, Counts, job \in {"queued", "running", "deferred"},
           NEW failure \in BOOLEAN, Defer(failure)
    PROVE  Outcome(failure)
<1> DEFINE n == IF failure THEN failures + 1 ELSE failures
<1>1. /\ failures' = n /\ due' = FALSE
      /\ job' = IF n >= MaxFailures THEN "blocked" ELSE "deferred"
  BY Zenon DEF Defer
<1>2. failures \in Nat /\ failures < MaxFailures /\ MaxFailures \in Nat
  BY TrainingAssumption DEF TypeOK, Counts
<1>3. n \in 0..MaxFailures /\ (n >= MaxFailures => failure)
  BY <1>2
<1>4. due' \in BOOLEAN
  BY <1>1
<1> HIDE DEF n
<1>5. /\ job' \in {"deferred", "blocked"} /\ (job' = "blocked" => failure)
      /\ job' = "deferred" => failures' < MaxFailures
  BY <1>1, <1>2, <1>3
<1>6. failures' = (IF failure THEN failures + 1 ELSE failures) /\ failures' \in 0..MaxFailures
  BY <1>1, <1>3 DEF n
<1>7. QED
  BY <1>4, <1>5, <1>6 DEF Outcome

\* Every step of every process keeps the inductive invariant.
LEMMA Step == Inv /\ [Next]_vars => Inv'
<1> SUFFICES ASSUME Inv, [Next]_vars PROVE Inv'
  OBVIOUS
<1> USE TrainingAssumption DEF Inv, TypeOK, Holds, Learnt, Kept, Counts, Gated, CommittedHead,
        StagedComplete, BlockEarned, Alive, Working, Demand, Holding
<1>1. ASSUME NEW r \in Runners, Claims(r) PROVE Inv'
  BY <1>1 DEF Claims, diskVars, procVars, envVars
<1>2. ASSUME NEW r \in Runners, PutsOff(r) PROVE Inv'
  <2>1. Outcome(FALSE)
    BY <1>2, Deferred DEF PutsOff, diskVars, procVars, envVars, jobVars
  <2>2. TypeOK'
    BY <1>2, <2>1 DEF Outcome, PutsOff, diskVars, procVars, envVars, jobVars
  <2>3. Holds' /\ Learnt' /\ Kept' /\ Counts' /\ Gated'
    BY <1>2, <2>1 DEF Outcome, PutsOff, diskVars, procVars, envVars, jobVars
  <2>4. QED
    BY <2>2, <2>3
<1>3. ASSUME NEW r \in Runners, Leases(r) PROVE Inv'
  BY <1>3 DEF Leases, Admitted, jobVars, diskVars, procVars, envVars
<1>4. ASSUME NEW r \in Runners, LeaseRefused(r) PROVE Inv'
  <2>1. Outcome(FALSE)
    BY <1>4, Deferred DEF LeaseRefused, Leaves, Admitted, diskVars, procVars, envVars,
       jobVars
  <2>2. TypeOK'
    BY <1>4, <2>1 DEF Outcome, LeaseRefused, Leaves, Admitted, diskVars, procVars,
       envVars, jobVars
  <2>3. Holds' /\ Learnt' /\ Kept' /\ Counts' /\ Gated'
    BY <1>4, <2>1 DEF Outcome, LeaseRefused, Leaves, Admitted, diskVars, procVars,
       envVars, jobVars
  <2>4. QED
    BY <2>2, <2>3
<1>5. ASSUME NEW r \in Runners, TrainsOnce(r) PROVE Inv'
  BY <1>5 DEF TrainsOnce, jobVars, diskVars, envVars
<1>6. ASSUME NEW r \in Runners, Recovers(r) PROVE Inv'
  <2>1. TypeOK'
    <3>1. artifact' \in 0..Groups
      BY <1>6, Parity DEF Recovers
    <3>2. done' \in BOOLEAN
      BY <1>6, Zenon DEF Recovers
    <3>3. QED
      BY <1>6, <3>1, <3>2 DEF Recovers, jobVars, procVars, envVars
  <2>2. Holds'
    BY <1>6, Parity DEF Recovers, jobVars, procVars, envVars
  <2>3. Learnt'
    BY <1>6, Parity DEF Recovers, jobVars, procVars, envVars
  <2>4. Kept'
    BY <1>6, Parity DEF Recovers, jobVars, procVars, envVars
  <2>5. Counts'
    BY <1>6, Parity DEF Recovers, jobVars, procVars, envVars
  <2>6. Gated'
    BY <1>6, Parity DEF Recovers, jobVars, procVars, envVars
  <2>7. QED
    BY <2>1, <2>2, <2>3, <2>4, <2>5, <2>6
<1>7. ASSUME NEW r \in Runners, SeesEnd(r) PROVE Inv'
  <2>1. Outcome(child[r] = "broken")
    BY <1>7, Deferred DEF SeesEnd, Stopped, Ends, diskVars, envVars, Fresh, jobVars
  <2>2. TypeOK'
    BY <1>7, <2>1 DEF Outcome, SeesEnd, Stopped, Ends, diskVars, envVars, Fresh, jobVars
  <2>3. Holds' /\ Learnt' /\ Kept' /\ Counts' /\ Gated'
    BY <1>7, <2>1 DEF Outcome, SeesEnd, Stopped, Ends, diskVars, envVars, Fresh, jobVars
  <2>4. QED
    BY <2>2, <2>3
<1>8. ASSUME NEW r \in Runners, SeesTrained(r) PROVE Inv'
  BY <1>8 DEF SeesTrained, Stopped, jobVars, envVars, Fresh
<1>9. ASSUME NEW r \in Runners, Stages(r) PROVE Inv'
  BY <1>9 DEF Stages, Ends, diskVars, procVars, envVars
<1>10. ASSUME NEW r \in Runners, ChildPolls(r) PROVE Inv'
  BY <1>10 DEF ChildPolls, Unwanted, childKeeps, diskVars, childLeaves, jobVars, envVars,
     Orphan
<1>11. ASSUME NEW r \in Runners, ChildYields(r) PROVE Inv'
  BY <1>11 DEF ChildYields, Exits, Unwanted, childLeaves, diskVars, jobVars, envVars,
     Orphan, Fresh
<1>12. ASSUME NEW r \in Runners, ChildAsks(r) PROVE Inv'
  BY <1>12 DEF ChildAsks, Admitted, childKeeps, diskVars, childLeaves, jobVars, envVars
<1>13. ASSUME NEW r \in Runners, ChildRefused(r) PROVE Inv'
  BY <1>13 DEF ChildRefused, Exits, Admitted, childLeaves, diskVars, jobVars, envVars,
     Fresh, Orphan
<1>14. ASSUME NEW r \in Runners, ChildComputes(r) PROVE Inv'
  BY <1>14 DEF ChildComputes, childKeeps, diskVars, childLeaves, jobVars, envVars
<1>15. ASSUME NEW r \in Runners, ChildLoads(r) PROVE Inv'
  BY <1>15, Parity DEF ChildLoads, childKeeps, diskVars, childLeaves, jobVars, envVars
<1>16. ASSUME NEW r \in Runners, ChildUpdates(r) PROVE Inv'
  BY <1>16 DEF ChildUpdates, childKeeps, diskVars, childLeaves, jobVars, envVars
<1>17. ASSUME NEW r \in Runners, ChildSaves(r) PROVE Inv'
  BY <1>17, Parity DEF ChildSaves, childKeeps, childLeaves, jobVars, envVars
<1>18. ASSUME NEW r \in Runners, ChildAdvances(r) PROVE Inv'
  BY <1>18, Parity DEF ChildAdvances, Exits, Last, childLeaves, jobVars, envVars, Fresh,
     Orphan
<1>19. ASSUME NEW r \in Runners, ChildCopies(r) PROVE Inv'
  BY <1>19, Parity DEF ChildCopies, childKeeps, childLeaves, jobVars, envVars
<1>20. ASSUME NEW r \in Runners, ChildRecords(r) PROVE Inv'
  BY <1>20 DEF ChildRecords, Exits, childLeaves, jobVars, envVars, Fresh, Orphan
<1>21. ASSUME NEW r \in Runners, RecoveryRefused(r) PROVE Inv'
  <2>1. Outcome(FALSE)
    BY <1>21, Deferred DEF RecoveryRefused, Leaves, Admitted, diskVars, procVars,
       envVars, jobVars
  <2>2. TypeOK'
    BY <1>21, <2>1 DEF Outcome, RecoveryRefused, Leaves, Admitted, diskVars, procVars,
       envVars, jobVars
  <2>3. Holds' /\ Learnt' /\ Kept' /\ Counts' /\ Gated'
    BY <1>21, <2>1 DEF Outcome, RecoveryRefused, Leaves, Admitted, diskVars, procVars,
       envVars, jobVars
  <2>4. QED
    BY <2>2, <2>3
<1>22. ASSUME NEW r \in Runners, Asks(r, "routine") PROVE Inv'
  BY <1>22 DEF Asks, jobVars, diskVars, procVars, envVars
<1>23. ASSUME NEW r \in Runners, Asks(r, "urgent") PROVE Inv'
  BY <1>23 DEF Asks, jobVars, diskVars, procVars, envVars
<1>24. ASSUME NEW r \in Runners, Terminates(r) PROVE Inv'
  <2>1. Outcome(FALSE)
    BY <1>24, Deferred DEF Terminates, Stopped, Ends, diskVars, envVars, Fresh, jobVars
  <2>2. TypeOK'
    BY <1>24, <2>1 DEF Outcome, Terminates, Stopped, Ends, diskVars, envVars, Fresh,
       jobVars
  <2>3. Holds' /\ Learnt' /\ Kept' /\ Counts' /\ Gated'
    BY <1>24, <2>1 DEF Outcome, Terminates, Stopped, Ends, diskVars, envVars, Fresh,
       jobVars
  <2>4. QED
    BY <2>2, <2>3
<1>25. ASSUME NEW r \in Runners, TimesOut(r) PROVE Inv'
  <2>1. Outcome(TRUE)
    BY <1>25, Deferred DEF TimesOut, Stopped, Ends, diskVars, envVars, Fresh, jobVars
  <2>2. TypeOK'
    BY <1>25, <2>1 DEF Outcome, TimesOut, Stopped, Ends, diskVars, envVars, Fresh,
       jobVars
  <2>3. Holds' /\ Learnt' /\ Kept' /\ Counts' /\ Gated'
    BY <1>25, <2>1 DEF Outcome, TimesOut, Stopped, Ends, diskVars, envVars, Fresh,
       jobVars
  <2>4. QED
    BY <2>2, <2>3
<1>26. ASSUME NEW r \in Runners, CleanupFails(r) PROVE Inv'
  <2>1. Outcome(FALSE)
    BY <1>26, Deferred DEF CleanupFails, Leaves, diskVars, procVars, envVars, jobVars
  <2>2. TypeOK'
    BY <1>26, <2>1 DEF Outcome, CleanupFails, Leaves, diskVars, procVars, envVars,
       jobVars
  <2>3. Holds' /\ Learnt' /\ Kept' /\ Counts' /\ Gated'
    BY <1>26, <2>1 DEF Outcome, CleanupFails, Leaves, diskVars, procVars, envVars,
       jobVars
  <2>4. QED
    BY <2>2, <2>3
<1>27. ASSUME NEW r \in Runners, RunnerRaises(r) PROVE Inv'
  <2>1. job \in {"running", "deferred"} /\ claim = r /\ ~Alive(r)
    BY <1>27 DEF RunnerRaises
  <2>2. \/ job' = "deferred" /\ UNCHANGED <<failures, due, trouble>>
        \/ Outcome(TRUE) /\ trouble' = trouble + 1
    BY <1>27, <2>1, Deferred DEF RunnerRaises
  <2>3. /\ due' \in BOOLEAN /\ failures' \in 0..MaxFailures
        /\ job' \in {"deferred", "blocked"}
        /\ trouble' \in 0..MaxFaults /\ faults' \in 0..MaxFaults
        /\ trouble' <= faults' /\ failures' <= trouble'
        /\ failures < trouble => failures' < trouble'
        /\ job' = "deferred" => failures' < MaxFailures
    BY <1>27, <2>1, <2>2 DEF RunnerRaises, Outcome
  <2>4. TypeOK'
    BY <1>27, <2>3 DEF RunnerRaises, Ends, diskVars, procVars, envVars
  <2>5. Holds' /\ Learnt' /\ Gated'
    BY <1>27, <2>1 DEF RunnerRaises, Ends, diskVars, procVars, envVars
  <2>6. Kept' /\ Counts'
    BY <1>27, <2>3 DEF RunnerRaises, Ends, diskVars, procVars, envVars
  <2>7. QED
    BY <2>4, <2>5, <2>6
<1>28. ASSUME NEW r \in Runners, RunnerDies(r) PROVE Inv'
  BY <1>28 DEF RunnerDies, Leaves, jobVars, diskVars, envVars
<1>29. ASSUME NEW r \in Runners, ChildDies(r) PROVE Inv'
  BY <1>29 DEF ChildDies, Exits, jobVars, diskVars, envVars, Fresh, Orphan
<1>30. ASSUME NEW i \in Requests, RequestSlot(i) PROVE Inv'
  BY <1>30 DEF RequestSlot, jobVars, diskVars, procVars, envVars
<1>31. ASSUME NEW i \in Requests, RequestComputes(i) PROVE Inv'
  BY <1>31 DEF RequestComputes, jobVars, diskVars, procVars, envVars
<1>32. ASSUME NEW i \in Requests, RequestEnds(i) PROVE Inv'
  BY <1>32 DEF RequestEnds, jobVars, diskVars, procVars, envVars
<1>33. ASSUME NEW i \in Requests, RequestGates(i) PROVE Inv'
  BY <1>33 DEF RequestGates, jobVars, diskVars, procVars
<1>34. ASSUME RetryFallsDue PROVE Inv'
  BY <1>34 DEF RetryFallsDue, diskVars, procVars, envVars
<1>35. ASSUME Changes PROVE Inv'
  <2>1. TypeOK'
    <3>1. events' \in 0..MaxEvents
      BY <1>35 DEF Changes
    <3>2. ready' \in BOOLEAN /\ priority' \in BOOLEAN
      BY <1>35, Zenon DEF Changes
    <3>3. QED
      BY <1>35, <3>1, <3>2 DEF Changes, jobVars, diskVars, procVars
  <2>2. Holds' /\ Learnt' /\ Kept' /\ Counts' /\ Gated'
    BY <1>35 DEF Changes, jobVars, diskVars, procVars
  <2>3. QED
    BY <2>1, <2>2
<1>36. ASSUME Calms PROVE Inv'
  <2>1. TypeOK'
    BY <1>36 DEF Calms, jobVars, diskVars, procVars
  <2>2. Holds' /\ Learnt' /\ Kept' /\ Counts' /\ Gated'
    BY <1>36 DEF Calms, jobVars, diskVars, procVars
  <2>3. QED
    BY <2>1, <2>2
<1>37. CASE UNCHANGED vars
  <2>1. TypeOK'
    BY <1>37 DEF vars, jobVars, diskVars, procVars, envVars
  <2>2. Holds' /\ Learnt'
    BY <1>37 DEF vars, jobVars, diskVars, procVars, envVars
  <2>3. Kept' /\ Counts' /\ Gated'
    BY <1>37 DEF vars, jobVars, diskVars, procVars, envVars
  <2>4. QED
    BY <2>1, <2>2, <2>3
<1> HIDE DEF Inv
<1>38. CASE Next
  BY <1>38, <1>1, <1>2, <1>3, <1>4, <1>5, <1>6, <1>7, <1>8, <1>9, <1>10, <1>11, <1>12, <1>13,
     <1>14, <1>15, <1>16, <1>17, <1>18, <1>19, <1>20, <1>21, <1>22, <1>23, <1>24, <1>25, <1>26,
     <1>27, <1>28, <1>29, <1>30, <1>31, <1>32, <1>33, <1>34, <1>35, <1>36, Zenon
     DEF Next, RunnerSteps, ChildSteps, RequestSteps
<1>39. QED
  BY <1>37, <1>38

\* The inductive invariant of the whole component.
LEMMA Invariance == Spec => []Inv
  BY Initially, Step, PTL DEF Spec

-----------------------------------------------------------------------------
(* Theorems *)

\* Every variable of a learning job keeps its type, its counters their bounds.
THEOREM TypeCorrect == Spec => []TypeOK
<1>1. Inv => TypeOK
  BY DEF Inv
<1>2. QED
  BY <1>1, Invariance, PTL

\* Whatever crash, kill or yield falls between two writes of UpdateCursor.commit, the
\* head the cursor names holds the groups the cursor counts.
THEOREM HeadIsCommitted == Spec => []CommittedHead
<1>1. Inv => CommittedHead
  BY DEF Inv, Kept
<1>2. QED
  BY <1>1, Invariance, PTL

\* A runner that dies, times out or loses track of its child never lets a second trainer
\* child start while the first lives.
THEOREM TrainerIsAlone == Spec => []OneTrainer
<1>1. Inv => OneTrainer
  BY DEF Inv, Holds, OneTrainer
<1>2. QED
  BY <1>1, Invariance, PTL

\* Only a complete and recorded training is staged, also when it was recovered.
THEOREM StagedIsComplete == Spec => []StagedComplete
<1>1. Inv => StagedComplete
  BY DEF Inv, Kept
<1>2. QED
  BY <1>1, Invariance, PTL

\* The failures that block a job are failures of the trainer.
THEOREM BlockIsEarned == Spec => []BlockEarned
<1>1. Inv => BlockEarned
  BY DEF Inv, Counts
<1>2. QED
  BY <1>1, Invariance, PTL

\* A training step never starts to compute while an inference request holds a slot.
THEOREM ForegroundIsFirst == Spec => ForegroundFirst
<1>1. Inv /\ [Next]_vars => [\A r \in Runners : compute # r /\ compute' = r => ~Demand]_vars
  <2> SUFFICES ASSUME Inv, Next, NEW s \in Runners, compute # s, compute' = s
               PROVE  ~Demand
    OBVIOUS
  <2>1. None # s /\ s \notin Requests
    BY TrainingAssumption
  <2>2. ASSUME NEW r \in Runners, ChildComputes(r) PROVE ~Demand
    BY <2>2 DEF ChildComputes, Inv, Gated
  <2>3. ~RetryFallsDue /\ ~Changes /\ ~Calms
    BY DEF RetryFallsDue, Changes, Calms
  <2>4. ASSUME NEW i \in Requests PROVE ~RequestGates(i) /\ ~RequestSteps(i)
    BY <2>1 DEF RequestGates, RequestSteps, RequestSlot, RequestComputes, RequestEnds
  <2>5. ASSUME NEW r \in Runners PROVE ~RunnerSteps(r)
    BY <2>1 DEF RunnerSteps, Claims, PutsOff, Leases, LeaseRefused, TrainsOnce, Recovers, SeesEnd,
       SeesTrained, Stages, Stopped
  <2>6. ASSUME NEW r \in Runners, ChildSteps(r) PROVE ChildComputes(r)
    BY <2>1, <2>6 DEF ChildSteps, ChildPolls, ChildYields, ChildAsks, ChildRefused, ChildComputes,
       ChildLoads, ChildUpdates, ChildSaves, ChildAdvances, ChildCopies, ChildRecords, Exits
  <2>7. ASSUME NEW r \in Runners
        PROVE  /\ ~RecoveryRefused(r) /\ ~Asks(r, "routine") /\ ~Asks(r, "urgent")
               /\ ~Terminates(r) /\ ~TimesOut(r) /\ ~CleanupFails(r)
               /\ ~RunnerRaises(r) /\ ~RunnerDies(r) /\ ~ChildDies(r)
    BY <2>1 DEF RecoveryRefused, Asks, Terminates, TimesOut, CleanupFails, RunnerRaises, RunnerDies,
       ChildDies, Stopped, Exits
  <2>8. QED
    BY <2>2, <2>3, <2>4, <2>5, <2>6, <2>7 DEF Next
<1>2. QED
  BY <1>1, Invariance, PTL DEF Spec, ForegroundFirst
=============================================================================
