------------------------- MODULE WakeRuntimeProofs --------------------------
(* Proofs about WakeRuntime for any set of wakes, processes and bounds. *)
EXTENDS WakeRuntime, TLAPS

\* Who has the lease says who drains, who moves and whose child survives.
LeaseInv ==
    /\ \A w \in Workers : pc[w] \in Draining <=> lease = w
    /\ mover = "moving" <=> lease = Mover
    /\ orphan # NoClaim <=> lease = Child

\* A claim a handler works on is of a row that is still there, at a revision
\* the counter has already reached.
ClaimInv ==
    /\ \A w \in Workers :
         /\ pc[w] \in {"claim", "run"} => claim[w].wake \in Wakes
         /\ pc[w] = "run" => status[claim[w].wake] = "running"
         /\ claim[w].rev <= revision
    /\ orphan # NoClaim => orphan.wake \in Wakes /\ status[orphan.wake] = "running"
    /\ orphan.rev <= revision
    /\ \A x \in Wakes : rev[x] <= revision

\* A worker that picked a row still has a dispatch left in its budget.
RunsInv == \A w \in Workers : pc[w] \in {"claim", "run"} => runs[w] < MaxRuns

TypeInv == TypeOK /\ RunsInv

\* At most one claim since the request, and none left to make after it: no
\* worker picks a row while the request stands.
LateInv ==
    /\ late <= 1 /\ (~yielding => late = 0)
    /\ late = 1 => \A w \in Workers : pc[w] # "claim"

IInv == TypeInv /\ LeaseInv /\ ClaimInv /\ LateInv

-----------------------------------------------------------------------------
(* Typing *)

\* _wake returns every kind of process to a control point of its own.
LEMMA AfterType ==
    ASSUME timerLock \in Timers \cup {None}, NEW p \in Procs, NEW busy
    PROVE  /\ p \in Callers => After(p, busy) \in {"idle", "handoff"}
           /\ p \in Workers => After(p, busy) = "idle"
           /\ p \in Timers => After(p, busy) \in {"idle", "sleep"}
<1>1. p \in Callers => p # timerLock
  BY RuntimeAssumption
<1>2. p \in Workers => p # timerLock /\ p \notin Callers
  BY RuntimeAssumption
<1>3. p \in Timers => p \notin Callers
  BY RuntimeAssumption
<1> QED BY <1>1, <1>2, <1>3 DEF After

\* One process moves to a control point of its kind.
LEMMA PcStep ==
    ASSUME PcType, NEW p \in Procs, NEW v, pc' = [pc EXCEPT ![p] = v],
           p \in Callers => v \in CallerPC,
           p \in Workers => v \in WorkerPC,
           p \in Timers => v \in TimerPC
    PROVE  PcType'
  BY DEF PcType, Procs

\* The same, when a worker is spawned in the same step.
LEMMA PcStep2 ==
    ASSUME PcType, NEW p \in Procs, NEW v, NEW w \in Workers,
           pc' = [pc EXCEPT ![p] = v, ![w] = "start"],
           p \in Callers => v \in CallerPC,
           p \in Workers => v \in WorkerPC,
           p \in Timers => v \in TimerPC
    PROVE  PcType'
  BY RuntimeAssumption DEF PcType, Procs, WorkerPC

\* EXCEPT on a Boolean-valued function (the solvers need it spelled out).
LEMMA SetBool == ASSUME NEW S, NEW f \in [S -> BOOLEAN], NEW x, NEW b \in BOOLEAN
  PROVE [f EXCEPT ![x] = b] \in [S -> BOOLEAN]
  BY Zenon

\* The DELETE and UPDATE of an acknowledgement keep the table well formed.
LEMMA AckTable == ASSUME TypeOK, NEW w \in Workers, Ack(w) PROVE TableType'
<1> USE RuntimeAssumption DEF TypeOK, TableType
<1> DEFINE x == claim[w].wake
           served == status[x] = "absent" \/ rev[x] = claim[w].rev
<1>1. status' \in [Wakes -> {"absent", "pending", "running"}]
  <2>1. status' = [status EXCEPT ![x] = IF served THEN "absent" ELSE "pending"]
    BY DEF Ack
  <2> QED BY <2>1
<1>2. rev' \in [Wakes -> 0..MaxRevision]
  <2>1. rev' = IF served THEN [rev EXCEPT ![x] = 0] ELSE rev
    BY DEF Ack
  <2>2. 0 \in 0..MaxRevision /\ rev \in [Wakes -> 0..MaxRevision]
    OBVIOUS
  <2> HIDE DEF served, x
  <2> QED BY <2>1, <2>2
<1>3. due' \in [Wakes -> BOOLEAN]
  <2>1. due' = [due EXCEPT ![x] = ~served]
    BY DEF Ack
  <2>2. (~served) \in BOOLEAN
    OBVIOUS
  <2>3. due \in [Wakes -> BOOLEAN]
    OBVIOUS
  <2> HIDE DEF served, x
  <2> QED BY <2>1, <2>2, <2>3, SetBool, Zenon
<1> QED BY <1>1, <1>2, <1>3 DEF Ack

\* Every step of every process keeps the types and the run budget.
LEMMA Typing == TypeInv /\ Next => TypeInv'
<1> SUFFICES ASSUME TypeInv, Next PROVE TypeInv'
  OBVIOUS
<1> USE RuntimeAssumption DEF TypeInv, TypeOK, RunsInv, queueVars, workVars, moveVars, faultVars
<1>1. ASSUME NEW x \in Wakes, FallsDue(x) PROVE TypeInv'
  BY <1>1 DEF FallsDue, TableType, PcType, Procs, CallerPC, WorkerPC, TimerPC, ClaimSet, NoClaim
<1>2. ASSUME NEW c \in Callers, NEW x \in Wakes, NEW pull \in BOOLEAN, Request(c, x, pull) PROVE TypeInv'
  BY <1>2 DEF Request, Offer, TableType, PcType, Procs, CallerPC, WorkerPC, TimerPC, ClaimSet, NoClaim
<1>3. ASSUME NEW w \in Workers, NEW x \in Wakes, NEW pull \in BOOLEAN, RequestInside(w, x, pull) PROVE TypeInv'
  BY <1>3 DEF RequestInside, Offer, TableType, PcType, Procs, CallerPC, WorkerPC, TimerPC, ClaimSet, NoClaim
<1>4. ASSUME NEW c \in Callers, HookWake(c) PROVE TypeInv'
  BY <1>4 DEF HookWake, TableType, PcType, Procs, CallerPC, WorkerPC, TimerPC, ClaimSet, NoClaim
<1>5. ASSUME NEW c \in Callers, Handoff(c) PROVE TypeInv'
  BY <1>5 DEF Handoff, TableType, PcType, Procs, CallerPC, WorkerPC, TimerPC, ClaimSet, NoClaim
<1>6. ASSUME NEW p \in Procs, WakeFindsNothing(p) PROVE TypeInv'
  <2>1. pc' = [pc EXCEPT ![p] = After(p, FALSE)]
    BY <1>6 DEF WakeFindsNothing
  <2>2. PcType'
    BY <2>1, AfterType, PcStep DEF CallerPC, WorkerPC, TimerPC
  <2>3. RunsInv'
    BY <1>6, <2>1, AfterType DEF WakeFindsNothing, PcType, Procs
  <2> QED BY <1>6, <2>2, <2>3 DEF WakeFindsNothing, TableType
<1>7. ASSUME NEW p \in Procs, WakeArmsTimer(p) PROVE TypeInv'
  <2>1. CASE timerLock # None
    <3>1. pc' = [pc EXCEPT ![p] = After(p, FALSE)]
      BY <1>7, <2>1 DEF WakeArmsTimer
    <3>2. PcType'
      BY <3>1, AfterType, PcStep DEF CallerPC, WorkerPC, TimerPC
    <3>3. RunsInv'
      BY <1>7, <3>1, AfterType DEF WakeArmsTimer, PcType, Procs
    <3> QED BY <1>7, <2>1, <3>2, <3>3 DEF WakeArmsTimer, TableType
  <2>2. CASE timerLock = None
    BY <1>7, <2>2 DEF WakeArmsTimer, TableType, PcType, Procs, CallerPC, WorkerPC, TimerPC
  <2> QED BY <2>1, <2>2
<1>8. ASSUME NEW p \in Procs, WakeSeesDue(p) PROVE TypeInv'
  BY <1>8 DEF WakeSeesDue, TableType, PcType, Procs, CallerPC, WorkerPC, TimerPC, ClaimSet, NoClaim
<1>9. ASSUME NEW p \in Procs, LeaseBusy(p) PROVE TypeInv'
  <2>1. pc' = [pc EXCEPT ![p] = After(p, TRUE)]
    BY <1>9 DEF LeaseBusy
  <2>2. PcType'
    BY <2>1, AfterType, PcStep DEF CallerPC, WorkerPC, TimerPC
  <2>3. RunsInv'
    BY <1>9, <2>1, AfterType DEF LeaseBusy, PcType, Procs
  <2> QED BY <1>9, <2>2, <2>3 DEF LeaseBusy, TableType
<1>10. ASSUME NEW p \in Procs, LeaseSpawns(p) PROVE TypeInv'
  <2>1. PICK w \in Workers :
          pc' = [pc EXCEPT ![p] = After(p, FALSE), ![w] = "start"] /\ lease' = w
    BY <1>10 DEF LeaseSpawns
  <2>2. PcType'
    BY <2>1, AfterType, PcStep2 DEF CallerPC, WorkerPC, TimerPC
  <2>3. RunsInv'
    BY <1>10, <2>1, AfterType DEF LeaseSpawns, PcType, Procs
  <2> QED BY <1>10, <2>1, <2>2, <2>3 DEF LeaseSpawns, TableType
<1>11. ASSUME NEW w \in Workers, ContendTakes(w) PROVE TypeInv'
  BY <1>11 DEF ContendTakes, TableType, PcType, Procs, CallerPC, WorkerPC, TimerPC, ClaimSet, NoClaim
<1>12. ASSUME NEW w \in Workers, ContendExpires(w) PROVE TypeInv'
  BY <1>12 DEF ContendExpires, TableType, PcType, Procs, CallerPC, WorkerPC, TimerPC, ClaimSet, NoClaim
<1>13. ASSUME NEW w \in Workers, DrainResets(w) PROVE TypeInv'
  BY <1>13 DEF DrainResets, TableType, PcType, Procs, CallerPC, WorkerPC, TimerPC, ClaimSet, NoClaim
<1>14. ASSUME NEW w \in Workers, DrainStops(w) PROVE TypeInv'
  BY <1>14 DEF DrainStops, TableType, PcType, Procs, CallerPC, WorkerPC, TimerPC, ClaimSet, NoClaim
<1>15. ASSUME NEW w \in Workers, NEW x \in Wakes, Picks(w, x) PROVE TypeInv'
  BY <1>15 DEF Picks, TableType, PcType, Procs, CallerPC, WorkerPC, TimerPC, ClaimSet, NoClaim
<1>16. ASSUME NEW w \in Workers, Claim(w) PROVE TypeInv'
  <2> DEFINE x == claim[w].wake
             won == status[x] = "pending" /\ rev[x] = claim[w].rev
  <2>1. CASE won
    <3>1. TableType'
      BY <1>16, <2>1 DEF Claim, TableType
    <3>2. PcType'
      BY <1>16, <2>1, PcStep DEF Claim, WorkerPC, Procs
    <3>3. RunsInv'
      BY <1>16, <2>1 DEF Claim, PcType, Procs
    <3>4. late' \in Nat
      BY <1>16, <2>1 DEF Claim
    <3> QED BY <1>16, <2>1, <3>1, <3>2, <3>3, <3>4 DEF Claim
  <2>2. CASE ~won
    <3>1. claim' = [claim EXCEPT ![w] = NoClaim] /\ pc' = [pc EXCEPT ![w] = "loop"]
      BY <1>16, <2>2 DEF Claim
    <3>2. PcType'
      BY <3>1, PcStep DEF WorkerPC, Procs
    <3>3. claim' \in [Workers -> ClaimSet]
      BY <3>1 DEF ClaimSet, NoClaim
    <3>4. RunsInv'
      BY <1>16, <3>1 DEF Claim, PcType, Procs
    <3> QED BY <1>16, <2>2, <3>2, <3>3, <3>4 DEF Claim, TableType
  <2> QED BY <2>1, <2>2
<1>17. ASSUME NEW w \in Workers, Ack(w) PROVE TypeInv'
  <2>1. TableType'
    BY <1>17, AckTable
  <2>2. PcType'
    BY <1>17, PcStep DEF Ack, Settled, WorkerPC, Procs
  <2>3. claim' \in [Workers -> ClaimSet]
    BY <1>17 DEF Ack, Settled, ClaimSet, NoClaim
  <2>4. runs' \in [Workers -> 0..MaxRuns] /\ RunsInv'
    BY <1>17 DEF Ack, Settled, PcType, Procs
  <2> QED BY <1>17, <2>1, <2>2, <2>3, <2>4 DEF Ack, Settled
<1>18. ASSUME NEW w \in Workers, Retry(w) PROVE TypeInv'
  <2>1. TableType'
    BY <1>18 DEF Retry, TableType
  <2>2. PcType'
    BY <1>18, PcStep DEF Retry, Settled, WorkerPC, Procs
  <2>3. claim' \in [Workers -> ClaimSet]
    BY <1>18 DEF Retry, Settled, ClaimSet, NoClaim
  <2>4. runs' \in [Workers -> 0..MaxRuns] /\ RunsInv'
    BY <1>18 DEF Retry, Settled, PcType, Procs
  <2> QED BY <1>18, <2>1, <2>2, <2>3, <2>4 DEF Retry, Settled
<1>19. ASSUME NEW w \in Workers, DrainFails(w) PROVE TypeInv'
  BY <1>19 DEF DrainFails, TableType, PcType, Procs, CallerPC, WorkerPC, TimerPC, ClaimSet, NoClaim
<1>20. ASSUME NEW t \in Timers, TimerLooks(t) PROVE TypeInv'
  BY <1>20 DEF TimerLooks, TableType, PcType, Procs, CallerPC, WorkerPC, TimerPC, ClaimSet, NoClaim
<1>21. ASSUME NEW t \in Timers, TimerSleeps(t) PROVE TypeInv'
  BY <1>21 DEF TimerSleeps, TableType, PcType, Procs, CallerPC, WorkerPC, TimerPC, ClaimSet, NoClaim
<1>22. ASSUME NEW t \in Timers, TimerReleases(t) PROVE TypeInv'
  BY <1>22 DEF TimerReleases, TableType, PcType, Procs, CallerPC, WorkerPC, TimerPC, ClaimSet, NoClaim
<1>23. ASSUME MoverAsks PROVE TypeInv'
  BY <1>23 DEF MoverAsks, TableType, PcType, Procs, CallerPC, WorkerPC, TimerPC, ClaimSet, NoClaim
<1>24. ASSUME MoverTakesHandoff PROVE TypeInv'
  BY <1>24 DEF MoverTakesHandoff, TableType, PcType, Procs, CallerPC, WorkerPC, TimerPC, ClaimSet, NoClaim
<1>25. ASSUME MoverTakesLease PROVE TypeInv'
  BY <1>25 DEF MoverTakesLease, TableType, PcType, Procs, CallerPC, WorkerPC, TimerPC, ClaimSet, NoClaim
<1>26. ASSUME MoverGivesUp PROVE TypeInv'
  BY <1>26 DEF MoverGivesUp, MoverCloses, TableType, PcType, Procs, CallerPC, WorkerPC, TimerPC, ClaimSet, NoClaim
<1>27. ASSUME MoverDone PROVE TypeInv'
  BY <1>27 DEF MoverDone, MoverCloses, TableType, PcType, Procs, CallerPC, WorkerPC, TimerPC, ClaimSet, NoClaim
<1>28. ASSUME YieldExpires PROVE TypeInv'
  BY <1>28 DEF YieldExpires, TableType, PcType, Procs, CallerPC, WorkerPC, TimerPC, ClaimSet, NoClaim
<1>29. ASSUME NEW w \in Workers, WorkerDies(w) PROVE TypeInv'
  BY <1>29 DEF WorkerDies, Faulty, TableType, PcType, Procs, CallerPC, WorkerPC, TimerPC, ClaimSet, NoClaim
<1>30. ASSUME NEW c \in Callers, CallerDies(c) PROVE TypeInv'
  BY <1>30 DEF CallerDies, Faulty, TableType, PcType, Procs, CallerPC, WorkerPC, TimerPC, ClaimSet, NoClaim
<1>31. ASSUME NEW t \in Timers, TimerDies(t) PROVE TypeInv'
  BY <1>31 DEF TimerDies, Faulty, TableType, PcType, Procs, CallerPC, WorkerPC, TimerPC, ClaimSet, NoClaim
<1>32. ASSUME MoverDies PROVE TypeInv'
  BY <1>32 DEF MoverDies, MoverCloses, Faulty, TableType, PcType, Procs, CallerPC, WorkerPC, TimerPC, ClaimSet, NoClaim
<1>33. ASSUME OrphanEnds PROVE TypeInv'
  BY <1>33 DEF OrphanEnds, TableType, PcType, Procs, CallerPC, WorkerPC, TimerPC, ClaimSet, NoClaim
<1>34. QED
  BY <1>1, <1>2, <1>3, <1>4, <1>5, <1>6, <1>7, <1>8, <1>9, <1>10, <1>11,
     <1>12, <1>13, <1>14, <1>15, <1>16, <1>17, <1>18, <1>19, <1>20, <1>21, <1>22,
     <1>23, <1>24, <1>25, <1>26, <1>27, <1>28, <1>29, <1>30, <1>31, <1>32, <1>33
  DEF Next, CalmNext, MoverStep, Fault, CallerStep, WorkerStep, TimerStep, WakeStep, Procs

-----------------------------------------------------------------------------
(* The lease *)

\* runtime-worker.lock passes from holder to holder without a second drain
\* beginning: spawn, contention, _quiesce_lanes, a death with a Laya child.
LEMMA LeaseStep == TypeInv /\ LeaseInv /\ ClaimInv /\ Next => LeaseInv'
<1> SUFFICES ASSUME TypeInv, LeaseInv, ClaimInv, Next PROVE LeaseInv'
  OBVIOUS
<1> USE RuntimeAssumption DEF TypeInv, TypeOK, PcType, Procs, LeaseInv, Draining, NoClaim, ClaimInv, ClaimSet, queueVars, workVars, moveVars, faultVars
<1>1. ASSUME NEW x \in Wakes, FallsDue(x) PROVE LeaseInv'
  BY <1>1 DEF FallsDue
<1>2. ASSUME NEW c \in Callers, NEW x \in Wakes, NEW pull \in BOOLEAN, Request(c, x, pull) PROVE LeaseInv'
  BY <1>2 DEF Request, Offer
<1>3. ASSUME NEW w \in Workers, NEW x \in Wakes, NEW pull \in BOOLEAN, RequestInside(w, x, pull) PROVE LeaseInv'
  BY <1>3 DEF RequestInside, Offer
<1>4. ASSUME NEW c \in Callers, HookWake(c) PROVE LeaseInv'
  BY <1>4 DEF HookWake
<1>5. ASSUME NEW c \in Callers, Handoff(c) PROVE LeaseInv'
  BY <1>5 DEF Handoff
<1>6. ASSUME NEW p \in Procs, WakeFindsNothing(p) PROVE LeaseInv'
  BY <1>6, AfterType DEF WakeFindsNothing
<1>7. ASSUME NEW p \in Procs, WakeArmsTimer(p) PROVE LeaseInv'
  <2>1. CASE timerLock # None
    <3>1. pc' = [pc EXCEPT ![p] = After(p, FALSE)]
      BY <1>7, <2>1 DEF WakeArmsTimer
    <3> QED BY <1>7, <3>1, AfterType DEF WakeArmsTimer
  <2>2. CASE timerLock = None
    BY <1>7, <2>2 DEF WakeArmsTimer
  <2> QED BY <2>1, <2>2
<1>8. ASSUME NEW p \in Procs, WakeSeesDue(p) PROVE LeaseInv'
  BY <1>8 DEF WakeSeesDue
<1>9. ASSUME NEW p \in Procs, LeaseBusy(p) PROVE LeaseInv'
  BY <1>9, AfterType DEF LeaseBusy
<1>10. ASSUME NEW p \in Procs, LeaseSpawns(p) PROVE LeaseInv'
  <2>1. PICK w \in Workers :
          /\ pc[w] = "idle" \/ w = p
          /\ lease' = w
          /\ pc' = [pc EXCEPT ![p] = After(p, FALSE), ![w] = "start"]
    BY <1>10 DEF LeaseSpawns
  <2>2. \A v \in Workers : pc'[v] = IF v = w THEN "start" ELSE IF v = p THEN "idle" ELSE pc[v]
    BY <2>1, AfterType
  <2> QED BY <1>10, <2>1, <2>2 DEF LeaseSpawns
<1>11. ASSUME NEW w \in Workers, ContendTakes(w) PROVE LeaseInv'
  BY <1>11 DEF ContendTakes
<1>12. ASSUME NEW w \in Workers, ContendExpires(w) PROVE LeaseInv'
  BY <1>12 DEF ContendExpires
<1>13. ASSUME NEW w \in Workers, DrainResets(w) PROVE LeaseInv'
  BY <1>13 DEF DrainResets
<1>14. ASSUME NEW w \in Workers, DrainStops(w) PROVE LeaseInv'
  BY <1>14 DEF DrainStops
<1>15. ASSUME NEW w \in Workers, NEW x \in Wakes, Picks(w, x) PROVE LeaseInv'
  BY <1>15 DEF Picks
<1>16. ASSUME NEW w \in Workers, Claim(w) PROVE LeaseInv'
  BY <1>16 DEF Claim
<1>17. ASSUME NEW w \in Workers, Ack(w) PROVE LeaseInv'
  BY <1>17 DEF Ack, Settled
<1>18. ASSUME NEW w \in Workers, Retry(w) PROVE LeaseInv'
  BY <1>18 DEF Retry, Settled
<1>19. ASSUME NEW w \in Workers, DrainFails(w) PROVE LeaseInv'
  BY <1>19 DEF DrainFails
<1>20. ASSUME NEW t \in Timers, TimerLooks(t) PROVE LeaseInv'
  BY <1>20 DEF TimerLooks
<1>21. ASSUME NEW t \in Timers, TimerSleeps(t) PROVE LeaseInv'
  BY <1>21 DEF TimerSleeps
<1>22. ASSUME NEW t \in Timers, TimerReleases(t) PROVE LeaseInv'
  BY <1>22 DEF TimerReleases
<1>23. ASSUME MoverAsks PROVE LeaseInv'
  BY <1>23 DEF MoverAsks
<1>24. ASSUME MoverTakesHandoff PROVE LeaseInv'
  BY <1>24 DEF MoverTakesHandoff
<1>25. ASSUME MoverTakesLease PROVE LeaseInv'
  BY <1>25 DEF MoverTakesLease
<1>26. ASSUME MoverGivesUp PROVE LeaseInv'
  BY <1>26 DEF MoverGivesUp, MoverCloses
<1>27. ASSUME MoverDone PROVE LeaseInv'
  BY <1>27 DEF MoverDone, MoverCloses
<1>28. ASSUME YieldExpires PROVE LeaseInv'
  BY <1>28 DEF YieldExpires
<1>29. ASSUME NEW w \in Workers, WorkerDies(w) PROVE LeaseInv'
  BY <1>29 DEF WorkerDies, Faulty
<1>30. ASSUME NEW c \in Callers, CallerDies(c) PROVE LeaseInv'
  BY <1>30 DEF CallerDies, Faulty
<1>31. ASSUME NEW t \in Timers, TimerDies(t) PROVE LeaseInv'
  BY <1>31 DEF TimerDies, Faulty
<1>32. ASSUME MoverDies PROVE LeaseInv'
  BY <1>32 DEF MoverDies, MoverCloses, Faulty
<1>33. ASSUME OrphanEnds PROVE LeaseInv'
  BY <1>33 DEF OrphanEnds
<1> QED
  BY <1>1, <1>2, <1>3, <1>4, <1>5, <1>6, <1>7, <1>8, <1>9, <1>10, <1>11,
     <1>12, <1>13, <1>14, <1>15, <1>16, <1>17, <1>18, <1>19, <1>20, <1>21, <1>22,
     <1>23, <1>24, <1>25, <1>26, <1>27, <1>28, <1>29, <1>30, <1>31, <1>32, <1>33
  DEF Next, CalmNext, MoverStep, Fault, CallerStep, WorkerStep, TimerStep, WakeStep, Procs

-----------------------------------------------------------------------------
(* Claims *)

\* A claimed row stays in the table, running, until its own dispatch settles it:
\* offers and other workers cannot remove it.
LEMMA ClaimStep == TypeInv /\ LeaseInv /\ ClaimInv /\ Next => ClaimInv'
<1> SUFFICES ASSUME TypeInv, LeaseInv, ClaimInv, Next PROVE ClaimInv'
  OBVIOUS
<1> USE RuntimeAssumption DEF TypeInv, TypeOK, PcType, Procs, LeaseInv, Draining, NoClaim, ClaimInv, ClaimSet, TableType, queueVars, workVars, moveVars, faultVars
<1>1. ASSUME NEW x \in Wakes, FallsDue(x) PROVE ClaimInv'
  BY <1>1 DEF FallsDue
<1>2. ASSUME NEW c \in Callers, NEW x \in Wakes, NEW pull \in BOOLEAN, Request(c, x, pull) PROVE ClaimInv'
  BY <1>2 DEF Request, Offer
<1>3. ASSUME NEW w \in Workers, NEW x \in Wakes, NEW pull \in BOOLEAN, RequestInside(w, x, pull) PROVE ClaimInv'
  BY <1>3 DEF RequestInside, Offer
<1>4. ASSUME NEW c \in Callers, HookWake(c) PROVE ClaimInv'
  BY <1>4 DEF HookWake
<1>5. ASSUME NEW c \in Callers, Handoff(c) PROVE ClaimInv'
  BY <1>5 DEF Handoff
<1>6. ASSUME NEW p \in Procs, WakeFindsNothing(p) PROVE ClaimInv'
  BY <1>6, AfterType DEF WakeFindsNothing
<1>7. ASSUME NEW p \in Procs, WakeArmsTimer(p) PROVE ClaimInv'
  <2>1. CASE timerLock # None
    <3>1. pc' = [pc EXCEPT ![p] = After(p, FALSE)]
      BY <1>7, <2>1 DEF WakeArmsTimer
    <3> QED BY <1>7, <3>1, AfterType DEF WakeArmsTimer
  <2>2. CASE timerLock = None
    BY <1>7, <2>2 DEF WakeArmsTimer
  <2> QED BY <2>1, <2>2
<1>8. ASSUME NEW p \in Procs, WakeSeesDue(p) PROVE ClaimInv'
  BY <1>8 DEF WakeSeesDue
<1>9. ASSUME NEW p \in Procs, LeaseBusy(p) PROVE ClaimInv'
  BY <1>9, AfterType DEF LeaseBusy
<1>10. ASSUME NEW p \in Procs, LeaseSpawns(p) PROVE ClaimInv'
  <2>1. PICK w \in Workers :
          /\ pc[w] = "idle" \/ w = p
          /\ lease' = w
          /\ pc' = [pc EXCEPT ![p] = After(p, FALSE), ![w] = "start"]
    BY <1>10 DEF LeaseSpawns
  <2>2. \A v \in Workers : pc'[v] = IF v = w THEN "start" ELSE IF v = p THEN "idle" ELSE pc[v]
    BY <2>1, AfterType
  <2> QED BY <1>10, <2>1, <2>2 DEF LeaseSpawns
<1>11. ASSUME NEW w \in Workers, ContendTakes(w) PROVE ClaimInv'
  BY <1>11 DEF ContendTakes
<1>12. ASSUME NEW w \in Workers, ContendExpires(w) PROVE ClaimInv'
  BY <1>12 DEF ContendExpires
<1>13. ASSUME NEW w \in Workers, DrainResets(w) PROVE ClaimInv'
  BY <1>13 DEF DrainResets
<1>14. ASSUME NEW w \in Workers, DrainStops(w) PROVE ClaimInv'
  BY <1>14 DEF DrainStops
<1>15. ASSUME NEW w \in Workers, NEW x \in Wakes, Picks(w, x) PROVE ClaimInv'
  BY <1>15 DEF Picks
<1>16. ASSUME NEW w \in Workers, Claim(w) PROVE ClaimInv'
  BY <1>16 DEF Claim
<1>17. ASSUME NEW w \in Workers, Ack(w) PROVE ClaimInv'
  BY <1>17 DEF Ack, Settled
<1>18. ASSUME NEW w \in Workers, Retry(w) PROVE ClaimInv'
  BY <1>18 DEF Retry, Settled
<1>19. ASSUME NEW w \in Workers, DrainFails(w) PROVE ClaimInv'
  BY <1>19 DEF DrainFails
<1>20. ASSUME NEW t \in Timers, TimerLooks(t) PROVE ClaimInv'
  BY <1>20 DEF TimerLooks
<1>21. ASSUME NEW t \in Timers, TimerSleeps(t) PROVE ClaimInv'
  BY <1>21 DEF TimerSleeps
<1>22. ASSUME NEW t \in Timers, TimerReleases(t) PROVE ClaimInv'
  BY <1>22 DEF TimerReleases
<1>23. ASSUME MoverAsks PROVE ClaimInv'
  BY <1>23 DEF MoverAsks
<1>24. ASSUME MoverTakesHandoff PROVE ClaimInv'
  BY <1>24 DEF MoverTakesHandoff
<1>25. ASSUME MoverTakesLease PROVE ClaimInv'
  BY <1>25 DEF MoverTakesLease
<1>26. ASSUME MoverGivesUp PROVE ClaimInv'
  BY <1>26 DEF MoverGivesUp, MoverCloses
<1>27. ASSUME MoverDone PROVE ClaimInv'
  BY <1>27 DEF MoverDone, MoverCloses
<1>28. ASSUME YieldExpires PROVE ClaimInv'
  BY <1>28 DEF YieldExpires
<1>29. ASSUME NEW w \in Workers, WorkerDies(w) PROVE ClaimInv'
  BY <1>29 DEF WorkerDies, Faulty
<1>30. ASSUME NEW c \in Callers, CallerDies(c) PROVE ClaimInv'
  BY <1>30 DEF CallerDies, Faulty
<1>31. ASSUME NEW t \in Timers, TimerDies(t) PROVE ClaimInv'
  BY <1>31 DEF TimerDies, Faulty
<1>32. ASSUME MoverDies PROVE ClaimInv'
  BY <1>32 DEF MoverDies, MoverCloses, Faulty
<1>33. ASSUME OrphanEnds PROVE ClaimInv'
  BY <1>33 DEF OrphanEnds
<1> QED
  BY <1>1, <1>2, <1>3, <1>4, <1>5, <1>6, <1>7, <1>8, <1>9, <1>10, <1>11,
     <1>12, <1>13, <1>14, <1>15, <1>16, <1>17, <1>18, <1>19, <1>20, <1>21, <1>22,
     <1>23, <1>24, <1>25, <1>26, <1>27, <1>28, <1>29, <1>30, <1>31, <1>32, <1>33
  DEF Next, CalmNext, MoverStep, Fault, CallerStep, WorkerStep, TimerStep, WakeStep, Procs

-----------------------------------------------------------------------------
(* Yield requests *)

\* A worker looks for the request before it picks a row, so only the worker that
\* had looked already can still claim one.
LEMMA LateStep == TypeInv /\ LeaseInv /\ LateInv /\ Next => LateInv'
<1> SUFFICES ASSUME TypeInv, LeaseInv, LateInv, Next PROVE LateInv'
  OBVIOUS
<1> USE RuntimeAssumption DEF TypeInv, TypeOK, PcType, Procs, LeaseInv, LateInv, Draining, queueVars, workVars, moveVars, faultVars
<1>1. ASSUME NEW x \in Wakes, FallsDue(x) PROVE LateInv'
  BY <1>1 DEF FallsDue
<1>2. ASSUME NEW c \in Callers, NEW x \in Wakes, NEW pull \in BOOLEAN, Request(c, x, pull) PROVE LateInv'
  BY <1>2 DEF Request, Offer
<1>3. ASSUME NEW w \in Workers, NEW x \in Wakes, NEW pull \in BOOLEAN, RequestInside(w, x, pull) PROVE LateInv'
  BY <1>3 DEF RequestInside, Offer
<1>4. ASSUME NEW c \in Callers, HookWake(c) PROVE LateInv'
  BY <1>4 DEF HookWake
<1>5. ASSUME NEW c \in Callers, Handoff(c) PROVE LateInv'
  BY <1>5 DEF Handoff
<1>6. ASSUME NEW p \in Procs, WakeFindsNothing(p) PROVE LateInv'
  BY <1>6, AfterType DEF WakeFindsNothing
<1>7. ASSUME NEW p \in Procs, WakeArmsTimer(p) PROVE LateInv'
  <2>1. CASE timerLock # None
    <3>1. pc' = [pc EXCEPT ![p] = After(p, FALSE)]
      BY <1>7, <2>1 DEF WakeArmsTimer
    <3> QED BY <1>7, <3>1, AfterType DEF WakeArmsTimer
  <2>2. CASE timerLock = None
    BY <1>7, <2>2 DEF WakeArmsTimer
  <2> QED BY <2>1, <2>2
<1>8. ASSUME NEW p \in Procs, WakeSeesDue(p) PROVE LateInv'
  BY <1>8 DEF WakeSeesDue
<1>9. ASSUME NEW p \in Procs, LeaseBusy(p) PROVE LateInv'
  BY <1>9, AfterType DEF LeaseBusy
<1>10. ASSUME NEW p \in Procs, LeaseSpawns(p) PROVE LateInv'
  <2>1. PICK w \in Workers :
          /\ pc[w] = "idle" \/ w = p
          /\ pc' = [pc EXCEPT ![p] = After(p, FALSE), ![w] = "start"]
    BY <1>10 DEF LeaseSpawns
  <2>2. \A v \in Workers : pc'[v] = IF v = w THEN "start" ELSE IF v = p THEN "idle" ELSE pc[v]
    BY <2>1, AfterType
  <2> QED BY <1>10, <2>1, <2>2 DEF LeaseSpawns
<1>11. ASSUME NEW w \in Workers, ContendTakes(w) PROVE LateInv'
  BY <1>11 DEF ContendTakes
<1>12. ASSUME NEW w \in Workers, ContendExpires(w) PROVE LateInv'
  BY <1>12 DEF ContendExpires
<1>13. ASSUME NEW w \in Workers, DrainResets(w) PROVE LateInv'
  BY <1>13 DEF DrainResets
<1>14. ASSUME NEW w \in Workers, DrainStops(w) PROVE LateInv'
  BY <1>14 DEF DrainStops
<1>15. ASSUME NEW w \in Workers, NEW x \in Wakes, Picks(w, x) PROVE LateInv'
  BY <1>15 DEF Picks
<1>16. ASSUME NEW w \in Workers, Claim(w) PROVE LateInv'
  BY <1>16 DEF Claim
<1>17. ASSUME NEW w \in Workers, Ack(w) PROVE LateInv'
  BY <1>17 DEF Ack, Settled
<1>18. ASSUME NEW w \in Workers, Retry(w) PROVE LateInv'
  BY <1>18 DEF Retry, Settled
<1>19. ASSUME NEW w \in Workers, DrainFails(w) PROVE LateInv'
  BY <1>19 DEF DrainFails
<1>20. ASSUME NEW t \in Timers, TimerLooks(t) PROVE LateInv'
  BY <1>20 DEF TimerLooks
<1>21. ASSUME NEW t \in Timers, TimerSleeps(t) PROVE LateInv'
  BY <1>21 DEF TimerSleeps
<1>22. ASSUME NEW t \in Timers, TimerReleases(t) PROVE LateInv'
  BY <1>22 DEF TimerReleases
<1>23. ASSUME MoverAsks PROVE LateInv'
  BY <1>23 DEF MoverAsks
<1>24. ASSUME MoverTakesHandoff PROVE LateInv'
  BY <1>24 DEF MoverTakesHandoff
<1>25. ASSUME MoverTakesLease PROVE LateInv'
  BY <1>25 DEF MoverTakesLease
<1>26. ASSUME MoverGivesUp PROVE LateInv'
  BY <1>26 DEF MoverGivesUp, MoverCloses
<1>27. ASSUME MoverDone PROVE LateInv'
  BY <1>27 DEF MoverDone, MoverCloses
<1>28. ASSUME YieldExpires PROVE LateInv'
  BY <1>28 DEF YieldExpires
<1>29. ASSUME NEW w \in Workers, WorkerDies(w) PROVE LateInv'
  BY <1>29 DEF WorkerDies, Faulty
<1>30. ASSUME NEW c \in Callers, CallerDies(c) PROVE LateInv'
  BY <1>30 DEF CallerDies, Faulty
<1>31. ASSUME NEW t \in Timers, TimerDies(t) PROVE LateInv'
  BY <1>31 DEF TimerDies, Faulty
<1>32. ASSUME MoverDies PROVE LateInv'
  BY <1>32 DEF MoverDies, MoverCloses, Faulty
<1>33. ASSUME OrphanEnds PROVE LateInv'
  BY <1>33 DEF OrphanEnds
<1> QED
  BY <1>1, <1>2, <1>3, <1>4, <1>5, <1>6, <1>7, <1>8, <1>9, <1>10, <1>11,
     <1>12, <1>13, <1>14, <1>15, <1>16, <1>17, <1>18, <1>19, <1>20, <1>21, <1>22,
     <1>23, <1>24, <1>25, <1>26, <1>27, <1>28, <1>29, <1>30, <1>31, <1>32, <1>33
  DEF Next, CalmNext, MoverStep, Fault, CallerStep, WorkerStep, TimerStep, WakeStep, Procs

\* The stuttering step, once for all parts of the invariant.
LEMMA Stutter == IInv /\ UNCHANGED vars => IInv'
  BY DEF IInv, TypeInv, TypeOK, TableType, PcType, RunsInv, LeaseInv, ClaimInv, LateInv,
         vars, queueVars, workVars, moveVars, faultVars

\* The runtime starts from an empty queue and no process.
LEMMA InitIInv == Init => IInv
<1> SUFFICES ASSUME Init PROVE IInv
  OBVIOUS
<1>1. TypeInv
  <2>1. due \in [Wakes -> BOOLEAN] /\ asked \in [Callers -> BOOLEAN]
    BY Zenon DEF Init
  <2>2. PcType /\ RunsInv
    BY RuntimeAssumption DEF Init, PcType, RunsInv, Procs, CallerPC, WorkerPC, TimerPC
  <2>3. NoClaim \in ClaimSet
    BY RuntimeAssumption DEF NoClaim, ClaimSet
  <2>4. status \in [Wakes -> {"absent", "pending", "running"}]
    BY DEF Init
  <2>5. rev \in [Wakes -> 0..MaxRevision] /\ revision \in 0..MaxRevision
    BY RuntimeAssumption DEF Init
  <2>6. claim \in [Workers -> ClaimSet] /\ runs \in [Workers -> 0..MaxRuns]
    BY <2>3, RuntimeAssumption DEF Init
  <2>7. orphan \in ClaimSet /\ faults \in 0..MaxFaults /\ moves \in 0..MaxMoves
    BY <2>3, RuntimeAssumption DEF Init
  <2> QED BY <2>1, <2>2, <2>4, <2>5, <2>6, <2>7 DEF Init, TypeInv, TypeOK, TableType
<1>2. LeaseInv
  BY RuntimeAssumption DEF Init, LeaseInv, Procs, Draining
<1>3. ClaimInv /\ LateInv
  BY RuntimeAssumption DEF Init, ClaimInv, LateInv, Procs, NoClaim
<1> QED BY <1>1, <1>2, <1>3 DEF IInv

\* The conjunction is inductive.
LEMMA StepIInv == IInv /\ [Next]_vars => IInv'
  BY Typing, LeaseStep, ClaimStep, LateStep, Stutter DEF IInv

\* The inductive invariant holds in every reachable state, with any number of
\* wakes, workers, timers, crashes and moves.
THEOREM Inductive == Spec => []IInv
  BY InitIInv, StepIInv, PTL DEF Spec

\* Type correctness of the whole runtime.
THEOREM TypeCorrect == Spec => []TypeOK
<1>1. IInv => TypeOK
  BY DEF IInv, TypeInv
<1> QED BY <1>1, Inductive, PTL

\* drain never runs twice at once, nor beside the child of a dead dispatcher
\* (drain keeps the flock for its lifetime, the child inherits it).
THEOREM DispatchIsExclusive == Spec => []SingleDispatch
<1>1. IInv => SingleDispatch
  BY RuntimeAssumption DEF IInv, LeaseInv, SingleDispatch
<1> QED BY <1>1, Inductive, PTL

\* _quiesce_lanes: while the mover holds the lease nothing drains or dispatches.
THEOREM MoverIsAlone == Spec => []MoverAlone
<1>1. IInv => MoverAlone
  BY RuntimeAssumption DEF IInv, LeaseInv, MoverAlone
<1> QED BY <1>1, Inductive, PTL

\* After _request_yield at most one further wake is claimed, whatever crashes,
\* expires or retries in between.
THEOREM LateClaimsBounded == Spec => []AtMostOneLateClaim
<1>1. IInv => AtMostOneLateClaim
  BY DEF IInv, LateInv, AtMostOneLateClaim
<1> QED BY <1>1, Inductive, PTL

-----------------------------------------------------------------------------
(* Nobody forgets the queue *)

\* Between them the holder of the lease, the timer and the wakers always cover it.
CalmInv ==
    /\ mover = "idle" /\ orphan = NoClaim
    /\ timerLock # None => Awake(timerLock)
    /\ Attended

\* One process awake after the step is enough.
LEMMA AwakeNow == ASSUME NEW p \in Procs, Awake(p)' PROVE Attended'
  BY DEF Attended

\* A timer that holds its lock goes back to its loop and is awake.
LEMMA TimerReturns ==
    ASSUME timerLock \in Timers \cup {None}, timerLock # None, NEW busy
    PROVE  After(timerLock, busy) = "sleep" /\ timerLock \in Procs
  BY RuntimeAssumption DEF After, Procs

\* Every step of a run without crashes leaves somebody awake for the queue.
LEMMA CalmStep == IInv /\ CalmInv /\ CalmNext => CalmInv'
<1> SUFFICES ASSUME IInv, CalmInv, CalmNext PROVE CalmInv'
  OBVIOUS
<1> USE RuntimeAssumption DEF IInv, TypeInv, TypeOK, PcType, Procs, CalmInv, LeaseInv, Awake, Draining, Attended,
        CallerPC, WorkerPC, TimerPC, queueVars, workVars, moveVars, faultVars
<1>1. ASSUME NEW x \in Wakes, FallsDue(x) PROVE CalmInv'
  BY <1>1 DEF FallsDue, Present
<1>2. ASSUME NEW c \in Callers, NEW x \in Wakes, NEW pull \in BOOLEAN, Request(c, x, pull) PROVE CalmInv'
  BY <1>2 DEF Request, Present
<1>3. ASSUME NEW w \in Workers, NEW x \in Wakes, NEW pull \in BOOLEAN, RequestInside(w, x, pull) PROVE CalmInv'
  BY <1>3 DEF RequestInside, Present
<1>4. ASSUME NEW c \in Callers, HookWake(c) PROVE CalmInv'
  BY <1>4 DEF HookWake, Present
<1>5. ASSUME NEW c \in Callers, Handoff(c) PROVE CalmInv'
  BY <1>5 DEF Handoff, Present
<1>6. ASSUME NEW p \in Procs, WakeFindsNothing(p) PROVE CalmInv'
  <2>1. pc[p] = "wake" /\ pc' = [pc EXCEPT ![p] = After(p, FALSE)] /\ Present = {}
    BY <1>6 DEF WakeFindsNothing
  <2>2. UNCHANGED <<mover, orphan, timerLock, status>>
    BY <1>6 DEF WakeFindsNothing
  <2>3. timerLock # None => Awake(timerLock)'
    BY <2>1, <2>2, TimerReturns
  <2>4. Present' = {}
    BY <2>1, <2>2 DEF Present
  <2> QED BY <2>2, <2>3, <2>4
<1>7. ASSUME NEW p \in Procs, WakeArmsTimer(p) PROVE CalmInv'
  <2>1. pc[p] = "wake" /\ UNCHANGED <<mover, orphan>>
    BY <1>7 DEF WakeArmsTimer
  <2>2. CASE timerLock # None
    <3>1. pc' = [pc EXCEPT ![p] = After(p, FALSE)] /\ timerLock' = timerLock
      BY <1>7, <2>2 DEF WakeArmsTimer
    <3>2. Awake(timerLock)'
      BY <2>1, <2>2, <3>1, TimerReturns
    <3>3. Attended'
      BY <2>2, <3>1, <3>2, AwakeNow
    <3> QED BY <2>1, <3>1, <3>2, <3>3
  <2>3. CASE timerLock = None
    <3>1. PICK t \in Timers : timerLock' = t /\ pc' = [pc EXCEPT ![p] = "idle", ![t] = "look"]
      BY <1>7, <2>3 DEF WakeArmsTimer
    <3>2. Awake(t)'
      BY <3>1
    <3>3. Attended'
      BY <3>2, AwakeNow
    <3> QED BY <2>1, <3>1, <3>2, <3>3
  <2> QED BY <2>2, <2>3
<1>8. ASSUME NEW p \in Procs, WakeSeesDue(p) PROVE CalmInv'
  BY <1>8 DEF WakeSeesDue, Present
<1>9. ASSUME NEW p \in Procs, LeaseBusy(p) PROVE CalmInv'
  <2>1. pc[p] = "lock" /\ pc' = [pc EXCEPT ![p] = After(p, TRUE)] /\ lease # None
    BY <1>9 DEF LeaseBusy
  <2>2. UNCHANGED <<mover, orphan, timerLock, lease>>
    BY <1>9 DEF LeaseBusy
  <2>3. timerLock # None => Awake(timerLock)'
    BY <2>1, <2>2, TimerReturns
  <2>4. lease \in Workers /\ pc[lease] \in Draining
    BY <2>1
  <2>5. pc'[lease] \in Draining
    BY <2>1, <2>4
  <2>6. Attended'
    BY <2>2, <2>4, <2>5, AwakeNow
  <2> QED BY <2>2, <2>3, <2>6
<1>10. ASSUME NEW p \in Procs, LeaseSpawns(p) PROVE CalmInv'
  <2>1. PICK w \in Workers : pc' = [pc EXCEPT ![p] = After(p, FALSE), ![w] = "start"]
    BY <1>10 DEF LeaseSpawns
  <2>2. UNCHANGED <<mover, orphan, timerLock>>
    BY <1>10 DEF LeaseSpawns
  <2>3. timerLock # None => timerLock # w /\ Awake(timerLock)'
    BY <2>1, <2>2, TimerReturns
  <2>4. Awake(w)'
    BY <2>1
  <2>5. Attended'
    BY <2>4, AwakeNow
  <2> QED BY <2>2, <2>3, <2>5
<1>11. ASSUME NEW w \in Workers, ContendTakes(w) PROVE CalmInv'
  BY <1>11 DEF ContendTakes, Present
<1>12. ASSUME NEW w \in Workers, ContendExpires(w) PROVE CalmInv'
  BY <1>12 DEF ContendExpires, Present
<1>13. ASSUME NEW w \in Workers, DrainResets(w) PROVE CalmInv'
  BY <1>13 DEF DrainResets, Present
<1>14. ASSUME NEW w \in Workers, DrainStops(w) PROVE CalmInv'
  BY <1>14 DEF DrainStops, Present
<1>15. ASSUME NEW w \in Workers, NEW x \in Wakes, Picks(w, x) PROVE CalmInv'
  BY <1>15 DEF Picks, Present
<1>16. ASSUME NEW w \in Workers, Claim(w) PROVE CalmInv'
  BY <1>16 DEF Claim, Present
<1>17. ASSUME NEW w \in Workers, Ack(w) PROVE CalmInv'
  BY <1>17 DEF Ack, Settled, Present
<1>18. ASSUME NEW w \in Workers, Retry(w) PROVE CalmInv'
  BY <1>18 DEF Retry, Settled, Present
<1>19. ASSUME NEW w \in Workers, DrainFails(w) PROVE CalmInv'
  BY <1>19 DEF DrainFails, Present
<1>20. ASSUME NEW t \in Timers, TimerLooks(t) PROVE CalmInv'
  BY <1>20 DEF TimerLooks, Present
<1>21. ASSUME NEW t \in Timers, TimerSleeps(t) PROVE CalmInv'
  BY <1>21 DEF TimerSleeps, Present
<1>22. ASSUME NEW t \in Timers, TimerReleases(t) PROVE CalmInv'
  BY <1>22 DEF TimerReleases, Present
<1> QED
  BY <1>1, <1>2, <1>3, <1>4, <1>5, <1>6, <1>7, <1>8, <1>9, <1>10, <1>11,
     <1>12, <1>13, <1>14, <1>15, <1>16, <1>17, <1>18, <1>19, <1>20, <1>21, <1>22
  DEF CalmNext, CallerStep, WorkerStep, TimerStep, WakeStep

\* Without crashes and movers no stored wake is ever left without a process on
\* its way back to it (_drain_and_rewake, _arm_timer, _after_timer).
THEOREM NeverUnattended == CalmSpec => []Attended
<1>1. Init => IInv /\ CalmInv
  BY InitIInv DEF Init, CalmInv, Attended, Present
<1>2. IInv /\ CalmInv /\ [CalmNext]_vars => IInv' /\ CalmInv'
  <2>1. CalmNext => Next
    BY DEF Next
  <2>2. CalmInv /\ UNCHANGED vars => CalmInv'
    BY DEF CalmInv, Attended, Awake, Present, vars, queueVars, moveVars, faultVars
  <2> QED BY <2>1, <2>2, StepIInv, CalmStep
<1>3. CalmInv => Attended
  BY DEF CalmInv
<1> QED BY <1>1, <1>2, <1>3, PTL DEF CalmSpec

\* A step without a crash or a mover counts neither.
LEMMA CalmCounts ==
    ASSUME TypeOK, CalmNext
    PROVE  moves' = moves /\ (faults' = 0 => faults = 0)
<1> USE DEF moveVars, faultVars
<1>1. ASSUME NEW p \in Procs, WakeStep(p) PROVE moves' = moves /\ faults' = faults
  BY <1>1 DEF WakeStep, WakeFindsNothing, WakeArmsTimer, WakeSeesDue, LeaseBusy, LeaseSpawns
<1>2. ASSUME NEW x \in Wakes, FallsDue(x) PROVE moves' = moves /\ faults' = faults
  BY <1>2 DEF FallsDue
<1>3. ASSUME NEW c \in Callers, NEW x \in Wakes, NEW pull \in BOOLEAN, Request(c, x, pull)
      PROVE  moves' = moves /\ faults' = faults
  BY <1>3 DEF Request
<1>4. ASSUME NEW c \in Callers, HookWake(c) \/ Handoff(c) PROVE moves' = moves /\ faults' = faults
  BY <1>4 DEF HookWake, Handoff
<1>5. ASSUME NEW w \in Workers, NEW x \in Wakes, NEW pull \in BOOLEAN, RequestInside(w, x, pull)
      PROVE  moves' = moves /\ faults' = faults
  BY <1>5 DEF RequestInside
<1>6. ASSUME NEW w \in Workers, NEW x \in Wakes, Picks(w, x) PROVE moves' = moves /\ faults' = faults
  BY <1>6 DEF Picks
<1>7. ASSUME NEW w \in Workers, ContendTakes(w) \/ ContendExpires(w) \/ DrainResets(w) \/ DrainStops(w)
      PROVE  moves' = moves /\ faults' = faults
  BY <1>7 DEF ContendTakes, ContendExpires, DrainResets, DrainStops
<1>8. ASSUME NEW w \in Workers, Claim(w) \/ Ack(w) \/ Retry(w) PROVE moves' = moves /\ faults' = faults
  BY <1>8 DEF Claim, Ack, Retry
<1>9. ASSUME NEW w \in Workers, DrainFails(w) PROVE moves' = moves /\ faults' # 0
  <2>1. faults \in Nat
    BY RuntimeAssumption DEF TypeOK
  <2>2. faults' = faults + 1 /\ moves' = moves
    BY <1>9 DEF DrainFails
  <2> QED BY <2>1, <2>2
<1>10. ASSUME NEW t \in Timers, TimerLooks(t) \/ TimerSleeps(t) \/ TimerReleases(t)
       PROVE  moves' = moves /\ faults' = faults
  BY <1>10 DEF TimerLooks, TimerSleeps, TimerReleases
<1> QED
  BY <1>1, <1>2, <1>3, <1>4, <1>5, <1>6, <1>7, <1>8, <1>9, <1>10
  DEF CalmNext, CallerStep, WorkerStep, TimerStep, Procs

\* The same of every run up to its first crash, error or mover.
THEOREM UnattendedOnlyDisturbed == Spec => []AttendedUndisturbed
<1> DEFINE Undisturbed == faults = 0 /\ moves = 0 => CalmInv
<1>1. Init => IInv /\ Undisturbed
  BY InitIInv DEF Init, CalmInv, Attended, Present
<1>2. IInv /\ Undisturbed /\ [Next]_vars => IInv' /\ Undisturbed'
  <2> SUFFICES ASSUME IInv, Undisturbed, [Next]_vars, faults' = 0, moves' = 0
               PROVE  CalmInv'
    BY StepIInv
  <2>1. faults \in Nat /\ moves \in Nat
    BY RuntimeAssumption DEF IInv, TypeInv, TypeOK
  <2>2. CASE CalmNext
    <3>1. faults = 0 /\ moves = 0
      BY <2>2, CalmCounts DEF IInv, TypeInv
    <3> QED BY <2>2, <3>1, CalmStep
  <2>3. CASE UNCHANGED vars
    BY <2>3 DEF CalmInv, Attended, Awake, Present, vars, queueVars, moveVars, faultVars
  <2>4. CASE YieldExpires
    BY <2>4 DEF YieldExpires, CalmInv, Attended, Awake, Present, queueVars, faultVars
  <2>5. CASE MoverStep
    <3>1. ~MoverAsks
      BY <2>1 DEF MoverAsks
    <3>2. mover # "idle" /\ faults = 0 /\ moves = 0
      BY <2>5, <3>1 DEF MoverStep, MoverTakesHandoff, MoverTakesLease, MoverGivesUp, MoverDone, MoverCloses, faultVars
    <3> QED BY <3>2 DEF CalmInv
  <2>6. CASE Fault
    <3>1. Faulty
      BY <2>6 DEF Fault, WorkerDies, CallerDies, TimerDies, MoverDies
    <3> QED BY <2>1, <3>1 DEF Faulty
  <2>7. CASE OrphanEnds
    <3>1. lease = Child /\ faults = 0 /\ moves = 0
      BY <2>7 DEF OrphanEnds, moveVars
    <3> QED BY <3>1 DEF CalmInv, IInv, LeaseInv
  <2> QED BY <2>2, <2>3, <2>4, <2>5, <2>6, <2>7 DEF Next
<1>3. IInv /\ Undisturbed => AttendedUndisturbed
  BY DEF CalmInv, AttendedUndisturbed
<1> QED BY <1>1, <1>2, <1>3, PTL DEF Spec
=============================================================================
