--------------------------- MODULE WakeRefinement ---------------------------
(* WakeRuntime implements WakeContract: the proof, for any set of wakes,   *)
(* processes, crashes and moves.                                            *)
EXTENDS WakeRuntimeProofs

\* While a worker runs a handler that claim is the only one being served.
LEMMA RunningNow ==
    ASSUME TypeInv, LeaseInv, ClaimInv, NEW w \in Workers, pc[w] = "run"
    PROVE  RunningClaims = {claim[w]} /\ Serving = claim[w].wake /\ claim[w].wake \in Wakes
<1>1. orphan = NoClaim
  BY RuntimeAssumption DEF LeaseInv, Draining
<1>2. \A v \in Workers : pc[v] = "run" => v = w
  BY DEF LeaseInv, Draining
<1>3. RunningClaims = {claim[w]}
  BY <1>1, <1>2 DEF RunningClaims
<1> QED BY <1>3 DEF Serving, ClaimInv

\* So is the claim of an orphaned Laya child.
LEMMA RunningOrphan ==
    ASSUME TypeInv, LeaseInv, ClaimInv, orphan # NoClaim
    PROVE  RunningClaims = {orphan} /\ Serving = orphan.wake /\ orphan.wake \in Wakes
<1>1. \A v \in Workers : pc[v] # "run"
  BY RuntimeAssumption DEF LeaseInv, Draining
<1>2. RunningClaims = {orphan}
  BY <1>1 DEF RunningClaims
<1> QED BY <1>2 DEF Serving, ClaimInv

\* With neither, every stored row is owed.
LEMMA RunningNone ==
    ASSUME orphan = NoClaim, \A w \in Workers : pc[w] # "run"
    PROVE  RunningClaims = {} /\ Serving = None /\ Owed = Present
  BY DEF RunningClaims, Serving, Owed

\* A step that starts or ends no handler, adds or removes no row and changes no
\* revision is invisible to the contract.
LEMMA Invisible ==
    ASSUME \A w \in Workers : /\ pc'[w] = "run" <=> pc[w] = "run"
                              /\ pc[w] = "run" => claim'[w] = claim[w],
           orphan' = orphan, rev' = rev,
           \A x \in Wakes : status'[x] = "absent" <=> status[x] = "absent"
    PROVE  UNCHANGED <<Owed, Serving>>
<1>1. RunningClaims' = RunningClaims
  BY DEF RunningClaims
<1>2. Present' = Present
  BY DEF Present
<1> QED BY <1>1, <1>2 DEF Owed, Serving

\* offer: the new revision is nobody's claim, so the row is owed again even while
\* an older revision of it is being dispatched.
LEMMA RequestMaps ==
    ASSUME TypeInv, LeaseInv, ClaimInv, NEW x \in Wakes, NEW pull \in BOOLEAN, Offer(x, pull),
           \A w \in Workers : pc'[w] = "run" <=> pc[w] = "run",
           UNCHANGED <<claim, orphan>>
    PROVE  Contract!Request(x)
<1>1. RunningClaims' = RunningClaims
  BY DEF RunningClaims
<1>2. Present' = Present \cup {x}
  BY DEF Offer, Present, TypeInv, TypeOK, TableType
<1>3. \A k \in RunningClaims : k.rev <= revision
  BY DEF RunningClaims, ClaimInv
<1>4. revision' = revision + 1 /\ rev' = [rev EXCEPT ![x] = revision + 1]
  BY DEF Offer
<1>5. [wake |-> x, rev |-> rev'[x]] \notin RunningClaims
  BY <1>3, <1>4, RuntimeAssumption DEF TypeInv, TypeOK, TableType
<1>6. Owed' = Owed \cup {x}
  BY <1>1, <1>2, <1>4, <1>5 DEF Owed, TypeInv, TypeOK, TableType, Present
<1>7. Serving' = Serving
  BY <1>1 DEF Serving
<1> QED BY <1>6, <1>7 DEF Contract!Request

\* A handler that ends without an acknowledgement leaves its row owed again.
LEMMA FailMaps ==
    ASSUME NEW k, k.wake \in Present, k.wake \in Wakes, RunningClaims = {k}, Serving = k.wake,
           orphan' = NoClaim, \A w \in Workers : pc'[w] # "run", Present' = Present
    PROVE  Contract!Fail
<1>1. RunningClaims' = {}
  BY DEF RunningClaims
<1>2. Serving' = None /\ Owed' = Present
  BY <1>1 DEF Serving, Owed
<1>3. \A x \in Present : x # k.wake => [wake |-> x, rev |-> rev[x]] # k
  OBVIOUS
<1>4. Owed \cup {k.wake} = Present
  BY <1>3 DEF Owed
<1> QED BY <1>2, <1>4, RuntimeAssumption DEF Contract!Fail

\* Every step is one step of the contract or invisible to it.
LEMMA StepMaps == TypeInv /\ LeaseInv /\ ClaimInv /\ Next => Contract!Next \/ UNCHANGED <<Owed, Serving>>
<1> DEFINE Maps == Contract!Next \/ UNCHANGED <<Owed, Serving>>
<1> SUFFICES ASSUME TypeInv, LeaseInv, ClaimInv, Next PROVE Maps
  OBVIOUS
<1> USE RuntimeAssumption DEF queueVars, workVars, moveVars, faultVars
<1>1. ASSUME NEW x \in Wakes, FallsDue(x) PROVE Maps
  BY <1>1, Invisible DEF FallsDue
<1>2. ASSUME NEW c \in Callers, NEW x \in Wakes, NEW pull \in BOOLEAN, Request(c, x, pull) PROVE Maps
  <2>1. \A w \in Workers : pc'[w] = "run" <=> pc[w] = "run"
    BY <1>2 DEF Request, TypeInv, TypeOK, PcType, Procs
  <2> QED BY <1>2, <2>1, RequestMaps DEF Request, Contract!Next
<1>3. ASSUME NEW w \in Workers, NEW x \in Wakes, NEW pull \in BOOLEAN, RequestInside(w, x, pull) PROVE Maps
  <2> QED BY <1>3, RequestMaps DEF RequestInside, Contract!Next
<1>4. ASSUME NEW c \in Callers, HookWake(c) PROVE Maps
  <2>1. \A v \in Workers : /\ pc'[v] = "run" <=> pc[v] = "run"
                           /\ pc[v] = "run" => claim'[v] = claim[v]
    BY <1>4 DEF HookWake, TypeInv, TypeOK, PcType, Procs
  <2>2. \A x \in Wakes : status'[x] = "absent" <=> status[x] = "absent"
    BY <1>4 DEF HookWake
  <2>3. UNCHANGED <<orphan, rev>>
    BY <1>4 DEF HookWake
  <2> QED BY <2>1, <2>2, <2>3, Invisible
<1>5. ASSUME NEW c \in Callers, Handoff(c) PROVE Maps
  <2>1. \A v \in Workers : /\ pc'[v] = "run" <=> pc[v] = "run"
                           /\ pc[v] = "run" => claim'[v] = claim[v]
    BY <1>5 DEF Handoff, TypeInv, TypeOK, PcType, Procs
  <2>2. \A x \in Wakes : status'[x] = "absent" <=> status[x] = "absent"
    BY <1>5 DEF Handoff
  <2>3. UNCHANGED <<orphan, rev>>
    BY <1>5 DEF Handoff
  <2> QED BY <2>1, <2>2, <2>3, Invisible
<1>6. ASSUME NEW p \in Procs, WakeFindsNothing(p) PROVE Maps
  <2>1. \A v \in Workers : /\ pc'[v] = "run" <=> pc[v] = "run"
                           /\ pc[v] = "run" => claim'[v] = claim[v]
    BY <1>6, AfterType DEF WakeFindsNothing, TypeInv, TypeOK, PcType, Procs
  <2>2. \A x \in Wakes : status'[x] = "absent" <=> status[x] = "absent"
    BY <1>6 DEF WakeFindsNothing
  <2>3. UNCHANGED <<orphan, rev>>
    BY <1>6 DEF WakeFindsNothing
  <2> QED BY <2>1, <2>2, <2>3, Invisible
<1>7. ASSUME NEW p \in Procs, WakeArmsTimer(p) PROVE Maps
  <2>1. \A v \in Workers : pc'[v] = "run" <=> pc[v] = "run"
    <3>1. CASE timerLock # None
      <4>1. pc' = [pc EXCEPT ![p] = After(p, FALSE)]
        BY <1>7, <3>1 DEF WakeArmsTimer
      <4>2. pc[p] = "wake"
        BY <1>7 DEF WakeArmsTimer
      <4>3. p \in Workers => After(p, FALSE) = "idle"
        BY AfterType DEF TypeInv, TypeOK
      <4> QED BY <4>1, <4>2, <4>3 DEF TypeInv, TypeOK, PcType, Procs
    <3>2. CASE timerLock = None
      BY <1>7, <3>2 DEF WakeArmsTimer, TypeInv, TypeOK, PcType, Procs
    <3> QED BY <3>1, <3>2
  <2> QED BY <1>7, <2>1, Invisible DEF WakeArmsTimer
<1>8. ASSUME NEW p \in Procs, WakeSeesDue(p) PROVE Maps
  <2>1. \A v \in Workers : /\ pc'[v] = "run" <=> pc[v] = "run"
                           /\ pc[v] = "run" => claim'[v] = claim[v]
    BY <1>8 DEF WakeSeesDue, TypeInv, TypeOK, PcType, Procs
  <2>2. \A x \in Wakes : status'[x] = "absent" <=> status[x] = "absent"
    BY <1>8 DEF WakeSeesDue
  <2>3. UNCHANGED <<orphan, rev>>
    BY <1>8 DEF WakeSeesDue
  <2> QED BY <2>1, <2>2, <2>3, Invisible
<1>9. ASSUME NEW p \in Procs, LeaseBusy(p) PROVE Maps
  <2>1. \A v \in Workers : /\ pc'[v] = "run" <=> pc[v] = "run"
                           /\ pc[v] = "run" => claim'[v] = claim[v]
    BY <1>9, AfterType DEF LeaseBusy, TypeInv, TypeOK, PcType, Procs
  <2>2. \A x \in Wakes : status'[x] = "absent" <=> status[x] = "absent"
    BY <1>9 DEF LeaseBusy
  <2>3. UNCHANGED <<orphan, rev>>
    BY <1>9 DEF LeaseBusy
  <2> QED BY <2>1, <2>2, <2>3, Invisible
<1>10. ASSUME NEW p \in Procs, LeaseSpawns(p) PROVE Maps
  <2>1. PICK w \in Workers :
          /\ pc[w] = "idle" \/ w = p
          /\ pc' = [pc EXCEPT ![p] = After(p, FALSE), ![w] = "start"]
    BY <1>10 DEF LeaseSpawns
  <2>2. \A v \in Workers : pc'[v] = IF v = w THEN "start" ELSE IF v = p THEN "idle" ELSE pc[v]
    BY <2>1, AfterType DEF TypeInv, TypeOK, PcType, Procs
  <2>3. \A v \in Workers : pc'[v] = "run" <=> pc[v] = "run"
    <3>1. pc[p] = "lock"
      BY <1>10 DEF LeaseSpawns
    <3>2. pc[w] # "run"
      BY <2>1, <3>1
    <3> QED BY <2>2, <3>1, <3>2
  <2>4. UNCHANGED <<status, claim, orphan, rev>>
    BY <1>10 DEF LeaseSpawns
  <2> QED BY <2>3, <2>4, Invisible
<1>11. ASSUME NEW w \in Workers, ContendTakes(w) PROVE Maps
  <2>1. \A v \in Workers : /\ pc'[v] = "run" <=> pc[v] = "run"
                           /\ pc[v] = "run" => claim'[v] = claim[v]
    BY <1>11 DEF ContendTakes, TypeInv, TypeOK, PcType, Procs
  <2>2. \A x \in Wakes : status'[x] = "absent" <=> status[x] = "absent"
    BY <1>11 DEF ContendTakes
  <2>3. UNCHANGED <<orphan, rev>>
    BY <1>11 DEF ContendTakes
  <2> QED BY <2>1, <2>2, <2>3, Invisible
<1>12. ASSUME NEW w \in Workers, ContendExpires(w) PROVE Maps
  <2>1. \A v \in Workers : /\ pc'[v] = "run" <=> pc[v] = "run"
                           /\ pc[v] = "run" => claim'[v] = claim[v]
    BY <1>12 DEF ContendExpires, TypeInv, TypeOK, PcType, Procs
  <2>2. \A x \in Wakes : status'[x] = "absent" <=> status[x] = "absent"
    BY <1>12 DEF ContendExpires
  <2>3. UNCHANGED <<orphan, rev>>
    BY <1>12 DEF ContendExpires
  <2> QED BY <2>1, <2>2, <2>3, Invisible
<1>13. ASSUME NEW w \in Workers, DrainResets(w) PROVE Maps
  <2>1. \A v \in Workers : /\ pc'[v] = "run" <=> pc[v] = "run"
                           /\ pc[v] = "run" => claim'[v] = claim[v]
    BY <1>13 DEF DrainResets, TypeInv, TypeOK, PcType, Procs
  <2>2. \A x \in Wakes : status'[x] = "absent" <=> status[x] = "absent"
    BY <1>13 DEF DrainResets
  <2>3. UNCHANGED <<orphan, rev>>
    BY <1>13 DEF DrainResets
  <2> QED BY <2>1, <2>2, <2>3, Invisible
<1>14. ASSUME NEW w \in Workers, DrainStops(w) PROVE Maps
  <2>1. \A v \in Workers : /\ pc'[v] = "run" <=> pc[v] = "run"
                           /\ pc[v] = "run" => claim'[v] = claim[v]
    BY <1>14 DEF DrainStops, TypeInv, TypeOK, PcType, Procs
  <2>2. \A x \in Wakes : status'[x] = "absent" <=> status[x] = "absent"
    BY <1>14 DEF DrainStops
  <2>3. UNCHANGED <<orphan, rev>>
    BY <1>14 DEF DrainStops
  <2> QED BY <2>1, <2>2, <2>3, Invisible
<1>15. ASSUME NEW w \in Workers, NEW x \in Wakes, Picks(w, x) PROVE Maps
  <2>1. \A v \in Workers : /\ pc'[v] = "run" <=> pc[v] = "run"
                           /\ pc[v] = "run" => claim'[v] = claim[v]
    <3>1. pc[w] = "loop" /\ pc' = [pc EXCEPT ![w] = "claim"]
      BY <1>15 DEF Picks
    <3>2. claim' = [claim EXCEPT ![w] = [wake |-> x, rev |-> rev[x]]]
      BY <1>15 DEF Picks
    <3> QED BY <3>1, <3>2 DEF TypeInv, TypeOK, PcType, Procs
  <2>2. \A y \in Wakes : status'[y] = "absent" <=> status[y] = "absent"
    BY <1>15 DEF Picks
  <2>3. UNCHANGED <<orphan, rev>>
    BY <1>15 DEF Picks
  <2> QED BY <2>1, <2>2, <2>3, Invisible
<1>16. ASSUME NEW w \in Workers, Claim(w) PROVE Maps
  <2> DEFINE x == claim[w].wake
  <2>1. CASE status[x] = "pending" /\ rev[x] = claim[w].rev
    <3>1. pc[w] = "claim" /\ x \in Wakes /\ claim[w] = [wake |-> x, rev |-> rev[x]]
      BY <1>16, <2>1 DEF Claim, ClaimInv, TypeInv, TypeOK, ClaimSet
    <3>2. orphan = NoClaim /\ \A v \in Workers : pc[v] # "run"
      BY <3>1 DEF LeaseInv, Draining
    <3>3. Serving = None /\ Owed = Present /\ x \in Present
      BY <2>1, <3>1, <3>2, RunningNone DEF Present
    <3>4. UNCHANGED <<claim, orphan, rev>> /\ pc' = [pc EXCEPT ![w] = "run"] /\ Present' = Present
      BY <1>16, <2>1, <3>1 DEF Claim, Present, TypeInv, TypeOK, TableType
    <3>5. RunningClaims' = {claim[w]}
      BY <3>2, <3>4 DEF RunningClaims, TypeInv, TypeOK, PcType, Procs
    <3>6. Serving' = x
      BY <3>4, <3>5 DEF Serving
    <3>7. Owed' = Owed \ {x}
      BY <3>1, <3>3, <3>4, <3>5 DEF Owed
    <3> QED BY <3>1, <3>3, <3>6, <3>7 DEF Contract!Next, Contract!Start
  <2>2. CASE ~(status[x] = "pending" /\ rev[x] = claim[w].rev)
    <3>1. \A v \in Workers : /\ pc'[v] = "run" <=> pc[v] = "run"
                             /\ pc[v] = "run" => claim'[v] = claim[v]
      <4>1. pc[w] = "claim" /\ pc' = [pc EXCEPT ![w] = "loop"] /\ claim' = [claim EXCEPT ![w] = NoClaim]
        BY <1>16, <2>2 DEF Claim
      <4> QED BY <4>1 DEF TypeInv, TypeOK, PcType, Procs
    <3>2. UNCHANGED <<status, orphan, rev>>
      BY <1>16, <2>2 DEF Claim
    <3> QED BY <3>1, <3>2, Invisible
  <2> QED BY <2>1, <2>2
<1>17. ASSUME NEW w \in Workers, Ack(w) PROVE Maps
  <2> DEFINE x == claim[w].wake
  <2>1. x \in Wakes /\ status[x] = "running" /\ Serving = x /\ RunningClaims = {claim[w]}
    BY <1>17, RunningNow DEF Ack, Settled, ClaimInv
  <2>2. orphan' = NoClaim /\ \A v \in Workers : pc'[v] # "run"
    BY <1>17 DEF Ack, Settled, LeaseInv, Draining, TypeInv, TypeOK, PcType, Procs
  <2>3. Serving' = None /\ Owed' = Present'
    <3>1. RunningClaims' = {}
      BY <2>2 DEF RunningClaims
    <3> QED BY <3>1 DEF Serving, Owed
  <2>4. Present' = IF rev[x] = claim[w].rev THEN Present \ {x} ELSE Present
    BY <1>17, <2>1 DEF Ack, Present, TypeInv, TypeOK, TableType
  <2>5. Owed = IF rev[x] = claim[w].rev THEN Present \ {x} ELSE Present
    BY <2>1 DEF Owed, TypeInv, TypeOK, ClaimSet
  <2> QED BY <2>1, <2>3, <2>4, <2>5 DEF Contract!Next, Contract!Finish
<1>18. ASSUME NEW w \in Workers, Retry(w) PROVE Maps
  <2> DEFINE x == claim[w].wake
  <2>1. x \in Wakes /\ status[x] = "running" /\ Serving = x /\ RunningClaims = {claim[w]}
    BY <1>18, RunningNow DEF Retry, Settled, ClaimInv
  <2>2. orphan' = NoClaim /\ \A v \in Workers : pc'[v] # "run"
    BY <1>18 DEF Retry, Settled, LeaseInv, Draining, TypeInv, TypeOK, PcType, Procs
  <2>3. Present' = Present /\ x \in Present
    BY <1>18, <2>1 DEF Retry, Present, TypeInv, TypeOK, TableType
  <2> QED BY <2>1, <2>2, <2>3, FailMaps DEF Contract!Next
<1>19. ASSUME NEW w \in Workers, DrainFails(w) PROVE Maps
  <2>1. pc' = [pc EXCEPT ![w] = "wake"] /\ claim' = [claim EXCEPT ![w] = NoClaim]
    BY <1>19 DEF DrainFails
  <2>2. UNCHANGED <<status, orphan, rev>> /\ Present' = Present
    BY <1>19 DEF DrainFails, Present
  <2>3. CASE pc[w] # "run"
    <3>1. \A v \in Workers : /\ pc'[v] = "run" <=> pc[v] = "run"
                             /\ pc[v] = "run" => claim'[v] = claim[v]
      BY <2>1, <2>3 DEF TypeInv, TypeOK, PcType, Procs
    <3> QED BY <2>2, <3>1, Invisible
  <2>4. CASE pc[w] = "run"
    <3> DEFINE x == claim[w].wake
    <3>1. x \in Wakes /\ status[x] = "running" /\ Serving = x /\ RunningClaims = {claim[w]}
      BY <2>4, RunningNow DEF ClaimInv
    <3>2. orphan' = NoClaim /\ \A v \in Workers : pc'[v] # "run"
      BY <2>1, <2>2, <2>4 DEF LeaseInv, Draining, TypeInv, TypeOK, PcType, Procs
    <3>3. x \in Present
      BY <3>1 DEF Present
    <3> QED BY <2>2, <3>1, <3>2, <3>3, FailMaps DEF Contract!Next
  <2> QED BY <2>3, <2>4
<1>20. ASSUME NEW t \in Timers, TimerLooks(t) PROVE Maps
  <2>1. \A v \in Workers : /\ pc'[v] = "run" <=> pc[v] = "run"
                           /\ pc[v] = "run" => claim'[v] = claim[v]
    BY <1>20 DEF TimerLooks, TypeInv, TypeOK, PcType, Procs
  <2>2. \A x \in Wakes : status'[x] = "absent" <=> status[x] = "absent"
    BY <1>20 DEF TimerLooks
  <2>3. UNCHANGED <<orphan, rev>>
    BY <1>20 DEF TimerLooks
  <2> QED BY <2>1, <2>2, <2>3, Invisible
<1>21. ASSUME NEW t \in Timers, TimerSleeps(t) PROVE Maps
  <2>1. \A v \in Workers : /\ pc'[v] = "run" <=> pc[v] = "run"
                           /\ pc[v] = "run" => claim'[v] = claim[v]
    BY <1>21 DEF TimerSleeps, TypeInv, TypeOK, PcType, Procs
  <2>2. \A x \in Wakes : status'[x] = "absent" <=> status[x] = "absent"
    BY <1>21 DEF TimerSleeps
  <2>3. UNCHANGED <<orphan, rev>>
    BY <1>21 DEF TimerSleeps
  <2> QED BY <2>1, <2>2, <2>3, Invisible
<1>22. ASSUME NEW t \in Timers, TimerReleases(t) PROVE Maps
  <2>1. \A v \in Workers : /\ pc'[v] = "run" <=> pc[v] = "run"
                           /\ pc[v] = "run" => claim'[v] = claim[v]
    BY <1>22 DEF TimerReleases, TypeInv, TypeOK, PcType, Procs
  <2>2. \A x \in Wakes : status'[x] = "absent" <=> status[x] = "absent"
    BY <1>22 DEF TimerReleases
  <2>3. UNCHANGED <<orphan, rev>>
    BY <1>22 DEF TimerReleases
  <2> QED BY <2>1, <2>2, <2>3, Invisible
<1>23. ASSUME MoverAsks PROVE Maps
  BY <1>23, Invisible DEF MoverAsks
<1>24. ASSUME MoverTakesHandoff PROVE Maps
  BY <1>24, Invisible DEF MoverTakesHandoff
<1>25. ASSUME MoverTakesLease PROVE Maps
  BY <1>25, Invisible DEF MoverTakesLease
<1>26. ASSUME MoverGivesUp PROVE Maps
  BY <1>26, Invisible DEF MoverGivesUp, MoverCloses
<1>27. ASSUME MoverDone PROVE Maps
  BY <1>27, Invisible DEF MoverDone, MoverCloses
<1>28. ASSUME YieldExpires PROVE Maps
  BY <1>28, Invisible DEF YieldExpires
<1>29. ASSUME NEW w \in Workers, WorkerDies(w) PROVE Maps
  <2>1. Present' = Present /\ rev' = rev /\ status' = status
    BY <1>29 DEF WorkerDies, Present
  <2>2. CASE pc[w] # "run"
    <3>1. \A v \in Workers : /\ pc'[v] = "run" <=> pc[v] = "run"
                             /\ pc[v] = "run" => claim'[v] = claim[v]
      <4>1. pc' = [pc EXCEPT ![w] = "idle"] /\ claim' = [claim EXCEPT ![w] = NoClaim]
        BY <1>29 DEF WorkerDies
      <4> QED BY <2>2, <4>1 DEF TypeInv, TypeOK, PcType, Procs
    <3>2. orphan' = orphan
      BY <1>29, <2>2 DEF WorkerDies
    <3> QED BY <2>1, <3>1, <3>2, Invisible
  <2>3. CASE pc[w] = "run"
    <3>1. /\ claim[w].wake \in Wakes /\ status[claim[w].wake] = "running"
          /\ Serving = claim[w].wake /\ RunningClaims = {claim[w]}
      BY <2>3, RunningNow DEF ClaimInv
    <3>2. /\ \A v \in Workers : pc'[v] # "run"
          /\ orphan' = IF claim[w].wake \in Laya THEN claim[w] ELSE NoClaim
      BY <1>29, <2>3 DEF WorkerDies, LeaseInv, Draining, TypeInv, TypeOK, PcType, Procs
    <3>3. CASE claim[w].wake \in Laya
      <4>1. RunningClaims' = RunningClaims
        BY <3>1, <3>2, <3>3 DEF RunningClaims, NoClaim
      <4> QED BY <2>1, <4>1 DEF Owed, Serving
    <3>4. CASE claim[w].wake \notin Laya
      BY <2>1, <3>1, <3>2, <3>4, FailMaps DEF Contract!Next, Present
    <3> QED BY <3>3, <3>4
  <2> QED BY <2>2, <2>3
<1>30. ASSUME NEW c \in Callers, CallerDies(c) PROVE Maps
  <2>1. \A v \in Workers : /\ pc'[v] = "run" <=> pc[v] = "run"
                           /\ pc[v] = "run" => claim'[v] = claim[v]
    BY <1>30 DEF CallerDies, Faulty, TypeInv, TypeOK, PcType, Procs
  <2>2. \A x \in Wakes : status'[x] = "absent" <=> status[x] = "absent"
    BY <1>30 DEF CallerDies
  <2>3. UNCHANGED <<orphan, rev>>
    BY <1>30 DEF CallerDies
  <2> QED BY <2>1, <2>2, <2>3, Invisible
<1>31. ASSUME NEW t \in Timers, TimerDies(t) PROVE Maps
  <2>1. \A v \in Workers : /\ pc'[v] = "run" <=> pc[v] = "run"
                           /\ pc[v] = "run" => claim'[v] = claim[v]
    BY <1>31 DEF TimerDies, Faulty, TypeInv, TypeOK, PcType, Procs
  <2>2. \A x \in Wakes : status'[x] = "absent" <=> status[x] = "absent"
    BY <1>31 DEF TimerDies
  <2>3. UNCHANGED <<orphan, rev>>
    BY <1>31 DEF TimerDies
  <2> QED BY <2>1, <2>2, <2>3, Invisible
<1>32. ASSUME MoverDies PROVE Maps
  BY <1>32, Invisible DEF MoverDies, MoverCloses, Faulty
<1>33. ASSUME OrphanEnds PROVE Maps
  <2>1. /\ orphan.wake \in Wakes /\ status[orphan.wake] = "running"
        /\ Serving = orphan.wake /\ RunningClaims = {orphan}
    BY <1>33, RunningOrphan DEF OrphanEnds, ClaimInv, LeaseInv
  <2>2. orphan' = NoClaim /\ \A v \in Workers : pc'[v] # "run"
    BY <1>33 DEF OrphanEnds, LeaseInv, Draining
  <2>3. Present' = Present /\ orphan.wake \in Present
    BY <1>33, <2>1 DEF OrphanEnds, Present
  <2> QED BY <2>1, <2>2, <2>3, FailMaps DEF Contract!Next
<1>34. QED
  BY <1>1, <1>2, <1>3, <1>4, <1>5, <1>6, <1>7, <1>8, <1>9, <1>10, <1>11,
     <1>12, <1>13, <1>14, <1>15, <1>16, <1>17, <1>18, <1>19, <1>20, <1>21, <1>22,
     <1>23, <1>24, <1>25, <1>26, <1>27, <1>28, <1>29, <1>30, <1>31, <1>32, <1>33
  DEF Next, CalmNext, MoverStep, Fault, CallerStep, WorkerStep, TimerStep, WakeStep, Procs

\* The queue, its workers, timers, contenders, movers and crashes implement the
\* contract: a requested wake is owed until a dispatch begun after the request
\* finished it (the version-matched ACK of drain).
THEOREM Refines == Spec => ContractSpec
<1>1. Init => Contract!Init
  BY RunningNone DEF Init, Procs, Contract!Init, Present
<1>2. IInv /\ [Next]_vars => [Contract!Next]_<<Owed, Serving>>
  <2>1. UNCHANGED vars => UNCHANGED <<Owed, Serving>>
    BY DEF vars, queueVars, workVars, faultVars, Owed, Serving, Present, RunningClaims
  <2> QED BY <2>1, StepMaps DEF IInv
<1> QED BY <1>1, <1>2, Inductive, PTL DEF Spec, ContractSpec, Contract!Spec, Contract!vars
=============================================================================
