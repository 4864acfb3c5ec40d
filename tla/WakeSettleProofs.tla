-------------------------- MODULE WakeSettleProofs --------------------------
(***************************************************************************)
(* What WakeSettle promises of one wake's retry history, for every value   *)
(* of the delays, caps and bounds.                                         *)
(***************************************************************************)
EXTENDS WakeSettle, TLAPS

\* A row is never dispatched unless it is stored.
PlaceInv ==
    /\ at \in {"idle", "run", "ended", "filed"}
    /\ at # "idle" => stored
    /\ crashes \in Nat
    /\ at = "ended" => outcome \in Outcomes

\* The failure a dispatch still has to write to the row.
Unwritten == IF (at = "ended" /\ outcome = "failed") \/ (at = "filed" /\ step.count = 1) THEN 1 ELSE 0

\* The row counts no failure that did not happen, and stays below the cap.
CapInv ==
    /\ attempts \in Nat /\ failures \in Nat
    /\ attempts + 1 <= RetryCap /\ attempts + Unwritten <= failures
    /\ at = "filed" => /\ step.count \in {0, 1} /\ step.ack \in BOOLEAN
                       /\ step.drop = "retry_cap" => failures >= RetryCap
                       /\ ~step.ack => attempts + step.count + 1 <= RetryCap

\* A drop is an acknowledgement due at once.
DropInv == at = "filed" /\ step.drop # "none" => step.ack /\ step.wait = 0

\* The preparing file knows of every report made in the current streak.
StallInv ==
    /\ preparing \in [age : Nat, seen : Nat, reported : BOOLEAN]
    /\ unready \in [age : Nat, seen : Nat, reported : BOOLEAN]
    /\ unready.reported => preparing.reported
    /\ at = "ended" /\ outcome # "preparing" => ~unready.reported

HistoryInv == PlaceInv /\ CapInv /\ DropInv /\ StallInv

-----------------------------------------------------------------------------
(* Lemmas *)

\* An answer of settle is an acknowledgement without a failure, or with the
\* last one allowed, or a retry that counts at most one.
LEMMA SettleAnswers ==
    ASSUME HistoryInv, at = "ended"
    PROVE  /\ Settle.count \in {0, 1} /\ Settle.ack \in BOOLEAN /\ Settle.stalled \in BOOLEAN
           /\ Settle.count = 1 => outcome = "failed"
           /\ Settle.drop = "retry_cap" => outcome = "failed" /\ attempts + 1 >= RetryCap
           /\ ~Settle.ack => attempts + Settle.count + 1 <= RetryCap
           /\ Settle.drop # "none" => Settle.ack /\ Settle.wait = 0
           /\ Settle.stalled => outcome = "preparing" /\ ~preparing.reported
           /\ Settle.drop = "target_missing" =>
                outcome = "missing" /\ missing.seen >= DropSightings /\ missing.age >= DropAfter
<1> USE SettleAssumption DEF HistoryInv, PlaceInv, CapInv, StallInv, Acked, Backoff
<1>1. CASE outcome = "done"
  <2>1. Settle = Acked BY <1>1 DEF Settle
  <2> QED BY <2>1
<1>2. CASE outcome = "preparing"
  <2>1. Settle = SettlePreparing BY <1>2 DEF Settle
  <2>2. /\ Settle.count = 0 /\ Settle.ack = FALSE /\ Settle.drop = "none"
        /\ Settle.stalled = (~(preparing.age < StallAfter) /\ ~preparing.reported)
    <3>1. CASE preparing.age < StallAfter BY <2>1, <3>1 DEF SettlePreparing
    <3>2. CASE ~(preparing.age < StallAfter)
      <4> HIDE SettleAssumption
      <4> QED BY <2>1, <3>2 DEF SettlePreparing
    <3> QED BY <3>1, <3>2
  <2>3. Settle.stalled \in BOOLEAN /\ (Settle.stalled => ~preparing.reported)
    BY <2>2, Zenon
  <2>4. Settle.count = 0 /\ Settle.ack = FALSE /\ Settle.drop = "none" BY <2>2, Zenon
  <2>5. attempts + Settle.count + 1 <= RetryCap BY <2>4
  <2>6. Settle.count # 1 /\ Settle.count \in {0, 1} BY <2>4
  <2>7. Settle.drop # "retry_cap" /\ Settle.drop # "target_missing" BY <2>4
  <2> QED BY <1>2, <2>3, <2>4, <2>5, <2>6, <2>7, Zenon
<1>3. CASE outcome = "missing"
  <2>1. Settle = SettleMissing BY <1>3 DEF Settle
  <2>2. CASE missing.seen >= DropSightings /\ missing.age >= DropAfter
    <3>1. Settle = [Acked EXCEPT !.drop = "target_missing"] BY <2>1, <2>2 DEF SettleMissing
    <3> QED BY <1>3, <2>2, <3>1
  <2>3. CASE ~(missing.seen >= DropSightings /\ missing.age >= DropAfter)
    <3>1. Settle = Backoff(RetryDelay(missing.seen - 1), 0) BY <2>1, <2>3 DEF SettleMissing
    <3> QED BY <1>3, <3>1
  <2> QED BY <2>2, <2>3
<1>4. CASE outcome = "failed"
  <2>1. Settle = SettleFailed BY <1>4 DEF Settle
  <2> QED BY <1>4, <2>1 DEF SettleFailed
<1> QED BY <1>1, <1>2, <1>3, <1>4 DEF Outcomes

\* Time ages a streak and changes nothing else of it.
LEMMA OlderStreak ==
    ASSUME NEW s \in [age : Nat, seen : Nat, reported : BOOLEAN], NEW limit \in Nat
    PROVE  /\ Older(s, limit) \in [age : Nat, seen : Nat, reported : BOOLEAN]
           /\ Older(s, limit).reported = s.reported
           /\ Older(s, limit).seen = s.seen
BY DEF Older, LowerOf

\* A sighting lengthens a streak and changes nothing else of it.
LEMMA LongerStreak ==
    ASSUME NEW s \in [age : Nat, seen : Nat, reported : BOOLEAN]
    PROVE  /\ Longer(s) \in [age : Nat, seen : Nat, reported : BOOLEAN]
           /\ Longer(s).reported = s.reported
           /\ Longer(s).age = s.age
<1>1. MaxSeen \in Nat BY SettleAssumption DEF MaxSeen
<1> QED BY <1>1 DEF Longer, LowerOf

-----------------------------------------------------------------------------
(* The invariant *)

\* One dispatch, its crashes and the requests made meanwhile keep the row's
\* count, the streak files and the truth they stand for together.
THEOREM HistoryInductive == Spec => []HistoryInv
<1>1. Init => HistoryInv
  BY SettleAssumption DEF Init, HistoryInv, PlaceInv, CapInv, DropInv, StallInv, Unwritten, Acked, NoStreak
<1>2. HistoryInv /\ [Next]_vars => HistoryInv'
  <2> SUFFICES ASSUME HistoryInv, [Next]_vars PROVE HistoryInv' OBVIOUS
  <2> USE SettleAssumption DEF HistoryInv
  <2>1. CASE Request
    BY <2>1 DEF Request, PlaceInv, CapInv, DropInv, StallInv, Unwritten, files
  <2>2. CASE Tick
    <3>1. PlaceInv' /\ CapInv' /\ DropInv'
      BY <2>2 DEF Tick, PlaceInv, CapInv, DropInv, Unwritten, bounds
    <3>2. StallAfter \in Nat OBVIOUS
    <3>3. StallInv'
      BY <2>2, <3>2, OlderStreak DEF Tick, StallInv
    <3> QED BY <3>1, <3>3
  <2>3. CASE Dispatch
    BY <2>3 DEF Dispatch, PlaceInv, CapInv, DropInv, StallInv, Unwritten, files, bounds, truth
  <2>4. ASSUME NEW o \in Outcomes, Ends(o) PROVE HistoryInv'
    <3>1. PlaceInv' /\ DropInv'
      BY <2>4 DEF Ends, PlaceInv, DropInv, row, bounds
    <3>2. CapInv'
      <4>1. attempts' = attempts /\ at = "run" /\ at' = "ended" /\ outcome' = o
        BY <2>4 DEF Ends, row
      <4>2. CASE o = "failed"
        <5>1. failures' = LowerOf(failures + 1, RetryCap) BY <2>4, <4>2 DEF Ends
        <5>2. Unwritten' = 1 BY <4>1, <4>2 DEF Unwritten
        <5>3. Unwritten = 0 BY <4>1 DEF Unwritten
        <5>4. RetryCap \in Nat BY DEF SettleAssumption
        <5>5. failures' \in Nat /\ attempts + 1 <= failures'
          BY <5>1, <5>3, <5>4 DEF CapInv, LowerOf
        <5> QED BY <4>1, <5>2, <5>5 DEF CapInv
      <4>3. CASE o # "failed"
        <5>1. failures' = failures BY <2>4, <4>3 DEF Ends
        <5> QED BY <4>1, <4>3, <5>1 DEF CapInv, Unwritten
      <4> QED BY <4>2, <4>3
    <3>3. StallInv'
      BY <2>4, LongerStreak DEF Ends, StallInv, NoStreak
    <3> QED BY <3>1, <3>2, <3>3
  <2>5. CASE Files
    <3>1. at = "ended" BY <2>5 DEF Files
    <3>2. PlaceInv' BY <2>5 DEF Files, PlaceInv, row, bounds
    <3>3. CapInv'
      BY <2>5, <3>1, SettleAnswers DEF Files, CapInv, Unwritten, row
    <3>4. DropInv' BY <2>5, <3>1, SettleAnswers DEF Files, DropInv
    <3>5. StallInv'
      BY <2>5, <3>1, SettleAnswers DEF Files, StallInv, NoStreak
    <3> QED BY <3>2, <3>3, <3>4, <3>5
  <2>6. CASE Commit
    <3>1. PlaceInv' /\ DropInv' /\ StallInv'
      BY <2>6 DEF Commit, PlaceInv, DropInv, StallInv, files, bounds
    <3>2. CASE step.ack
      BY <2>6, <3>1, <3>2 DEF Commit, CapInv, Unwritten
    <3>3. CASE ~step.ack
      BY <2>6, <3>1, <3>3 DEF Commit, CapInv, Unwritten
    <3> QED BY <3>2, <3>3
  <2>7. CASE Crash
    BY <2>7 DEF Crash, PlaceInv, CapInv, DropInv, StallInv, Unwritten, files, truth
  <2>8. CASE UNCHANGED vars
    BY <2>8 DEF vars, row, files, bounds, truth, PlaceInv, CapInv, DropInv, StallInv, Unwritten
  <2> QED BY <2>1, <2>2, <2>3, <2>4, <2>5, <2>6, <2>7, <2>8 DEF Next
<1> QED BY <1>1, <1>2, PTL DEF Spec

-----------------------------------------------------------------------------
(* The promises *)

\* settle drops a wake at its retry cap only after RetryCap real failures of
\* that row, across crashes, streaks and newer requests.
THEOREM CapIsEarned == Spec => CapDropEarned
<1>1. HistoryInv /\ [Next]_vars
      => [Drops("retry_cap") => failures >= RetryCap]_vars
  BY DEF HistoryInv, CapInv, Drops
<1> QED BY <1>1, HistoryInductive, PTL DEF Spec, CapDropEarned

\* _record_stall reports one preparing streak at most once, whatever dispatcher
\* dies between the file and the commit.
THEOREM StallIsReportedOnce == Spec => StallReportedOnce
<1>1. HistoryInv /\ [Next]_vars
      => [at = "ended" /\ at' = "filed" /\ step'.stalled => ~unready.reported]_vars
  <2> SUFFICES ASSUME HistoryInv, Next, at = "ended", at' = "filed", step'.stalled
               PROVE  ~unready.reported
    OBVIOUS
  <2>1. Files BY DEF Next, Request, Tick, Dispatch, Ends, Commit, Crash
  <2> QED BY <2>1, SettleAnswers DEF Files, HistoryInv, StallInv
<1> QED BY <1>1, HistoryInductive, PTL DEF Spec, StallReportedOnce

\* A request that arrives while drain is dropping the wake survives, due at
\* once and with a fresh retry history.
THEOREM DropKeepsTheRequest == Spec => DropKeepsNewer
<1>1. HistoryInv /\ [Next]_vars
      => [at = "filed" /\ at' = "idle" /\ newer /\ step.drop # "none" /\ crashes' = crashes
          => stored' /\ attempts' = 0 /\ wait' = 0]_vars
  <2> SUFFICES ASSUME HistoryInv, Next, at = "filed", at' = "idle", newer, step.drop # "none",
                      crashes' = crashes
               PROVE  stored' /\ attempts' = 0 /\ wait' = 0
    OBVIOUS
  <2>1. ~Crash
    <3>1. crashes \in Nat BY DEF HistoryInv, PlaceInv
    <3>2. crashes' # crashes + 1 BY <3>1
    <3> QED BY <3>2 DEF Crash
  <2>2. Commit BY <2>1 DEF Next, Request, Tick, Dispatch, Ends, Files
  <2> QED BY <2>2 DEF Commit, HistoryInv, DropInv
<1> QED BY <1>1, HistoryInductive, PTL DEF Spec, DropKeepsNewer

-----------------------------------------------------------------------------
(* The missing file is the truth, unless its clearing was cut off *)

\* The file never claims more, or older, sightings than there were in a row,
\* except while an outcome that ends the streak waits to clear it.
MissingInv ==
    /\ missing \in [age : Nat, seen : Nat, reported : BOOLEAN]
    /\ gone \in [age : Nat, seen : Nat, reported : BOOLEAN]
    /\ ~uncleared /\ (at # "ended" \/ outcome = "missing") =>
         /\ missing.seen <= gone.seen /\ missing.age <= gone.age
         /\ missing.seen = 0 => missing.age = 0

\* A directory is given up only after DropSightings sightings in a row over
\* DropAfter, unless a dispatcher died between a handler's end and the clearing
\* of the streak file (the code then keeps counting an interrupted streak).
THEOREM MissingIsEarned == Spec => MissingDropEarned
<1>1. Init => MissingInv
  BY DEF Init, MissingInv, NoStreak
<1>2. HistoryInv /\ MissingInv /\ [Next]_vars => MissingInv'
  <2> SUFFICES ASSUME HistoryInv, MissingInv, [Next]_vars PROVE MissingInv' OBVIOUS
  <2> USE SettleAssumption
  <2>1. CASE Request
    BY <2>1 DEF Request, MissingInv, files
  <2>2. CASE Tick
    <3>1. missing' = Older(missing, DropAfter) /\ gone' = Older(gone, DropAfter)
          /\ at' = at /\ outcome' = outcome /\ (uncleared' <=> uncleared)
      BY <2>2 DEF Tick
    <3> QED BY <3>1 DEF MissingInv, Older, LowerOf
  <2>3. CASE Dispatch
    BY <2>3 DEF Dispatch, MissingInv, files, truth
  <2>4. ASSUME NEW o \in Outcomes, Ends(o) PROVE MissingInv'
    <3>1. CASE o = "missing"
      <4>1. missing' = Longer(missing) /\ gone' = Longer(gone) /\ at = "run"
            /\ (uncleared' <=> uncleared)
        BY <2>4, <3>1 DEF Ends
      <4>2. MaxSeen \in Nat \ {0} BY DEF MaxSeen
      <4> QED BY <4>1, <4>2 DEF MissingInv, Longer, LowerOf
    <3>2. CASE o # "missing"
      BY <2>4, <3>2 DEF Ends, MissingInv, NoStreak
    <3> QED BY <3>1, <3>2
  <2>5. CASE Files
    <3>1. CASE outcome # "missing" \/ Settle.ack
      <4>1. missing' = NoStreak /\ gone' = gone BY <2>5, <3>1 DEF Files
      <4> QED BY <4>1 DEF MissingInv, NoStreak
    <3>2. CASE outcome = "missing" /\ ~Settle.ack
      <4>1. missing' = missing /\ gone' = gone /\ (uncleared' <=> uncleared)
        BY <2>5, <3>2 DEF Files
      <4> QED BY <3>2, <4>1 DEF MissingInv
    <3> QED BY <3>1, <3>2
  <2>6. CASE Commit
    BY <2>6 DEF Commit, MissingInv, files
  <2>7. CASE Crash
    BY <2>7 DEF Crash, MissingInv, files
  <2>8. CASE UNCHANGED vars
    BY <2>8 DEF vars, files, truth, MissingInv
  <2> QED BY <2>1, <2>2, <2>3, <2>4, <2>5, <2>6, <2>7, <2>8 DEF Next
<1>3. HistoryInv /\ MissingInv /\ [Next]_vars
      => [at = "ended" /\ at' = "filed" /\ step'.drop = "target_missing" /\ ~uncleared
          => gone.seen >= DropSightings /\ gone.age >= DropAfter]_vars
  <2> SUFFICES ASSUME HistoryInv, MissingInv, Next, at = "ended", at' = "filed",
                      step'.drop = "target_missing", ~uncleared
               PROVE  gone.seen >= DropSightings /\ gone.age >= DropAfter
    OBVIOUS
  <2>1. Files BY DEF Next, Request, Tick, Dispatch, Ends, Commit, Crash
  <2>2. outcome = "missing" /\ missing.seen >= DropSightings /\ missing.age >= DropAfter
    BY <2>1, SettleAnswers DEF Files
  <2> QED BY <2>2, SettleAssumption DEF MissingInv
<1> QED BY <1>1, <1>2, <1>3, HistoryInductive, PTL DEF Spec, MissingDropEarned
=============================================================================
