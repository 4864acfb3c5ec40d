----------------------------- MODULE WikiProofs -----------------------------
(***************************************************************************)
(* What WikiCompile guarantees for every set of cards and contents and     *)
(* every number of edits and failures.                                     *)
(*                                                                         *)
(*   Inv       a card recall serves was read by a verifier as it stands,   *)
(*             and is neither withdrawn nor loses what a person wrote      *)
(*             outside the managed block: needs only the card files, the   *)
(*             jobs and the review.                                        *)
(*   Typed     the queues, the ledger and the worker have their types.     *)
(*   Coverage  a source whose edits nothing announces any more has its     *)
(*             cards, or a claimed row that will bring them.               *)
(***************************************************************************)
EXTENDS WikiCompile, TLAPS, WellFoundedInduction, SequenceTheorems

Any   == [rest : Nat, block : Nat]
Read  == Revs \X Any \X Statuses
Files == [rev : Revs, hand : Any, status : Statuses, read : Any, since : BOOLEAN]
Jobs  == [rev : Revs, staged : BOOLEAN, over : Read]
Reviews == [todo : SUBSET Cards, card : Cards \cup {None}, text : Read, done : SUBSET Cards]

\* A worker's record: its content is one the source had, whatever its row.
Worked(j) ==
    /\ j = [row |-> j.row, bound |-> j.bound, snap |-> j.snap, todo |-> j.todo,
            failed |-> j.failed, whole |-> j.whole, keep |-> j.keep]
    /\ j.snap \in Revs /\ j.todo \in SUBSET Cards

\* As much of the types as the argument needs.
Shape ==
    /\ src \in Contents
    /\ live \in [Cards -> Files] /\ staged \in [Cards -> Files] /\ jobs \in [Cards -> Jobs]
    /\ Worked(job)
    /\ review \in Reviews

\* A stamp is about the text it stands on, published or staged.
Stamps == \A k \in Cards :
    /\ live[k].status = "verified" => live[k].read = live[k].hand
    /\ staged[k].status = "verified" => staged[k].read = staged[k].hand

\* A replacement is made for a verified card and has what a person wrote in it
\* outside the managed block.
Replacements == \A k \in Cards :
    jobs[k].staged =>
      /\ jobs[k].over[3] = "verified"
      /\ staged[k].status # "absent" => staged[k].hand.rest = jobs[k].over[2].rest

\* The review is of a text that is there, and what it is about to publish is stamped.
Reviewed ==
    /\ pc \in {"judge", "publish"} => review.card \in Cards
    /\ pc = "judge" => review.text[3] # "absent"
    /\ pc = "publish" => jobs[review.card].staged /\ staged[review.card].status = "verified"

Inv == Shape /\ Stamps /\ Replacements /\ Reviewed

-----------------------------------------------------------------------------
(* Types *)

LEMMA Nothings ==
    /\ Unedited \in Any /\ NoCard \in Files /\ NoJob \in Jobs
    /\ Text(NoCard) \in Read
    /\ NoReview \in Reviews
<1>1. Unedited \in Any /\ None \in Revs
  BY DEF Unedited, Any, Revs
<1>2. NoCard \in Files /\ Text(NoCard) \in Read
  BY <1>1 DEF NoCard, Card, Text, Files, Read, Statuses
<1> QED BY <1>1, <1>2 DEF NoJob, NoReview, Jobs, Reviews

\* The text of a card, and a compiled card, are what they should be.
LEMMA TextOf ==
    ASSUME NEW card \in Files
    PROVE  /\ Text(card) \in Read
           /\ Text(card)[2] = card.hand /\ Text(card)[3] = card.status
  BY DEF Text, Files, Read

LEMMA Built ==
    ASSUME NEW k \in Cards, live[k] \in Files, job.snap \in Revs
    PROVE  /\ Compiled(k) \in Files /\ Compiled(k).status = "generated"
           /\ Compiled(k).hand.rest = live[k].hand.rest
<1>1. [rest |-> live[k].hand.rest, block |-> 0] \in Any
  BY DEF Files, Any
<1> QED BY <1>1, Nothings DEF Compiled, Card, Files, Statuses

\* A card whose edits and status are replaced.
LEMMA Replaced ==
    ASSUME NEW H, NEW f \in [rev : Revs, hand : H, status : Statuses, read : H, since : BOOLEAN],
           NEW h, NEW s
    PROVE  [f EXCEPT !.hand = h, !.status = s]
             = [rev |-> f.rev, hand |-> h, status |-> s, read |-> f.read, since |-> f.since]
<1> DEFINE g == [f EXCEPT !.hand = h]
<1>1. g = [rev |-> f.rev, hand |-> h, status |-> f.status, read |-> f.read, since |-> f.since]
  OBVIOUS
<1>2. [f EXCEPT !.hand = h, !.status = s] = [g EXCEPT !.status = s]
  OBVIOUS
<1>3. [g EXCEPT !.status = s]
        = [rev |-> f.rev, hand |-> h, status |-> s, read |-> f.read, since |-> f.since]
  <2> HIDE DEF g
  <2> QED BY <1>1
<1> QED BY <1>2, <1>3, Zenon

\* An edit leaves a hand and keeps what was written before.
LEMMA EditedHand ==
    ASSUME NEW h \in Any, NEW e \in Edited(h)
    PROVE  e \in Any /\ e.rest >= h.rest /\ e.block >= h.block
  BY DEF Edited, Any

-----------------------------------------------------------------------------
(* The invariant *)

LEMMA Starting == Init => Inv
<1> SUFFICES ASSUME Init PROVE Inv
  OBVIOUS
<1>1. NoCard.status = "absent" /\ ~NoJob.staged /\ NoWork.snap = None /\ NoWork.todo = {}
  BY DEF NoCard, Card, NoJob, NoWork
<1>2. \A r \in Revs : /\ Card(r, Unedited, "verified") \in Files
                      /\ Card(r, Unedited, "verified").read = Card(r, Unedited, "verified").hand
  BY Nothings DEF Card, Files, Statuses
<1>3. First \in Revs /\ None \in Revs /\ src \in Contents
  BY WikiAssumption DEF Init, Revs
<1>4. live \in [Cards -> Files] /\ \A k \in Cards : live[k].status = "verified"
                                     => live[k].read = live[k].hand
  BY <1>1, <1>2, <1>3, Nothings DEF Init
<1>5. /\ staged \in [Cards -> Files] /\ jobs \in [Cards -> Jobs]
      /\ \A k \in Cards : staged[k].status = "absent" /\ ~jobs[k].staged
  BY <1>1, Nothings DEF Init
<1>6. Worked(job)
  BY DEF Init, NoWork, Worked, Revs
<1>7. Shape
  BY <1>1, <1>3, <1>4, <1>5, <1>6, Nothings DEF Init, Shape
<1> QED BY <1>4, <1>5, <1>7 DEF Init, Inv, Stamps, Replacements, Reviewed

\* What leaves the cards and their jobs alone and does not enter a review.
Elsewhere ==
    /\ UNCHANGED <<live, staged, jobs>> /\ src' \in Contents /\ Worked(job')
    /\ \/ UNCHANGED <<pc, review>>
       \/ /\ pc' \notin {"judge", "publish"}
          /\ review' \in Reviews

LEMMA Apart == Inv /\ Elsewhere => Inv'
  BY DEF Inv, Elsewhere, Shape, Stamps, Replacements, Reviewed

LEMMA NextReview ==
    VerifyNext \in Reviews
  BY Nothings DEF VerifyNext, Reviews

\* The source, the hook, the scan and the failures.
LEMMA Around ==
    ASSUME Inv,
           \/ \E c \in Contents : Edits(c) \/ Pulls(c)
           \/ Appends \/ HookDies \/ ScanStep \/ WorkerDies
    PROVE  Elsewhere
<1> USE DEF Inv, Shape, Elsewhere, sourceVars, queueVars, cardVars, workVars
<1>1. ASSUME NEW c \in Contents, Edits(c) \/ Pulls(c) PROVE Elsewhere
  BY <1>1 DEF Edits, Pulls
<1>2. CASE Appends \/ HookDies
  BY <1>2 DEF Appends, HookDies
<1>3. CASE ScanStep
  BY <1>3 DEF ScanStep, Scans
<1>4. CASE WorkerDies
  BY <1>4, Nothings DEF WorkerDies, NoWork, Worked, Revs
<1> QED BY <1>1, <1>2, <1>3, <1>4

\* The worker's own steps, short of writing a card.
LEMMA Working ==
    ASSUME Inv, CompileStep, ~\E k \in Cards : Writes(k) \/ WritesUnqueued(k)
    PROVE  Elsewhere
<1> USE DEF Inv, Shape, Elsewhere, sourceVars, queueVars, cardVars, workVars, Goes, Revs
<1>1. CASE Recovers \/ Requeues \/ Guards \/ ExtractsBadly
  BY <1>1 DEF Recovers, Requeues, Guards, ExtractsBadly
<1>2. CASE Claims \/ Unlinks
  BY <1>2, NextReview DEF Claims, Unlinks, NoWork, Worked
<1>3. CASE Binds \/ Captures
  BY <1>3 DEF Binds, Captures, Worked
<1>4. CASE Skips \/ SettlesWhole
  BY <1>4 DEF Skips, SettlesWhole, SettlesEvent, Worked
<1>5. CASE Extracts
  <2>1. PICK cards \in {CardsOf[job.snap], {}} :
          job' = [job EXCEPT !.todo = cards, !.whole = cards # {}]
    BY <1>5 DEF Extracts
  <2>2. cards \in SUBSET Cards
    BY <1>5, <2>1, WikiAssumption DEF Extracts
  <2>3. Worked(job')
    BY <2>1, <2>2 DEF Worked
  <2> QED BY <1>5, <2>3 DEF Extracts
<1>6. ASSUME NEW k \in Cards, Rejects(k) \/ Holds(k) PROVE Elsewhere
  BY <1>6 DEF Rejects, Holds, CardDone, Worked
<1>7. CASE SettlesFailed \/ SettlesHeld \/ ExtractsLater
  BY <1>7 DEF SettlesFailed, SettlesHeld, ExtractsLater, Worked
<1> QED BY <1>1, <1>2, <1>3, <1>4, <1>5, <1>6, <1>7 DEF CompileStep

\* The verify pass when it neither reads, nor stamps, nor publishes.
LEMMA Passing ==
    ASSUME Inv, \/ \E k \in Cards : Defers(k) \/ Discards(k)
                \/ ChangedMeanwhile \/ Fails \/ JudgesLater \/ PublishesLater
    PROVE  Elsewhere
<1> USE DEF Inv, Shape, Elsewhere, sourceVars, queueVars, cardVars, workVars, Goes
<1>1. ASSUME NEW k \in Cards, Processed(k)
      PROVE  review' \in Reviews
  BY <1>1, Nothings DEF Processed, Reviews
<1>2. ASSUME NEW k \in Cards, Defers(k) \/ Discards(k) PROVE Elsewhere
  BY <1>1, <1>2 DEF Defers, Discards, Picks, Reviews
<1>3. CASE ChangedMeanwhile \/ Fails
  BY <1>1, <1>3 DEF ChangedMeanwhile, Fails, Reviewed
<1>4. CASE JudgesLater \/ PublishesLater
  BY <1>4 DEF JudgesLater, PublishesLater
<1> QED BY <1>2, <1>3, <1>4

\* Every step keeps the invariant.
LEMMA Kept == Inv /\ [Next]_vars => Inv'
<1> SUFFICES ASSUME Inv, [Next]_vars PROVE Inv'
  OBVIOUS
<1> USE DEF Inv, Shape, sourceVars, queueVars, cardVars, workVars
<1>1. CASE UNCHANGED vars
  BY <1>1 DEF vars, Stamps, Replacements, Reviewed
<1>2. CASE Elsewhere
  BY <1>2, Apart
<1>3. CASE Records
  <2>1. ASSUME NEW f \in [Cards -> Files]
        PROVE  /\ Earlier(f) \in [Cards -> Files]
               /\ \A k \in Cards : /\ Earlier(f)[k].status = f[k].status
                                   /\ Earlier(f)[k].read = f[k].read
                                   /\ Earlier(f)[k].hand = f[k].hand
    <3>1. \A k \in Cards : [f[k] EXCEPT !.since = FALSE] \in Files
      BY DEF Files
    <3>2. \A k \in Cards : Earlier(f)[k] = [f[k] EXCEPT !.since = FALSE]
      BY DEF Earlier
    <3>3. Earlier(f) \in [Cards -> Files]
      BY <3>1 DEF Earlier
    <3> QED BY <3>2, <3>3 DEF Files
  <2>2. /\ live' = Earlier(live) /\ staged' = Earlier(staged)
        /\ UNCHANGED <<src, jobs, job, pc, review>>
    BY <1>3 DEF Records
  <2>3. Shape' /\ Stamps'
    BY <2>1, <2>2 DEF Stamps
  <2>4. Replacements' /\ Reviewed'
    BY <2>1, <2>2 DEF Replacements, Reviewed
  <2> QED BY <2>3, <2>4
<1>4. ASSUME NEW k \in Cards, HandEdits(k) \/ Supersedes(k) PROVE Inv'
  <2>1. live[k] \in Files /\ "superseded" \in Statuses /\ "edited" \in Statuses
    BY DEF Statuses
  <2>2. PICK h \in Any, s \in Statuses :
          /\ s # "verified"
          /\ live' = [live EXCEPT ![k] = [live[k] EXCEPT !.hand = h, !.status = s]]
    <3>1. CASE HandEdits(k)
      <4>1. PICK h \in Edited(live[k].hand) :
              live' = [live EXCEPT ![k].hand = h,
                                   ![k].status = IF @ = "verified" THEN "edited" ELSE @]
        BY <3>1 DEF HandEdits
      <4>2. h \in Any
        BY <2>1, <4>1, EditedHand DEF Files
      <4> DEFINE s == IF live[k].status = "verified" THEN "edited" ELSE live[k].status
      <4>3. s \in Statuses /\ s # "verified"
        BY <2>1 DEF Files
      <4>4. live' = [live EXCEPT ![k] = [live[k] EXCEPT !.hand = h, !.status = s]]
        BY <4>1
      <4> HIDE DEF s
      <4> QED BY <4>2, <4>3, <4>4
    <3>2. CASE Supersedes(k)
      <4>1. [live[k] EXCEPT !.status = "superseded"]
              = [live[k] EXCEPT !.hand = live[k].hand, !.status = "superseded"]
        BY <2>1 DEF Files
      <4> QED BY <2>1, <3>2, <4>1 DEF Supersedes, Files
    <3> QED BY <1>4, <3>1, <3>2
  <2> DEFINE card == [live[k] EXCEPT !.hand = h, !.status = s]
  <2>3. card \in Files /\ card.status # "verified"
    <3>1. card = [rev |-> live[k].rev, hand |-> h, status |-> s, read |-> live[k].read,
                  since |-> live[k].since]
      BY <2>1, Replaced DEF Files
    <3> HIDE DEF card
    <3> QED BY <2>1, <2>2, <3>1 DEF Files
  <2>4. UNCHANGED <<src, staged, jobs, job, pc, review>>
    BY <1>4 DEF HandEdits, Supersedes
  <2>5. live' = [live EXCEPT ![k] = card]
    BY <2>2
  <2> HIDE DEF card
  <2> QED BY <2>3, <2>4, <2>5 DEF Stamps, Replacements, Reviewed
<1>5. ASSUME NEW k \in Cards, Writes(k) \/ WritesUnqueued(k) PROVE Inv'
  <2> DEFINE over == Text(IF Trusted(k) THEN live[k] ELSE NoCard)
  <2>1. /\ Compiled(k) \in Files /\ Compiled(k).status = "generated"
        /\ Compiled(k).hand.rest = live[k].hand.rest
    BY Built DEF Worked
  <2>2. /\ over \in Read
        /\ Trusted(k) => over[3] = "verified" /\ over[2] = live[k].hand
    BY Nothings, TextOf DEF Trusted
  <2>3. /\ \/ jobs' = jobs /\ (live' = live \/ live' = [live EXCEPT ![k] = Compiled(k)])
              /\ staged' = staged
           \/ /\ jobs' = [jobs EXCEPT ![k] = [rev |-> job.snap, staged |-> Trusted(k),
                                              over |-> over]]
              /\ \/ Trusted(k) /\ staged' = [staged EXCEPT ![k] = Compiled(k)] /\ live' = live
                 \/ ~Trusted(k) /\ live' = [live EXCEPT ![k] = Compiled(k)] /\ staged' = staged
        /\ src' = src /\ review' = review /\ pc' \notin {"judge", "publish"}
    BY <1>5 DEF Writes, WritesUnqueued, CardDone
  <2> HIDE DEF over
  <2>4. jobs' \in [Cards -> Jobs]
    <3>1. [rev |-> job.snap, staged |-> Trusted(k), over |-> over] \in Jobs
      BY <2>2 DEF Jobs, Worked, Trusted
    <3> QED BY <2>3, <3>1
  <2>5. Worked(job')
    BY <1>5 DEF Writes, WritesUnqueued, Worked
  <2>6. Shape'
    BY <2>1, <2>3, <2>4, <2>5
  <2>7. Stamps'
    BY <2>1, <2>3 DEF Stamps
  <2>8. Replacements'
    <3>1. CASE jobs' = jobs /\ staged' = staged
      BY <3>1 DEF Replacements
    <3>2. CASE /\ jobs' = [jobs EXCEPT ![k] = [rev |-> job.snap, staged |-> Trusted(k),
                                              over |-> over]]
               /\ \/ Trusted(k) /\ staged' = [staged EXCEPT ![k] = Compiled(k)]
                  \/ ~Trusted(k) /\ staged' = staged
      <4>1. jobs'[k].staged = Trusted(k) /\ jobs'[k].over = over
        BY <3>2
      <4>2. \A c \in Cards : c # k => jobs'[c] = jobs[c] /\ staged'[c] = staged[c]
        BY <3>2
      <4>3. Trusted(k) => staged'[k] = Compiled(k)
        BY <3>2
      <4>4. jobs'[k].staged => /\ jobs'[k].over[3] = "verified"
                               /\ staged'[k].hand.rest = jobs'[k].over[2].rest
        BY <2>1, <2>2, <4>1, <4>3
      <4> QED BY <4>2, <4>4 DEF Replacements
    <3> QED BY <2>3, <3>1, <3>2
  <2> QED BY <2>3, <2>6, <2>7, <2>8 DEF Reviewed
<1>6. ASSUME NEW k \in Cards, Replays(k) PROVE Inv'
  <2>1. review' \in Reviews /\ review'.card = k
    BY <1>6 DEF Replays, Picks, Reviews
  <2> QED BY <1>6, <2>1 DEF Replays, Picks, Stamps, Replacements, Reviewed
<1>7. ASSUME NEW k \in Cards, Reads(k) PROVE Inv'
  <2>1. Target(k) \in Files
    BY DEF Target
  <2>2. Text(Target(k)) \in Read
    BY <2>1, TextOf
  <2>3. Text(Target(k))[3] = "generated"
    BY <1>7, <2>1, TextOf DEF Reads, ToJudge
  <2>4. review' \in Reviews /\ review'.card = k /\ review'.text[3] # "absent"
    BY <1>7, <2>2, <2>3 DEF Reads, Reviews
  <2> QED BY <1>7, <2>4 DEF Reads, Picks, Stamps, Replacements, Reviewed
<1>8. CASE Ends
  <2>1. \A k \in Cards : jobs'[k] = NoJob \/ jobs'[k] = jobs[k]
    BY <1>8 DEF Ends
  <2>2. jobs' \in [Cards -> Jobs]
    BY <1>8, Nothings DEF Ends
  <2> QED BY <1>8, <2>1, <2>2, Nothings DEF Ends, Goes, NoJob, Stamps, Replacements, Reviewed
<1>9. ASSUME NEW k \in Cards, Processed(k)
      PROVE  review' \in Reviews
  BY <1>9, Nothings DEF Processed, Reviews
<1>10. CASE Passes
  <2> DEFINE k == review.card
  <2>1. k \in Cards /\ Text(Target(k)) = review.text
    BY <1>10 DEF Passes, Same, Reviewed
  <2>2. Target(k) \in Files
    BY <2>1 DEF Target
  <2>3. /\ Stamped(Target(k)) \in Files /\ Stamped(Target(k)).status = "verified"
        /\ Stamped(Target(k)).read = Target(k).hand
        /\ Stamped(Target(k)).hand = Target(k).hand
    <3>1. review.text[2] = Target(k).hand
      BY <2>1, <2>2, TextOf
    <3> QED BY <2>2, <3>1 DEF Stamped, Files, Statuses
  <2>4. UNCHANGED <<src, jobs, job>>
    BY <1>10 DEF Passes
  <2>5. CASE jobs[k].staged
    <3>1. staged' = [staged EXCEPT ![k] = Stamped(staged[k])] /\ pc' = "publish"
          /\ UNCHANGED <<live, review>> /\ Target(k) = staged[k]
      BY <1>10, <2>5 DEF Passes, Target
    <3>2. staged[k].status # "absent"
      BY <1>10, <2>1, <2>2, <3>1, TextOf DEF Passes, Reviewed
    <3> QED BY <2>1, <2>3, <2>4, <2>5, <3>1, <3>2 DEF Stamps, Replacements, Reviewed
  <2>6. CASE ~jobs[k].staged
    <3>1. live' = [live EXCEPT ![k] = Stamped(live[k])] /\ pc' = "verify" /\ Processed(k)
          /\ UNCHANGED staged /\ Target(k) = live[k]
      BY <1>10, <2>6 DEF Passes, Target
    <3> QED BY <1>9, <2>1, <2>3, <2>4, <3>1 DEF Stamps, Replacements, Reviewed
  <2> QED BY <2>5, <2>6
<1>11. CASE Publishes
  <2> DEFINE k == review.card
  <2>1. /\ k \in Cards /\ Processed(k) /\ pc' = "verify" /\ UNCHANGED <<src, jobs, job>>
        /\ live' = [live EXCEPT ![k] = staged[k]] \/ live' = live
        /\ staged' = [staged EXCEPT ![k] = NoCard]
    BY <1>11 DEF Publishes, Goes, Reviewed
  <2>2. NoCard \in Files /\ NoCard.status = "absent"
    BY Nothings DEF NoCard, Card
  <2> QED BY <1>9, <2>1, <2>2 DEF Stamps, Replacements, Reviewed
<1> QED
  BY <1>1, <1>2, <1>3, <1>4, <1>5, <1>6, <1>7, <1>8, <1>9, <1>10, <1>11,
     Around, Working, Passing DEF Next, HookStep, CompileStep, VerifyStep

-----------------------------------------------------------------------------
(* Theorems *)

THEOREM Invariance == Spec => []Inv
<1>1. Init => Inv
  BY Starting
<1>2. Inv /\ [Next]_vars => Inv'
  BY Kept
<1> QED BY <1>1, <1>2, PTL DEF Spec

\* The text of a card that recall serves is one a verifier has passed: what
\* apply_verify_verdict_locked compares under the lock is enough.
THEOREM ServedWasRead == Spec => []TrustedWasRead
<1>1. Inv => TrustedWasRead
  BY DEF Inv, Stamps, TrustedWasRead, Trusted
<1> QED BY <1>1, Invariance, PTL

\* Neither the compiler nor the verifier takes a trusted card out of recall or
\* loses what a person wrote outside the managed block; a publication replaces
\* what was written inside it only in a card a verifier passed.
THEOREM NothingTakenBack == Spec => CardKept
<1> DEFINE Keep(k) ==
             /\ live'[k].hand.rest >= live[k].hand.rest
             /\ Trusted(k) => \/ Trusted(k)'
                              \/ live'[k].hand \in Edited(live[k].hand)
                              \/ live'[k].status = "superseded"
             /\ pc = "publish" => Trusted(k) \/ live'[k].hand.block >= live[k].hand.block
           Keeps == \A k \in Cards : Keep(k)
<1>1. Inv /\ [Next]_vars => [Keeps]_vars
  <2> SUFFICES ASSUME Inv, Next PROVE Keeps
    OBVIOUS
  <2> USE DEF Inv, Shape, sourceVars, queueVars, cardVars, workVars
  <2>0. \A k \in Cards : live[k] \in Files /\ live[k].hand.rest \in Nat /\ live[k].hand.block \in Nat
    BY DEF Files, Any
  <2>1. ASSUME NEW k \in Cards, live'[k].hand = live[k].hand, live'[k].status = live[k].status
        PROVE  Keep(k)
    BY <2>0, <2>1 DEF Trusted
  <2>2. CASE live' = live
    BY <2>1, <2>2
  <2>3. CASE Elsewhere
    BY <2>2, <2>3 DEF Elsewhere
  <2>4. CASE Records
    <3>1. \A k \in Cards : live'[k].hand = live[k].hand /\ live'[k].status = live[k].status
      BY <2>4 DEF Records, Earlier, Files
    <3> QED BY <2>1, <3>1
  <2>5. ASSUME NEW k \in Cards, HandEdits(k) PROVE Keeps
    <3>1. /\ live'[k].hand \in Edited(live[k].hand)
          /\ \A c \in Cards : c # k => live'[c] = live[c]
      BY <2>5 DEF HandEdits, Files
    <3>2. live'[k].hand.rest >= live[k].hand.rest /\ live'[k].hand.block >= live[k].hand.block
      BY <2>0, <3>1, EditedHand DEF Files
    <3>3. Keep(k)
      BY <3>1, <3>2
    <3> HIDE DEF Keep
    <3>4. ASSUME NEW c \in Cards, c # k PROVE Keep(c)
      BY <2>1, <3>1, <3>4
    <3> QED BY <3>3, <3>4
  <2>6. ASSUME NEW k \in Cards, Supersedes(k) PROVE Keeps
    <3>1. /\ live'[k].hand = live[k].hand /\ live'[k].status = "superseded"
          /\ \A c \in Cards : c # k => live'[c] = live[c]
      BY <2>6 DEF Supersedes, Files
    <3>2. Keep(k)
      BY <2>0, <3>1
    <3> HIDE DEF Keep
    <3>3. ASSUME NEW c \in Cards, c # k PROVE Keep(c)
      BY <2>1, <3>1, <3>3
    <3> QED BY <3>2, <3>3
  <2>7. ASSUME NEW k \in Cards, Writes(k) \/ WritesUnqueued(k) PROVE Keeps
    <3>1. \/ live' = live
          \/ /\ ~Trusted(k) /\ pc # "publish" /\ live'[k] = Compiled(k)
             /\ \A c \in Cards : c # k => live'[c] = live[c]
      BY <2>7 DEF Writes, WritesUnqueued, CardDone
    <3>2. Compiled(k).hand.rest = live[k].hand.rest
      BY <2>0, Built DEF Worked
    <3>3. live' # live => Keep(k)
      BY <2>0, <3>1, <3>2
    <3> HIDE DEF Keep
    <3>4. ASSUME live' # live, NEW c \in Cards, c # k PROVE Keep(c)
      BY <2>1, <3>1, <3>4
    <3> QED BY <2>2, <3>3, <3>4
  <2>8. ASSUME NEW k \in Cards, Replays(k) \/ Reads(k) PROVE Keeps
    BY <2>2, <2>8 DEF Replays, Reads
  <2>9. CASE Ends
    BY <2>2, <2>9 DEF Ends
  <2>10. CASE Passes
    <3>1. \/ live' = live
          \/ live' = [live EXCEPT ![review.card] = Stamped(live[review.card])]
      BY <2>10 DEF Passes
    <3>2. \A f \in Files : Stamped(f).hand = f.hand /\ Stamped(f).status = "verified"
      BY DEF Stamped, Files
    <3>3. \A k \in Cards : /\ live'[k].hand = live[k].hand
                           /\ live'[k].status \in {live[k].status, "verified"}
      BY <2>0, <3>1, <3>2
    <3> QED BY <2>0, <3>3 DEF Trusted
  <2>11. CASE Publishes
    <3>1. PICK k \in Cards : k = review.card /\ jobs[k].staged /\ staged[k].status = "verified"
      BY <2>11 DEF Publishes, Goes, Reviewed
    <3>2. CASE Text(live[k]) = jobs[k].over
      <4>1. live' = [live EXCEPT ![k] = staged[k]]
        BY <2>11, <3>1, <3>2 DEF Publishes
      <4>2. staged[k].hand.rest = live[k].hand.rest /\ live[k].status = "verified"
        BY <2>0, <3>1, <3>2, TextOf DEF Replacements
      <4>3. Keep(k)
        <5>1. live'[k] = staged[k]
          BY <3>1, <4>1
        <5>2. Trusted(k) /\ Trusted(k)' /\ live'[k].hand.rest = live[k].hand.rest
          BY <3>1, <4>2, <5>1 DEF Trusted
        <5> QED BY <2>0, <3>1, <5>2
      <4> HIDE DEF Keep
      <4>4. ASSUME NEW c \in Cards, c # k PROVE Keep(c)
        BY <2>1, <4>1, <4>4
      <4> QED BY <4>3, <4>4
    <3>3. CASE Text(live[k]) # jobs[k].over
      BY <2>2, <2>11, <3>1, <3>3 DEF Publishes
    <3> QED BY <3>2, <3>3
  <2> QED
    BY <2>3, <2>4, <2>5, <2>6, <2>7, <2>8, <2>9, <2>10, <2>11, Around, Working, Passing
       DEF Next, HookStep, CompileStep, VerifyStep
<1> QED BY <1>1, Invariance, PTL DEF Spec, CardKept

-----------------------------------------------------------------------------
(* The queue files: numbers, rows and the two computations on them *)

\* Induction over numbers: a set of them that is not empty has a least one.
LEMMA Least ==
    ASSUME NEW T, T \subseteq Nat, T # {}
    PROVE  \E m \in T : \A n \in T : m <= n
<1> DEFINE R == OpToRel(<, Nat)
<1>1. IsWellFoundedOn(R, Nat)
  BY NatLessThanWellFounded
<1>2. \A x, y \in Nat : x < y => <<x, y>> \in R
  BY DEF OpToRel
<1> HIDE DEF R
<1>3. PICK m \in T : \A n \in T : ~(<<n, m>> \in R)
  BY <1>1, WFMin
<1>4. \A n \in T : ~(n < m)
  BY <1>2, <1>3
<1>5. \A n \in T : m \in Nat /\ n \in Nat
  OBVIOUS
<1> QED BY <1>4, <1>5

\* A bounded one has a greatest.
LEMMA Greatest ==
    ASSUME NEW T, T \subseteq Nat, T # {}, NEW b \in Nat, \A n \in T : n <= b
    PROVE  \E m \in T : \A n \in T : n <= m
<1> DEFINE D == {b - n : n \in T}
<1>1. D \subseteq Nat /\ D # {}
  <2>1. \A n \in T : b - n \in Nat
    OBVIOUS
  <2> QED BY <2>1
<1>2. PICK d \in D : \A e \in D : d <= e
  <2> HIDE DEF D
  <2> QED BY <1>1, Least
<1>3. PICK m \in T : d = b - m
  OBVIOUS
<1>4. \A n \in T : b - m <= b - n
  BY <1>2, <1>3
<1>5. \A n \in T : m \in Nat /\ n \in Nat
  OBVIOUS
<1> QED BY <1>3, <1>4, <1>5

\* Rows of events and scans that have happened.
Dated == {r \in Rows : r.ts <= clock}

\* dedup_jobs finds a row: the latest of them, the last of equally late ones.
LEMMA NewestIsOne ==
    ASSUME NEW rows \in Seq(Dated), rows # <<>>, clock \in Nat
    PROVE  Newest(rows) \in Dated
<1>1. DOMAIN rows = 1..Len(rows) /\ Len(rows) \in Nat /\ Len(rows) # 0
      /\ \A i \in DOMAIN rows : rows[i] \in Dated /\ rows[i].ts \in Nat /\ rows[i].ts <= clock
  <2>1. DOMAIN rows = 1..Len(rows) /\ Len(rows) \in Nat /\ Len(rows) # 0
        /\ \A i \in DOMAIN rows : rows[i] \in Dated
    OBVIOUS
  <2> QED BY <2>1 DEF Dated, Rows
<1> DEFINE Times == {rows[i].ts : i \in DOMAIN rows}
<1>2. PICK t \in Times : \A u \in Times : u <= t
  <2>1. Times \subseteq Nat /\ Times # {} /\ \A u \in Times : u <= clock
    BY <1>1
  <2> HIDE DEF Times
  <2> QED BY <2>1, Greatest
<1> DEFINE Last == {i \in DOMAIN rows : rows[i].ts = t}
<1>3. PICK i \in Last : \A j \in Last : j <= i
  <2>1. Last \subseteq Nat /\ Last # {} /\ \A j \in Last : j <= Len(rows)
    BY <1>1, <1>2
  <2> HIDE DEF Last
  <2> QED BY <1>1, <2>1, Greatest
<1>4. ASSUME NEW j \in DOMAIN rows
      PROVE  rows[j].ts < rows[i].ts \/ (rows[j].ts = rows[i].ts /\ j <= i)
  <2>1. rows[i].ts = t /\ rows[j].ts <= t
    BY <1>2, <1>3
  <2>2. rows[j].ts \in Nat /\ rows[i].ts \in Nat
    BY <1>1, <1>3
  <2>3. rows[j].ts = t => j <= i
    BY <1>3
  <2> QED BY <2>1, <2>2, <2>3
<1>5. i \in DOMAIN rows
  BY <1>3
<1>6. Newest(rows) = rows[CHOOSE h \in DOMAIN rows : \A j \in DOMAIN rows :
                          rows[j].ts < rows[h].ts \/ (rows[j].ts = rows[h].ts /\ j <= h)]
  BY DEF Newest
<1>7. \E h \in DOMAIN rows : Newest(rows) = rows[h]
  BY <1>4, <1>5, <1>6
<1> QED BY <1>1, <1>7

\* reclaim_orphaned_claimed keeps rows of the file, none of them counted too often.
LEMMA ReclaimedRows ==
    ASSUME claimed \in Seq(Dated), clock \in Nat
    PROVE  Reclaimed \in Seq(Dated)
<1> DEFINE L == Len(claimed)
           One(g, n) == IF n = 0 THEN <<>>
                         ELSE IF claimed[n].count < MaxRequeue
                                THEN Append(g[n - 1], Counted(claimed[n])) ELSE g[n - 1]
           Runs(g, m) == g = [n \in 0..m |-> One(g, n)]
<1>1. L \in Nat /\ \A n \in 1..L : claimed[n] \in Dated
  OBVIOUS
<1>2. \E g : Runs(g, L)
  <2> DEFINE Bad == {m \in 0..L : ~\E g : Runs(g, m)}
  <2>1. CASE Bad = {}
    <3> HIDE DEF Runs
    <3> QED BY <1>1, <2>1
  <2>2. CASE Bad # {}
    <3>1. Bad \subseteq Nat
      BY <1>1
    <3>2. PICK m \in Bad : \A n \in Bad : m <= n
      <4> HIDE DEF Bad
      <4> QED BY <2>2, <3>1, Least
    <3>3. CASE m = 0
      <4>1. Runs([n \in 0..0 |-> <<>>], 0)
        OBVIOUS
      <4> HIDE DEF Runs
      <4> QED BY <3>2, <3>3, <4>1
    <3>4. CASE m # 0
      <4>1. m - 1 \in 0..L /\ m \in Nat /\ m - 1 \notin Bad /\ m - 1 \in Nat
        <5> HIDE DEF Runs
        <5> QED BY <1>1, <3>2, <3>4
      <4>2. PICK g : Runs(g, m - 1)
        <5> HIDE DEF Runs
        <5> QED BY <4>1
      <4> DEFINE h == [n \in 0..m |-> IF n = m THEN One(g, m) ELSE g[n]]
      <4>3. ASSUME NEW n \in 0..m PROVE h[n] = One(h, n)
        <5>1. CASE n = 0
          BY <3>4, <4>1, <4>2, <5>1
        <5>2. CASE n # 0
          <6>1. n \in 0..m /\ n - 1 \in 0..m /\ n - 1 # m
            BY <4>1, <5>2
          <6>2. h[n - 1] = g[n - 1]
            BY <6>1
          <6>3. One(h, n) = One(g, n)
            BY <6>2
          <6>4. n # m => g[n] = One(g, n)
            <7>1. n # m => n \in 0..(m - 1)
              BY <4>1
            <7> HIDE DEF One
            <7> QED BY <4>2, <7>1
          <6> QED BY <6>1, <6>3, <6>4
        <5> QED BY <5>1, <5>2
      <4>4. Runs(h, m)
        <5> HIDE DEF One
        <5> QED BY <4>3
      <4> HIDE DEF Runs, h
      <4> QED BY <3>2, <4>4
    <3> QED BY <3>3, <3>4
  <2> QED BY <2>1, <2>2
<1> DEFINE s == CHOOSE g : Runs(g, L)
<1>3. Runs(s, L)
  <2> HIDE DEF Runs
  <2> QED BY <1>2
<1>4. Reclaimed = s[L]
  BY DEF Reclaimed
<1> HIDE DEF s
<1>5. s[0] = <<>> /\ \A n \in 1..L : s[n] = One(s, n)
  <2>1. \A n \in 0..L : s[n] = One(s, n)
    <3> HIDE DEF One
    <3> QED BY <1>3
  <2>2. 0 \in 0..L /\ \A n \in 1..L : n \in 0..L
    BY <1>1
  <2> QED BY <2>1, <2>2
<1>6. s[L] \in Seq(Dated)
  <2> DEFINE Bad == {n \in 0..L : s[n] \notin Seq(Dated)}
  <2>1. CASE Bad = {}
    BY <1>1, <2>1
  <2>2. CASE Bad # {}
    <3>1. Bad \subseteq Nat
      BY <1>1
    <3>2. PICK m \in Bad : \A n \in Bad : m <= n
      <4> HIDE DEF Bad
      <4> QED BY <2>2, <3>1, Least
    <3>3. m # 0 /\ m \in 0..L /\ s[m] \notin Seq(Dated)
      <4>1. <<>> \in Seq(Dated) /\ s[0] = <<>>
        BY <1>5
      <4>2. m \in 0..L /\ s[m] \notin Seq(Dated)
        BY <3>2
      <4> QED BY <4>1, <4>2
    <3>4. m \in 1..L /\ m - 1 \in 0..L /\ m - 1 \notin Bad
      BY <1>1, <3>2, <3>3
    <3>5. s[m - 1] \in Seq(Dated)
      BY <3>4
    <3>6. claimed[m] \in Dated
      BY <1>1, <3>4
    <3>7. claimed[m].count < MaxRequeue => Counted(claimed[m]) \in Dated
      <4>1. \A r \in Rows : r.count < MaxRequeue =>
              Counted(r) \in Rows /\ Counted(r).ts = r.ts
        BY WikiAssumption DEF Counted, Rows
      <4> QED BY <3>6, <4>1 DEF Dated
    <3>8. s[m] = One(s, m)
      BY <1>5, <3>4
    <3> QED BY <3>3, <3>5, <3>6, <3>7, <3>8
  <2> QED BY <2>1, <2>2
<1> QED BY <1>4, <1>6

-----------------------------------------------------------------------------
(* Types, with the bounds they rest on *)

SourceTyped ==
    /\ src \in Contents /\ hook \in {"idle", "edited", "recorded"}
    /\ cursor \in [snap : Revs, pend : BOOLEAN]
    /\ lost \in BOOLEAN /\ events \in 0..MaxEvents

\* Rows carry times that have passed; the number of an open event is not 0.
QueueTyped ==
    /\ clock \in Nat /\ ledger \in [id : 0..clock, open : BOOLEAN]
    /\ ledger.open => ledger.id > 0
    /\ queue \in Seq(Dated) /\ claimed \in Seq(Dated)

\* A person's edits of a card are counted among the events.
CardTyped ==
    /\ live \in [Cards -> CardFiles] /\ staged \in [Cards -> CardFiles]
    /\ jobs \in [Cards -> [rev : Revs, staged : BOOLEAN, over : Texts]]
    /\ \A k \in Cards : live[k].hand \in Hands(events) /\ staged[k].hand \in Hands(events)

WorkSets == [row : Dated, bound : Nat, snap : Revs, todo : SUBSET Cards,
             failed : BOOLEAN, whole : BOOLEAN, keep : BOOLEAN]
ReviewSets == [todo : SUBSET Cards, card : Cards \cup {None}, text : Texts, done : SUBSET Cards]

WorkTyped ==
    /\ pc \in {"idle", "claim", "bind", "capture", "guard", "skip", "extract",
               "write", "settle", "requeue", "unlink", "verify", "judge", "publish"}
    /\ job \in WorkSets /\ job.bound <= ledger.id
    /\ review \in ReviewSets

Typed == SourceTyped /\ QueueTyped /\ CardTyped /\ WorkTyped

\* The edits in a card are as many as events, and stay so.
LEMMA HandsGrow ==
    ASSUME NEW m \in Nat, NEW n \in Nat, m <= n
    PROVE  Hands(m) \subseteq Hands(n)
  BY DEF Hands

LEMMA EditedOnce ==
    ASSUME NEW n \in Nat, NEW h \in Hands(n), NEW e \in Edited(h)
    PROVE  e \in Hands(n + 1)
  BY DEF Hands, Edited

LEMMA Empties ==
    /\ \A n \in Nat : Unedited \in Hands(n)
    /\ NoCard \in CardFiles /\ NoCard.hand = Unedited /\ Text(NoCard) \in Texts
    /\ NoJob \in [rev : Revs, staged : BOOLEAN, over : Texts]
    /\ NoReview \in ReviewSets
    /\ \A r \in Revs : /\ Card(r, Unedited, "verified") \in CardFiles
                       /\ Card(r, Unedited, "verified").hand = Unedited
<1>1. None \in Revs /\ MaxEvents \in Nat /\ \A n \in Nat : Unedited \in Hands(n)
  BY WikiAssumption DEF Revs, Unedited, Hands
<1>2. \A r \in Revs, t \in Statuses :
        /\ Card(r, Unedited, t) \in CardFiles /\ Card(r, Unedited, t).hand = Unedited
        /\ Text(Card(r, Unedited, t)) \in Texts
  BY <1>1 DEF Card, CardFiles, Text, Texts
<1>3. NoCard \in CardFiles /\ NoCard.hand = Unedited /\ Text(NoCard) \in Texts
  BY <1>1, <1>2 DEF NoCard, Statuses
<1> QED
  BY <1>1, <1>2, <1>3 DEF NoJob, NoReview, ReviewSets, Statuses

\* A row just made is dated.
LEMMA NewRow ==
    ASSUME NEW t \in Nat, NEW r \in Revs
    PROVE  Row(t, r) \in Rows /\ Row(t, r).ts = t
  BY WikiAssumption DEF Row, Rows

LEMMA NoWorkTyped == clock \in Nat => NoWork \in WorkSets /\ NoWork.bound = 0
<1>1. None \in Revs
  BY DEF Revs
<1>2. Row(0, None) \in Rows /\ Row(0, None).ts = 0
  BY <1>1, NewRow
<1> QED BY <1>1, <1>2 DEF NoWork, WorkSets, Dated

\* What is dated stays so while the clock goes on.
LEMMA DatedGrows ==
    ASSUME clock \in Nat, clock' \in Nat, clock <= clock'
    PROVE  Dated \subseteq Dated' /\ Seq(Dated) \subseteq Seq(Dated')
<1>1. Dated \subseteq Dated'
  BY DEF Dated, Rows
<1> QED BY <1>1, SeqMonotonic

LEMMA TypedStarts == Init => Typed
<1> SUFFICES ASSUME Init PROVE Typed
  OBVIOUS
<1>1. First \in Revs /\ None \in Revs /\ 0 \in 0..MaxEvents /\ 0 \in 0..0
  BY WikiAssumption DEF Revs
<1>2. SourceTyped
  <2>1. \A r \in Revs : [snap |-> r, pend |-> FALSE] \in [snap : Revs, pend : BOOLEAN]
    OBVIOUS
  <2>2. cursor = [snap |-> None, pend |-> FALSE] \/ cursor = [snap |-> First, pend |-> FALSE]
    BY DEF Init
  <2>3. cursor \in [snap : Revs, pend : BOOLEAN]
    BY <1>1, <2>1, <2>2
  <2> QED BY <1>1, <2>3, WikiAssumption DEF Init, SourceTyped
<1>3. QueueTyped
  BY <1>1 DEF Init, QueueTyped
<1>4. live \in [Cards -> CardFiles] /\ \A k \in Cards : live[k].hand = Unedited
  BY <1>1, Empties DEF Init
<1>5. CardTyped
  BY <1>1, <1>4, Empties DEF Init, CardTyped
<1>6. WorkTyped
  BY Empties, NoWorkTyped DEF Init, WorkTyped
<1> QED BY <1>2, <1>3, <1>5, <1>6 DEF Typed

\* What a step leaves alone keeps its type, as the clock and the events go on.
LEMMA SameQueue == Typed /\ UNCHANGED queueVars => QueueTyped'
  BY DEF Typed, QueueTyped, queueVars, Dated

LEMMA SameCards ==
    ASSUME Typed, UNCHANGED cardVars, events' = events \/ Happens
    PROVE  CardTyped'
<1>1. events \in Nat /\ events' \in Nat /\ events <= events'
  BY WikiAssumption DEF Typed, SourceTyped, Happens
<1>2. Hands(events) \subseteq Hands(events')
  BY <1>1, HandsGrow
<1> QED BY <1>1, <1>2 DEF Typed, CardTyped, cardVars

LEMMA SameSource ==
    ASSUME Typed, UNCHANGED sourceVars, lost' \in BOOLEAN, events' = events \/ Happens
    PROVE  SourceTyped'
  BY WikiAssumption DEF Typed, SourceTyped, sourceVars, Happens

LEMMA SameWork ==
    ASSUME Typed, UNCHANGED workVars, UNCHANGED clock \/ clock' = clock + 1,
           ledger' = ledger \/ ledger'.id > ledger.id \/ ledger'.id = ledger.id,
           ledger'.id \in Nat
    PROVE  WorkTyped'
<1>1. clock \in Nat /\ clock' \in Nat /\ clock <= clock' /\ ledger.id \in Nat
      /\ job.bound \in Nat
  BY DEF Typed, QueueTyped, WorkTyped, WorkSets
<1>2. Dated \subseteq Dated'
  BY <1>1, DatedGrows
<1>3. job' \in WorkSets'
  BY <1>2 DEF Typed, WorkTyped, WorkSets, workVars
<1>4. job'.bound <= ledger'.id
  BY <1>1 DEF Typed, WorkTyped, workVars
<1>5. review' \in ReviewSets'
  BY DEF Typed, WorkTyped, workVars, ReviewSets
<1> QED BY <1>3, <1>4, <1>5 DEF Typed, WorkTyped, workVars

LEMMA SameClock == clock' = clock => Dated' = Dated /\ WorkSets' = WorkSets
  BY DEF Dated, WorkSets

\* The source, the hook, the scan, the person and the failures.
LEMMA TypedAround ==
    ASSUME Typed, \/ \E c \in Contents : Edits(c) \/ Pulls(c)
                  \/ \E k \in Cards : HandEdits(k) \/ Supersedes(k)
                  \/ HookStep \/ HookDies \/ ScanStep \/ WorkerDies
    PROVE  Typed'
<1> USE DEF sourceVars, queueVars, cardVars, workVars
<1>0. /\ src \in Contents /\ hook \in {"idle", "edited", "recorded"}
      /\ cursor \in [snap : Revs, pend : BOOLEAN] /\ src \in Revs /\ None \in Revs
      /\ lost \in BOOLEAN /\ events \in 0..MaxEvents /\ MaxEvents \in Nat
      /\ clock \in Nat /\ clock + 1 \in Nat /\ clock <= clock + 1
      /\ ledger \in [id : 0..clock, open : BOOLEAN] /\ ledger.id \in 0..clock
      /\ queue \in Seq(Dated) /\ claimed \in Seq(Dated)
  BY WikiAssumption DEF Typed, SourceTyped, QueueTyped, Revs
<1>1. ASSUME NEW c \in Contents, Edits(c) \/ Pulls(c) PROVE Typed'
  <2>1. SourceTyped'
    <3>1. src' = c /\ hook' \in {"edited", hook} /\ cursor' = cursor /\ Happens
          /\ lost' \in {lost, lost \/ (c = cursor.snap /\ ~cursor.pend)}
      BY <1>1 DEF Edits, Pulls
    <3>2. lost' \in BOOLEAN
      BY <1>0, <3>1
    <3> QED BY <1>0, <3>1, <3>2 DEF SourceTyped, Happens
  <2>2. CardTyped' /\ QueueTyped' /\ WorkTyped'
    BY <1>0, <1>1, SameCards, SameQueue, SameWork DEF Edits, Pulls
  <2> QED BY <2>1, <2>2 DEF Typed
<1>2. CASE Records
  <2>1. UNCHANGED <<src, cursor, queue, claimed, jobs, pc, job, review, lost, events>>
        /\ hook' = "recorded" /\ clock' = clock + 1 /\ ledger' = [id |-> clock + 1, open |-> TRUE]
        /\ live' = Earlier(live) /\ staged' = Earlier(staged)
    BY <1>2 DEF Records
  <2>2. SourceTyped'
    BY <1>0, <2>1 DEF SourceTyped
  <2>3. QueueTyped'
    <3>1. Seq(Dated) \subseteq Seq(Dated)'
      BY <1>0, <2>1, DatedGrows
    <3>2. ledger' \in [id : 0..clock', open : BOOLEAN] /\ ledger'.id > 0 /\ clock' \in Nat
      BY <1>0, <2>1
    <3>3. queue' \in Seq(Dated)' /\ claimed' \in Seq(Dated)'
      BY <1>0, <2>1, <3>1
    <3> QED BY <3>2, <3>3 DEF QueueTyped
  <2>4. CardTyped'
    <3>1. ASSUME NEW f \in [Cards -> CardFiles]
          PROVE  /\ Earlier(f) \in [Cards -> CardFiles]
                 /\ \A k \in Cards : Earlier(f)[k].hand = f[k].hand
      <4>1. \A k \in Cards : /\ [f[k] EXCEPT !.since = FALSE] \in CardFiles
                             /\ [f[k] EXCEPT !.since = FALSE].hand = f[k].hand
        BY DEF CardFiles
      <4> QED BY <4>1 DEF Earlier
    <3>2. /\ live \in [Cards -> CardFiles] /\ staged \in [Cards -> CardFiles]
          /\ jobs \in [Cards -> [rev : Revs, staged : BOOLEAN, over : Texts]]
          /\ \A k \in Cards : live[k].hand \in Hands(events) /\ staged[k].hand \in Hands(events)
      BY DEF Typed, CardTyped
    <3> QED BY <2>1, <3>1, <3>2 DEF CardTyped
  <2>5. WorkTyped'
    <3>1. ledger'.id = clock + 1 /\ ledger'.id > ledger.id /\ ledger'.id \in Nat
      BY <1>0, <2>1
    <3> QED BY <2>1, <3>1, SameWork
  <2> QED BY <2>2, <2>3, <2>4, <2>5 DEF Typed
<1>3. CASE Appends
  <2>1. Row(ledger.id, None) \in Dated
    BY <1>0, NewRow DEF Dated
  <2>2. QueueTyped'
    <3>1. UNCHANGED <<clock, ledger, claimed>> /\ queue' = Append(queue, Row(ledger.id, None))
      BY <1>3 DEF Appends
    <3>2. Append(queue, Row(ledger.id, None)) \in Seq(Dated)
      BY <1>0, <2>1, AppendProperties
    <3> QED BY <3>1, <3>2, SameClock DEF Typed, QueueTyped
  <2>3. SourceTyped'
    BY <1>0, <1>3 DEF SourceTyped, Appends
  <2>4. CardTyped' /\ WorkTyped'
    BY <1>0, <1>3, SameCards, SameWork DEF Appends
  <2> QED BY <2>2, <2>3, <2>4 DEF Typed
<1>4. CASE HookDies
  <2>1. SourceTyped'
    BY <1>0, <1>4 DEF SourceTyped, HookDies, Happens
  <2>2. CardTyped' /\ QueueTyped' /\ WorkTyped'
    BY <1>0, <1>4, SameCards, SameQueue, SameWork DEF HookDies
  <2> QED BY <2>1, <2>2 DEF Typed
<1>5. ASSUME NEW last \in {"journalled", "queued", "acked"}, Scans(last) PROVE Typed'
  <2>1. /\ events' = events \/ Happens
        /\ cursor' = [snap |-> src, pend |-> last # "acked"]
        /\ UNCHANGED <<src, hook, ledger, claimed, cardVars, workVars, lost>>
        /\ \/ UNCHANGED <<clock, queue>>
           \/ clock' = clock + 1 /\ queue' = Append(queue, Row(clock + 1, src))
    BY <1>5 DEF Scans
  <2>2. SourceTyped'
    BY <1>0, <2>1 DEF SourceTyped, Happens
  <2>3. CASE UNCHANGED <<clock, queue>>
    <3>1. QueueTyped' /\ WorkTyped' /\ CardTyped'
      BY <1>0, <2>1, <2>3, SameQueue, SameWork, SameCards
    <3> QED BY <2>2, <3>1 DEF Typed
  <2>4. CASE clock' = clock + 1 /\ queue' = Append(queue, Row(clock + 1, src))
    <3>1. Seq(Dated) \subseteq Seq(Dated)'
      BY <1>0, <2>4, DatedGrows
    <3>2. Row(clock + 1, src) \in Dated'
      BY <1>0, <2>4, NewRow DEF Dated
    <3>3. queue' \in Seq(Dated') /\ claimed' \in Seq(Dated')
      BY <1>0, <2>1, <2>4, <3>1, <3>2, AppendProperties
    <3>4. ledger' \in [id : 0..clock', open : BOOLEAN] /\ (ledger'.open => ledger'.id > 0)
      BY <1>0, <2>1, <2>4 DEF Typed, QueueTyped
    <3>5. QueueTyped'
      BY <1>0, <2>4, <3>3, <3>4 DEF QueueTyped
    <3>6. WorkTyped' /\ CardTyped'
      BY <1>0, <2>1, <2>4, SameWork, SameCards
    <3> QED BY <2>2, <3>5, <3>6 DEF Typed
  <2> QED BY <2>1, <2>3, <2>4
<1>6. ASSUME NEW k \in Cards, HandEdits(k) \/ Supersedes(k) PROVE Typed'
  <2>1. /\ live \in [Cards -> CardFiles] /\ staged \in [Cards -> CardFiles]
        /\ jobs \in [Cards -> [rev : Revs, staged : BOOLEAN, over : Texts]]
        /\ \A c \in Cards : live[c].hand \in Hands(events) /\ staged[c].hand \in Hands(events)
    BY DEF Typed, CardTyped
  <2>2. /\ events < MaxEvents /\ events' = events + 1
        /\ UNCHANGED <<src, hook, cursor, queueVars, staged, jobs, workVars, lost>>
    BY <1>6 DEF HandEdits, Supersedes, Happens
  <2>3. SourceTyped' /\ QueueTyped' /\ WorkTyped'
    BY <1>0, <2>2, SameQueue, SameWork DEF SourceTyped
  <2>4. Hands(events) \subseteq Hands(events + 1) /\ Hands(events + 1) \subseteq Hands(MaxEvents)
    BY <1>0, <2>2, HandsGrow
  <2>5. PICK h \in Hands(events + 1), s \in Statuses :
          live' = [live EXCEPT ![k] = [live[k] EXCEPT !.hand = h, !.status = s]]
    <3>1. CASE HandEdits(k)
      <4>1. PICK h \in Edited(live[k].hand) :
              live' = [live EXCEPT ![k].hand = h,
                                   ![k].status = IF @ = "verified" THEN "edited" ELSE @]
        BY <3>1 DEF HandEdits
      <4>2. h \in Hands(events + 1)
        BY <1>0, <2>1, EditedOnce
      <4> DEFINE s == IF live[k].status = "verified" THEN "edited" ELSE live[k].status
      <4>3. s \in Statuses
        BY <2>1 DEF CardFiles, Statuses
      <4>4. live' = [live EXCEPT ![k] = [live[k] EXCEPT !.hand = h, !.status = s]]
        BY <4>1
      <4> HIDE DEF s
      <4> QED BY <4>2, <4>3, <4>4
    <3>2. CASE Supersedes(k)
      <4>1. [live[k] EXCEPT !.status = "superseded"]
              = [live[k] EXCEPT !.hand = live[k].hand, !.status = "superseded"]
        BY <2>1 DEF CardFiles
      <4> QED BY <2>1, <2>4, <3>2, <4>1 DEF Supersedes, Statuses
    <3> QED BY <1>6, <3>1, <3>2
  <2> DEFINE card == [live[k] EXCEPT !.hand = h, !.status = s]
  <2>6. card \in CardFiles /\ card.hand = h
    <3>1. card = [rev |-> live[k].rev, hand |-> h, status |-> s, read |-> live[k].read,
                  since |-> live[k].since]
      BY <2>1, Replaced DEF CardFiles
    <3>2. live[k] \in CardFiles /\ h \in Hands(MaxEvents)
      BY <2>1, <2>4
    <3> HIDE DEF card
    <3> QED BY <3>1, <3>2 DEF CardFiles
  <2>7. live' = [live EXCEPT ![k] = card]
    BY <2>5
  <2> HIDE DEF card
  <2>8. live' \in [Cards -> CardFiles] /\ \A c \in Cards : live'[c].hand \in Hands(events')
    BY <2>1, <2>2, <2>4, <2>6, <2>7
  <2>9. CardTyped'
    BY <2>1, <2>2, <2>4, <2>8 DEF CardTyped
  <2> QED BY <2>3, <2>9 DEF Typed
<1>7. CASE WorkerDies
  <2>1. pc' = "idle" /\ job' = NoWork /\ review' = NoReview /\ Happens
        /\ UNCHANGED <<sourceVars, queueVars, cardVars, lost>>
    BY <1>7 DEF WorkerDies
  <2>2. WorkTyped'
    BY <1>0, <2>1, NoWorkTyped, Empties, SameClock DEF WorkTyped, ReviewSets
  <2>3. SourceTyped' /\ QueueTyped' /\ CardTyped'
    BY <1>0, <2>1, SameSource, SameQueue, SameCards
  <2> QED BY <2>2, <2>3 DEF Typed
<1> QED BY <1>1, <1>2, <1>3, <1>4, <1>5, <1>6, <1>7 DEF HookStep, ScanStep

\* A worker's record with fields replaced by values of their type is one.
LEMMA Fields ==
    ASSUME NEW j \in WorkSets, NEW t \in SUBSET Cards
    PROVE  /\ [j EXCEPT !.todo = t] \in WorkSets /\ [j EXCEPT !.todo = t].bound = j.bound
           /\ [j EXCEPT !.todo = t, !.whole = FALSE] \in WorkSets
           /\ [j EXCEPT !.todo = t, !.whole = FALSE].bound = j.bound
           /\ [j EXCEPT !.todo = t, !.failed = TRUE, !.whole = FALSE] \in WorkSets
           /\ [j EXCEPT !.todo = t, !.failed = TRUE, !.whole = FALSE].bound = j.bound
<1>1. \A w \in WorkSets :
        /\ [w EXCEPT !.todo = t] \in WorkSets /\ [w EXCEPT !.todo = t].bound = w.bound
        /\ [w EXCEPT !.whole = FALSE] \in WorkSets /\ [w EXCEPT !.whole = FALSE].bound = w.bound
        /\ [w EXCEPT !.failed = TRUE] \in WorkSets /\ [w EXCEPT !.failed = TRUE].bound = w.bound
  BY DEF WorkSets
<1>2. /\ [j EXCEPT !.todo = t, !.whole = FALSE] = [[j EXCEPT !.todo = t] EXCEPT !.whole = FALSE]
      /\ [j EXCEPT !.todo = t, !.failed = TRUE, !.whole = FALSE]
           = [[[j EXCEPT !.todo = t] EXCEPT !.failed = TRUE] EXCEPT !.whole = FALSE]
  OBVIOUS
<1>3. /\ [[j EXCEPT !.todo = t] EXCEPT !.whole = FALSE] \in WorkSets
      /\ [[j EXCEPT !.todo = t] EXCEPT !.whole = FALSE].bound = j.bound
      /\ [[[j EXCEPT !.todo = t] EXCEPT !.failed = TRUE] EXCEPT !.whole = FALSE] \in WorkSets
      /\ [[[j EXCEPT !.todo = t] EXCEPT !.failed = TRUE] EXCEPT !.whole = FALSE].bound = j.bound
  BY <1>1
<1> QED BY <1>1, <1>2, <1>3

\* The compile worker.
LEMMA TypedCompile ==
    ASSUME Typed, CompileStep
    PROVE  Typed'
<1> USE DEF sourceVars, queueVars, cardVars, workVars, Goes
<1>0. /\ src \in Contents /\ src \in Revs /\ None \in Revs /\ 0 \in Nat
      /\ lost \in BOOLEAN /\ events \in 0..MaxEvents /\ MaxEvents \in Nat
      /\ clock \in Nat /\ ledger \in [id : 0..clock, open : BOOLEAN] /\ ledger.id \in 0..clock
      /\ queue \in Seq(Dated) /\ claimed \in Seq(Dated)
      /\ job \in WorkSets /\ job.bound <= ledger.id /\ job.row \in Dated
      /\ review \in ReviewSets
  BY WikiAssumption DEF Typed, SourceTyped, QueueTyped, WorkTyped, WorkSets, Revs
<1>1. ASSUME UNCHANGED <<src, hook, cursor, clock>>, lost' \in BOOLEAN, events' = events \/ Happens
      PROVE  SourceTyped' /\ Dated' = Dated /\ WorkSets' = WorkSets
             /\ (UNCHANGED cardVars => CardTyped')
             /\ (UNCHANGED queueVars => QueueTyped')
  BY <1>1, SameSource, SameClock, SameCards, SameQueue
<1>2. ASSUME UNCHANGED <<sourceVars, queueVars, cardVars>>, lost' \in BOOLEAN,
             events' = events \/ Happens,
             pc' \in {"bind", "capture", "guard", "skip", "extract", "write", "settle",
                      "requeue", "verify", "judge", "publish"},
             job' \in WorkSets, job'.bound <= ledger.id, review' \in ReviewSets
      PROVE  Typed'
  <2>1. SourceTyped' /\ CardTyped' /\ QueueTyped' /\ WorkSets' = WorkSets
    BY <1>1, <1>2
  <2>2. ReviewSets' = ReviewSets
    BY DEF ReviewSets
  <2>3. WorkTyped'
    BY <1>2, <2>1, <2>2 DEF WorkTyped
  <2> QED BY <2>1, <2>3 DEF Typed
<1>3. CASE Recovers
  <2>1. /\ pc' = "claim" /\ UNCHANGED <<sourceVars, clock, ledger, claimed, cardVars, job, review, lost, events>>
        /\ queue' = IF ledger.open THEN Append(queue, Row(ledger.id, None)) ELSE queue
    BY <1>3 DEF Recovers
  <2>2. Row(ledger.id, None) \in Dated
    BY <1>0, NewRow DEF Dated
  <2>3. queue' \in Seq(Dated)
    BY <1>0, <2>1, <2>2, AppendProperties
  <2>4. SourceTyped' /\ Dated' = Dated /\ WorkSets' = WorkSets /\ CardTyped'
    BY <1>0, <1>1, <2>1
  <2>5. QueueTyped'
    BY <2>1, <2>3, <2>4 DEF Typed, QueueTyped
  <2>6. WorkTyped'
    BY <1>0, <2>1, <2>4 DEF WorkTyped, ReviewSets
  <2> QED BY <2>4, <2>5, <2>6 DEF Typed
<1>4. CASE Claims
  <2> DEFINE rows == queue \o Reclaimed
  <2>1. rows \in Seq(Dated)
    BY <1>0, ReclaimedRows, ConcatProperties
  <2>2. /\ queue' = <<>> /\ claimed' = rows /\ UNCHANGED <<sourceVars, clock, ledger, cardVars, events>>
        /\ \/ /\ pc' = "verify" /\ review' = VerifyNext /\ job' = job
              /\ lost' = (lost \/ claimed # <<>>)
           \/ /\ rows # <<>> /\ pc' = "bind" /\ job' = [NoWork EXCEPT !.row = Newest(rows)]
              /\ UNCHANGED <<review, lost>>
    BY <1>4 DEF Claims
  <2> HIDE DEF rows
  <2>3. lost' \in BOOLEAN
    BY <1>0, <2>2
  <2>4. SourceTyped' /\ Dated' = Dated /\ WorkSets' = WorkSets /\ CardTyped'
    BY <1>0, <1>1, <2>2, <2>3
  <2>5. QueueTyped'
    <3>1. queue' \in Seq(Dated) /\ claimed' \in Seq(Dated)
      BY <2>1, <2>2
    <3> QED BY <2>2, <2>4, <3>1 DEF Typed, QueueTyped
  <2>6. WorkTyped'
    <3>1. VerifyNext \in ReviewSets
      BY Empties DEF VerifyNext, ReviewSets
    <3> DEFINE work == [NoWork EXCEPT !.row = Newest(rows)]
    <3>2. rows # <<>> => work \in WorkSets /\ work.bound = 0
      BY <1>0, <2>1, NewestIsOne, NoWorkTyped DEF WorkSets
    <3>3. job' \in WorkSets /\ job'.bound <= ledger.id /\ review' \in ReviewSets
      <4>1. \/ job' = job /\ review' = VerifyNext
            \/ rows # <<>> /\ job' = work /\ review' = review
        BY <2>2
      <4>2. 0 <= ledger.id
        BY <1>0
      <4> HIDE DEF work
      <4> QED BY <1>0, <3>1, <3>2, <4>1, <4>2
    <3> QED BY <2>2, <2>4, <3>3 DEF WorkTyped, ReviewSets
  <2> QED BY <2>4, <2>5, <2>6 DEF Typed
<1>5. CASE Binds
  <2>1. job' \in WorkSets /\ job'.bound <= ledger.id
    BY <1>0, <1>5 DEF Binds, WorkSets
  <2> QED BY <1>0, <1>2, <1>5, <2>1 DEF Binds
<1>6. CASE Captures
  <2>1. job' \in WorkSets /\ job'.bound <= ledger.id
    BY <1>0, <1>6 DEF Captures, WorkSets
  <2> QED BY <1>0, <1>2, <1>6, <2>1 DEF Captures
<1>7. CASE Guards
  BY <1>0, <1>2, <1>7 DEF Guards
<1>8. ASSUME SettlesEvent, pc' = "requeue", lost' \in BOOLEAN,
             UNCHANGED <<sourceVars, clock, queue, claimed, cardVars, review, events>>
      PROVE  Typed'
  <2>1. ledger' = [ledger EXCEPT !.open = @ /\ ~Resolvable]
        /\ job' = [job EXCEPT !.keep = job.bound # 0 /\ ~Resolvable]
    BY <1>8 DEF SettlesEvent
  <2>2. /\ ledger' \in [id : 0..clock, open : BOOLEAN] /\ ledger'.id = ledger.id
        /\ ledger'.open => ledger.open
    <3>1. (ledger.open /\ ~Resolvable) \in BOOLEAN
      OBVIOUS
    <3> QED BY <1>0, <2>1, <3>1
  <2>3. job' \in WorkSets /\ job'.bound = job.bound
    <3>1. (job.bound # 0 /\ ~Resolvable) \in BOOLEAN
      OBVIOUS
    <3> QED BY <1>0, <2>1, <3>1 DEF WorkSets
  <2>4. SourceTyped' /\ Dated' = Dated /\ WorkSets' = WorkSets /\ CardTyped'
    BY <1>0, <1>1, <1>8
  <2>5. QueueTyped'
    BY <1>8, <2>2, <2>4 DEF Typed, QueueTyped
  <2>6. WorkTyped'
    BY <1>0, <1>8, <2>2, <2>3, <2>4 DEF WorkTyped, ReviewSets
  <2> QED BY <2>4, <2>5, <2>6 DEF Typed
<1>9. CASE Skips
  <2>1. lost' \in BOOLEAN
    BY <1>0, <1>9 DEF Skips
  <2> QED BY <1>8, <1>9, <2>1 DEF Skips
<1>10. CASE SettlesWhole
  BY <1>0, <1>8, <1>10 DEF SettlesWhole
<1>11. CASE Extracts
  <2>1. PICK cards \in {CardsOf[job.snap], {}} :
          job' = [[job EXCEPT !.todo = cards] EXCEPT !.whole = cards # {}]
    BY <1>0, <1>11 DEF Extracts, WorkSets
  <2>2. job' \in WorkSets /\ job'.bound <= ledger.id
    <3>1. cards \in SUBSET Cards /\ (cards # {}) \in BOOLEAN
      BY <1>0, <1>11, <2>1, WikiAssumption DEF Extracts
    <3> QED BY <1>0, <2>1, <3>1 DEF WorkSets
  <2> QED BY <1>0, <1>2, <1>11, <2>2 DEF Extracts
<1>12. CASE ExtractsLater
  <2>1. job' \in WorkSets /\ job'.bound <= ledger.id
    BY <1>0, <1>12 DEF ExtractsLater, WorkSets
  <2> QED BY <1>0, <1>2, <1>12, <2>1 DEF ExtractsLater
<1>13. CASE ExtractsBadly \/ SettlesHeld
  <2>1. lost' \in BOOLEAN
    BY <1>0, <1>13 DEF ExtractsBadly, SettlesHeld
  <2> QED BY <1>0, <1>2, <1>13, <2>1 DEF ExtractsBadly, SettlesHeld
<1>14. ASSUME NEW k \in Cards, Rejects(k) \/ Holds(k) PROVE Typed'
  <2>1. job' \in WorkSets /\ job'.bound <= ledger.id
    <3>1. job.todo \ {k} \in SUBSET Cards
      BY <1>0 DEF WorkSets
    <3> DEFINE t == job.todo \ {k}
    <3>2. \/ job' = [job EXCEPT !.todo = t, !.failed = TRUE, !.whole = FALSE]
          \/ job' = [job EXCEPT !.todo = t, !.whole = FALSE]
      BY <1>14 DEF Rejects, Holds
    <3> HIDE DEF t
    <3>3. t \in SUBSET Cards
      BY <3>1 DEF t
    <3>4. job \in WorkSets
      BY <1>0
    <3>5. /\ [job EXCEPT !.todo = t] \in WorkSets
          /\ [job EXCEPT !.todo = t].bound = job.bound
          /\ [job EXCEPT !.todo = t, !.whole = FALSE] \in WorkSets
          /\ [job EXCEPT !.todo = t, !.whole = FALSE].bound = job.bound
          /\ [job EXCEPT !.todo = t, !.failed = TRUE, !.whole = FALSE] \in WorkSets
          /\ [job EXCEPT !.todo = t, !.failed = TRUE, !.whole = FALSE].bound = job.bound
      BY <3>3, <3>4, Fields
    <3>6. job' \in WorkSets /\ job'.bound = job.bound
      BY <3>2, <3>5, Zenon
    <3> QED BY <1>0, <3>6
  <2> QED BY <1>0, <1>2, <1>14, <2>1 DEF Rejects, Holds, CardDone
<1>15. CASE SettlesFailed
  <2>1. [job.row EXCEPT !.partial = TRUE] \in Dated
    BY <1>0 DEF Dated, Rows
  <2>2. job' = [[job EXCEPT !.keep = TRUE] EXCEPT !.row = [job.row EXCEPT !.partial = TRUE]]
    BY <1>0, <1>15 DEF SettlesFailed, WorkSets
  <2>3. job' \in WorkSets /\ job'.bound <= ledger.id
    BY <1>0, <2>1, <2>2 DEF WorkSets
  <2> QED BY <1>0, <1>2, <1>15, <2>3 DEF SettlesFailed
<1>16. ASSUME NEW k \in Cards, Writes(k) \/ WritesUnqueued(k) PROVE Typed'
  <2> DEFINE over == Text(IF Trusted(k) THEN live[k] ELSE NoCard)
  <2>1. /\ live \in [Cards -> CardFiles] /\ staged \in [Cards -> CardFiles]
        /\ jobs \in [Cards -> [rev : Revs, staged : BOOLEAN, over : Texts]]
        /\ \A c \in Cards : live[c].hand \in Hands(events) /\ staged[c].hand \in Hands(events)
    BY DEF Typed, CardTyped
  <2>2. /\ \/ jobs' = jobs
           \/ jobs' = [jobs EXCEPT ![k] = [rev |-> job.snap, staged |-> Trusted(k), over |-> over]]
        /\ staged' = staged \/ staged' = [staged EXCEPT ![k] = Compiled(k)]
        /\ live' = live \/ live' = [live EXCEPT ![k] = Compiled(k)]
        /\ UNCHANGED <<sourceVars, queueVars, review, lost>> /\ pc' \in {"write", "settle"}
        /\ events' = events \/ Happens
        /\ \/ job' = [job EXCEPT !.todo = job.todo \ {k}]
           \/ job' = [job EXCEPT !.todo = job.todo \ {k}, !.failed = TRUE, !.whole = FALSE]
    BY <1>16 DEF Writes, WritesUnqueued, CardDone
  <2>3. job.snap \in Revs /\ job' \in WorkSets /\ job'.bound <= ledger.id
    <3>1. job.todo \ {k} \in SUBSET Cards /\ job.snap \in Revs
      BY <1>0 DEF WorkSets
    <3> DEFINE t == job.todo \ {k}
    <3>2. \/ job' = [job EXCEPT !.todo = t]
          \/ job' = [job EXCEPT !.todo = t, !.failed = TRUE, !.whole = FALSE]
      BY <2>2
    <3> HIDE DEF t
    <3>3. t \in SUBSET Cards
      BY <3>1 DEF t
    <3>4. job \in WorkSets
      BY <1>0
    <3>5. /\ [job EXCEPT !.todo = t] \in WorkSets
          /\ [job EXCEPT !.todo = t].bound = job.bound
          /\ [job EXCEPT !.todo = t, !.whole = FALSE] \in WorkSets
          /\ [job EXCEPT !.todo = t, !.whole = FALSE].bound = job.bound
          /\ [job EXCEPT !.todo = t, !.failed = TRUE, !.whole = FALSE] \in WorkSets
          /\ [job EXCEPT !.todo = t, !.failed = TRUE, !.whole = FALSE].bound = job.bound
      BY <3>3, <3>4, Fields
    <3>6. job' \in WorkSets /\ job'.bound = job.bound
      BY <3>2, <3>5, Zenon
    <3> QED BY <1>0, <3>1, <3>6
  <2>4. Compiled(k) \in CardFiles /\ Compiled(k).hand \in Hands(events)
    <3>1. [rest |-> live[k].hand.rest, block |-> 0] \in Hands(events)
      BY <1>0, <2>1 DEF Hands
    <3>2. Hands(events) \subseteq Hands(MaxEvents) /\ Unedited \in Hands(MaxEvents)
      BY <1>0, Empties, HandsGrow
    <3> QED BY <2>3, <3>1, <3>2 DEF Compiled, Card, CardFiles, Statuses
  <2>5. over \in Texts
    BY <2>1, Empties DEF Text, Texts, CardFiles
  <2>6. jobs' \in [Cards -> [rev : Revs, staged : BOOLEAN, over : Texts]]
    <3> HIDE DEF over
    <3>1. [rev |-> job.snap, staged |-> Trusted(k), over |-> over]
            \in [rev : Revs, staged : BOOLEAN, over : Texts]
      BY <2>3, <2>5 DEF Trusted
    <3> QED BY <2>1, <2>2, <3>1
  <2>7. SourceTyped' /\ QueueTyped' /\ WorkSets' = WorkSets
    BY <1>0, <1>1, <2>2
  <2>8. CardTyped'
    <3>1. live' \in [Cards -> CardFiles] /\ staged' \in [Cards -> CardFiles]
      BY <2>1, <2>2, <2>4
    <3>2. \A c \in Cards : live'[c].hand \in Hands(events) /\ staged'[c].hand \in Hands(events)
      BY <2>1, <2>2, <2>4
    <3>3. Hands(events) \subseteq Hands(events')
      BY <1>0, <2>2, HandsGrow DEF Happens
    <3> QED BY <2>6, <3>1, <3>2, <3>3 DEF CardTyped
  <2>9. WorkTyped'
    BY <1>0, <2>2, <2>3, <2>7 DEF WorkTyped, ReviewSets
  <2> QED BY <2>7, <2>8, <2>9 DEF Typed
<1>17. CASE Requeues
  <2>1. /\ pc' = "unlink" /\ UNCHANGED <<sourceVars, clock, ledger, claimed, cardVars, job, review, lost, events>>
        /\ queue' = IF job.keep THEN Append(queue, job.row) ELSE queue
    BY <1>17 DEF Requeues
  <2>2. queue' \in Seq(Dated)
    BY <1>0, <2>1, AppendProperties
  <2>3. SourceTyped' /\ Dated' = Dated /\ WorkSets' = WorkSets /\ CardTyped'
    BY <1>0, <1>1, <2>1
  <2>4. QueueTyped'
    BY <2>1, <2>2, <2>3 DEF Typed, QueueTyped
  <2>5. WorkTyped'
    BY <1>0, <2>1, <2>3 DEF WorkTyped, ReviewSets
  <2> QED BY <2>3, <2>4, <2>5 DEF Typed
<1>18. CASE Unlinks
  <2>1. /\ pc' = "verify" /\ claimed' = <<>> /\ job' = NoWork /\ review' = VerifyNext
        /\ UNCHANGED <<sourceVars, clock, ledger, queue, cardVars, lost, events>>
    BY <1>18 DEF Unlinks
  <2>2. SourceTyped' /\ Dated' = Dated /\ WorkSets' = WorkSets /\ CardTyped'
    BY <1>0, <1>1, <2>1
  <2>3. VerifyNext \in ReviewSets
    BY Empties DEF VerifyNext, ReviewSets
  <2>4. QueueTyped'
    BY <2>1, <2>2 DEF Typed, QueueTyped
  <2>5. WorkTyped'
    BY <1>0, <2>1, <2>2, <2>3, NoWorkTyped DEF WorkTyped, ReviewSets
  <2> QED BY <2>2, <2>4, <2>5 DEF Typed
<1> QED
  BY <1>3, <1>4, <1>5, <1>6, <1>7, <1>9, <1>10, <1>11, <1>12, <1>13, <1>14, <1>15, <1>16, <1>17,
     <1>18 DEF CompileStep

\* The verify pass.
LEMMA TypedVerify ==
    ASSUME Inv, Typed, VerifyStep
    PROVE  Typed'
<1> USE DEF sourceVars, queueVars, cardVars, workVars, Goes
<1>0. /\ lost \in BOOLEAN /\ events \in 0..MaxEvents /\ MaxEvents \in Nat
      /\ job \in WorkSets /\ job.bound <= ledger.id /\ review \in ReviewSets
      /\ live \in [Cards -> CardFiles] /\ staged \in [Cards -> CardFiles]
      /\ jobs \in [Cards -> [rev : Revs, staged : BOOLEAN, over : Texts]]
      /\ \A k \in Cards : live[k].hand \in Hands(events) /\ staged[k].hand \in Hands(events)
  BY WikiAssumption DEF Typed, SourceTyped, CardTyped, WorkTyped
<1>1. ASSUME UNCHANGED <<sourceVars, queueVars, job>>, lost' \in BOOLEAN,
             events' = events \/ Happens, review' \in ReviewSets,
             pc' \in {"idle", "verify", "judge", "publish"}, CardTyped'
      PROVE  Typed'
  <2>1. SourceTyped' /\ QueueTyped'
    BY <1>1, SameSource, SameQueue
  <2>2. WorkSets' = WorkSets /\ ReviewSets' = ReviewSets
    BY <1>1, SameClock DEF ReviewSets
  <2>3. WorkTyped'
    BY <1>0, <1>1, <2>2 DEF WorkTyped
  <2> QED BY <1>1, <2>1, <2>3 DEF Typed
<1>2. ASSUME UNCHANGED cardVars, events' = events \/ Happens
      PROVE  CardTyped'
  BY <1>2, SameCards
<1>3. ASSUME NEW k \in Cards
      PROVE  Processed(k) \/ review' = [review EXCEPT !.todo = @ \ {k}]
                          \/ review' = [review EXCEPT !.todo = @ \ {k}, !.card = k]
                => review' \in ReviewSets
  <2>1. Processed(k) => review' \in ReviewSets
    <3>1. review.todo \ {k} \in SUBSET Cards /\ review.done \cup {k} \in SUBSET Cards
      BY <1>0 DEF ReviewSets
    <3> DEFINE todo == review.todo \ {k}
               done == review.done \cup {k}
    <3>2. Processed(k) => review' = [[NoReview EXCEPT !.todo = todo] EXCEPT !.done = done]
      BY Empties DEF Processed, ReviewSets
    <3> HIDE DEF todo, done
    <3>3. [[NoReview EXCEPT !.todo = todo] EXCEPT !.done = done] \in ReviewSets
      BY <3>1, Empties DEF ReviewSets, todo, done
    <3> QED BY <3>2, <3>3
  <2>2. [review EXCEPT !.todo = @ \ {k}] \in ReviewSets
    BY <1>0 DEF ReviewSets
  <2>3. [review EXCEPT !.todo = @ \ {k}, !.card = k] \in ReviewSets
    BY <1>0 DEF ReviewSets
  <2> QED BY <2>1, <2>2, <2>3
<1>4. ASSUME NEW k \in Cards, Replays(k) \/ Discards(k) \/ Defers(k) PROVE Typed'
  BY <1>0, <1>1, <1>2, <1>3, <1>4 DEF Replays, Discards, Defers, Picks
<1>5. ASSUME NEW k \in Cards, Reads(k) PROVE Typed'
  <2>1. Target(k) \in CardFiles
    BY <1>0 DEF Target
  <2>2. Text(Target(k)) \in Texts
    BY <2>1 DEF Text, Texts, CardFiles
  <2>3. review' \in ReviewSets
    BY <1>0, <1>5, <2>2 DEF Reads, ReviewSets
  <2> QED BY <1>0, <1>1, <1>2, <1>5, <2>3 DEF Reads
<1>6. pc = "judge" \/ pc = "publish" => review.card \in Cards
  BY DEF Inv, Reviewed
<1>7. CASE ChangedMeanwhile \/ Fails
  <2>1. Processed(review.card) /\ review.card \in Cards /\ pc' = "verify" /\ (events' = events \/ Happens)
        /\ UNCHANGED <<sourceVars, queueVars, cardVars, job, lost>>
    BY <1>6, <1>7 DEF ChangedMeanwhile, Fails
  <2> QED BY <1>0, <1>1, <1>2, <1>3, <2>1
<1>8. CASE JudgesLater \/ PublishesLater
  BY <1>0, <1>1, <1>2, <1>8 DEF JudgesLater, PublishesLater
<1>9. CASE Passes
  <2> DEFINE k == review.card
  <2>1. k \in Cards /\ UNCHANGED <<sourceVars, queueVars, jobs, job, lost, events>>
        /\ \/ /\ staged' = [staged EXCEPT ![k] = Stamped(staged[k])] /\ pc' = "publish"
              /\ UNCHANGED <<live, review>>
           \/ /\ live' = [live EXCEPT ![k] = Stamped(live[k])] /\ pc' = "verify"
              /\ Processed(k) /\ UNCHANGED staged
    BY <1>6, <1>9 DEF Passes
  <2>2. review.text[2] \in Hands(MaxEvents)
    BY <1>0 DEF ReviewSets, Texts
  <2>3. \A f \in CardFiles : Stamped(f) \in CardFiles /\ Stamped(f).hand = f.hand
    BY <2>2 DEF Stamped, CardFiles, Statuses
  <2>4. CardTyped'
    <3> HIDE DEF k
    <3>1. CASE staged' = [staged EXCEPT ![k] = Stamped(staged[k])] /\ UNCHANGED live
      <4>1. Stamped(staged[k]) \in CardFiles /\ Stamped(staged[k]).hand = staged[k].hand
        BY <1>0, <2>1, <2>3
      <4> QED BY <1>0, <2>1, <3>1, <4>1 DEF CardTyped
    <3>2. CASE live' = [live EXCEPT ![k] = Stamped(live[k])] /\ UNCHANGED staged
      <4>1. Stamped(live[k]) \in CardFiles /\ Stamped(live[k]).hand = live[k].hand
        BY <1>0, <2>1, <2>3
      <4> QED BY <1>0, <2>1, <3>2, <4>1 DEF CardTyped
    <3> QED BY <2>1, <3>1, <3>2
  <2>5. review' \in ReviewSets
    BY <1>0, <1>3, <2>1
  <2> QED BY <1>0, <1>1, <2>1, <2>4, <2>5
<1>10. CASE Publishes
  <2> DEFINE k == review.card
  <2>1. /\ k \in Cards /\ UNCHANGED <<sourceVars, queueVars, jobs, job, events>>
        /\ pc' = "verify" /\ Processed(k)
        /\ live' = [live EXCEPT ![k] = staged[k]] \/ live' = live
        /\ staged' = [staged EXCEPT ![k] = NoCard]
    <3>1. k \in Cards /\ live = [live EXCEPT ![k] = live[k]]
      BY <1>0, <1>6, <1>10 DEF Publishes
    <3>2. CASE Text(live[k]) = jobs[k].over
      BY <1>10, <3>1, <3>2 DEF Publishes
    <3>3. CASE Text(live[k]) # jobs[k].over
      <4>1. live' = [live EXCEPT ![k] = live[k]]
        BY <1>10, <3>3 DEF Publishes
      <4> QED BY <1>10, <3>1, <4>1 DEF Publishes
    <3> QED BY <3>2, <3>3
  <2>2. lost' \in BOOLEAN
    BY <1>0, <1>10 DEF Publishes
  <2>3. CardTyped'
    BY <1>0, <2>1, Empties DEF CardTyped
  <2> QED BY <1>0, <1>1, <1>3, <2>1, <2>2, <2>3
<1>11. CASE Ends
  <2>1. CardTyped'
    <3>1. jobs' \in [Cards -> [rev : Revs, staged : BOOLEAN, over : Texts]]
      BY <1>0, <1>11, Empties DEF Ends
    <3> QED BY <1>0, <1>11, <3>1 DEF Ends, CardTyped
  <2> QED BY <1>0, <1>1, <1>11, <2>1, Empties DEF Ends
<1> QED BY <1>4, <1>5, <1>7, <1>8, <1>9, <1>10, <1>11 DEF VerifyStep

LEMMA TypedKept == Inv /\ Typed /\ [Next]_vars => Typed'
<1>1. ASSUME UNCHANGED vars, Typed PROVE Typed'
  <2>1. UNCHANGED <<sourceVars, queueVars, cardVars, workVars, lost, events>>
    BY <1>1 DEF vars
  <2>2. UNCHANGED <<src, hook, cursor, clock, ledger, queue, claimed, live, staged, jobs, pc, job,
                    review, lost, events>>
    BY <2>1 DEF sourceVars, queueVars, cardVars, workVars
  <2>3. Dated' = Dated /\ WorkSets' = WorkSets /\ ReviewSets' = ReviewSets
    BY <2>2, SameClock DEF ReviewSets
  <2> QED BY <1>1, <2>2, <2>3 DEF Typed, SourceTyped, QueueTyped, CardTyped, WorkTyped
<1> QED BY <1>1, TypedAround, TypedCompile, TypedVerify DEF Next

\* The queues, the ledger, the cards and the worker have their types: no row is
\* requeued past MAX_REQUEUE_COUNT, and dedup_jobs always finds one to work on.
THEOREM TypeCorrect == Spec => []TypeOK
<1>1. Spec => []Typed
  <2>1. Init => Typed
    BY TypedStarts
  <2> QED BY <2>1, TypedKept, Invariance, PTL DEF Spec
<1>2. Typed => TypeOK
  <2>1. Dated \subseteq Rows
    BY DEF Dated
  <2>2. Seq(Dated) \subseteq Seq(Rows)
    BY <2>1, SeqMonotonic
  <2> QED BY <2>1, <2>2 DEF Typed, SourceTyped, QueueTyped, CardTyped, WorkTyped, TypeOK, WorkSets, ReviewSets
<1> QED BY <1>1, <1>2, PTL

-----------------------------------------------------------------------------
(* Coverage: a source is not forgotten *)

\* The worker has claimed rows from its first job to the unlink.
Claimed ==
    pc \in {"bind", "capture", "guard", "skip", "extract", "write", "settle", "requeue", "unlink"}
        => claimed # <<>>

\* No hook, no row and no scan is about to tell of a change.
NoNews == hook # "edited" /\ queue = <<>> /\ cursor = [snap |-> src, pend |-> FALSE]

\* The content at work is the source's, unless a newer event or row tells of it.
Captured ==
    pc \in {"guard", "skip", "extract", "write", "settle"} /\ ~lost /\ NoNews
        /\ ~(ledger.open /\ ledger.id # job.bound) => src = job.snap

\* Of a whole extraction no card that was refused or held, what is done is compiled.
Written ==
    /\ pc \in {"write", "settle"} => job.snap \in Contents
    /\ pc = "settle" => job.todo = {}
    /\ pc \in {"write", "settle"} /\ job.whole /\ ~job.failed =>
         \A k \in CardsOf[job.snap] \ job.todo : live[k].rev = job.snap \/ staged[k].rev = job.snap

\* Nothing is owed once the row at work is done and is not to be kept.
Settled ==
    pc \in {"requeue", "unlink", "verify", "judge", "publish"} /\ ~(pc = "requeue" /\ job.keep)

\* Without news, the cards are of the source or a claimed row still stands for it.
Covered == ~lost /\ NoNews /\ ~ledger.open => Whole(src) \/ (claimed # <<>> /\ ~Settled)

Coverage == Claimed /\ Captured /\ Written /\ Covered

\* A step that keeps every card's revision keeps what is whole.
LEMMA SameRevs ==
    ASSUME src' = src, src \in Contents,
           \A k \in Cards : live'[k].rev = live[k].rev /\ staged'[k].rev = staged[k].rev
    PROVE  Whole(src) => Whole(src)'
<1>1. CardsOf[src] \subseteq Cards
  BY WikiAssumption
<1> QED BY <1>1 DEF Whole

LEMMA Uncompiled == Init => Coverage
<1> SUFFICES ASSUME Init PROVE Coverage
  OBVIOUS
<1>1. First \in Contents /\ First # None /\ CardsOf[First] \subseteq Cards
  BY WikiAssumption
<1>2. CASE cursor = [snap |-> None, pend |-> FALSE]
  <2>1. cursor.snap = None /\ [snap |-> src, pend |-> FALSE].snap = First
    BY <1>2 DEF Init
  <2>2. ~NoNews
    BY <1>1, <2>1 DEF NoNews
  <2> QED BY <2>2 DEF Init, Coverage, Claimed, Captured, Written, Covered
<1>3. CASE live = [k \in Cards |-> IF k \in CardsOf[First]
                                       THEN Card(First, Unedited, "verified") ELSE NoCard]
  <2>1. \A k \in CardsOf[First] : live[k].rev = First
    BY <1>1, <1>3 DEF Card
  <2> QED BY <2>1 DEF Init, Coverage, Claimed, Captured, Written, Covered, Whole
<1> QED BY <1>2, <1>3 DEF Init

\* What comes from outside either is news or changes nothing of the work.
LEMMA Tells ==
    ASSUME Typed, ~lost', NoNews',
           (\E c \in Contents : Edits(c) \/ Pulls(c)) \/ HookStep \/ HookDies \/ ScanStep
    PROVE  \/ Records
           \/ ~lost /\ NoNews /\ UNCHANGED <<src, ledger, claimed, live, staged, pc, job>>
<1> USE DEF sourceVars, queueVars, cardVars, workVars
<1>0. /\ cursor \in [snap : Revs, pend : BOOLEAN] /\ queue \in Seq(Dated) /\ lost \in BOOLEAN
      /\ cursor' = [snap |-> src', pend |-> FALSE] /\ queue' = <<>> /\ hook' # "edited"
  BY DEF Typed, SourceTyped, QueueTyped, NoNews
<1>1. cursor'.snap = src' /\ ~cursor'.pend
  BY <1>0
<1>2. ASSUME NEW c \in Contents, Edits(c) \/ Pulls(c) PROVE FALSE
  BY <1>0, <1>1, <1>2 DEF Edits, Pulls
<1>3. CASE Appends
  <2>1. queue' = Append(queue, Row(ledger.id, None))
    BY <1>3 DEF Appends
  <2>2. queue' # <<>>
    BY <1>0, <2>1
  <2> QED BY <1>0, <2>2
<1>4. ASSUME NEW last \in {"journalled", "queued", "acked"}, Scans(last) PROVE FALSE
  <2>1. last = "acked"
    BY <1>1, <1>4 DEF Scans
  <2>2. CASE \E i \in DOMAIN queue : queue[i].rev = src
    <3>1. queue' = queue /\ DOMAIN queue # {}
      BY <1>4, <2>1, <2>2 DEF Scans
    <3> QED BY <1>0, <3>1
  <2>3. CASE ~\E i \in DOMAIN queue : queue[i].rev = src
    <3>1. queue' = Append(queue, Row(clock + 1, src))
      BY <1>4, <2>1, <2>3 DEF Scans
    <3>2. queue' # <<>>
      BY <1>0, <3>1
    <3> QED BY <1>0, <3>2
  <2> QED BY <2>2, <2>3
<1>5. CASE HookDies
  BY <1>0, <1>1, <1>5 DEF HookDies, NoNews
<1> QED BY <1>2, <1>3, <1>4, <1>5 DEF HookStep, ScanStep

LEMMA CoveredAround ==
    ASSUME Typed, Coverage,
           \/ \E c \in Contents : Edits(c) \/ Pulls(c)
           \/ \E k \in Cards : HandEdits(k) \/ Supersedes(k)
           \/ HookStep \/ HookDies \/ ScanStep \/ WorkerDies
    PROVE  Coverage'
<1> USE DEF sourceVars, queueVars, cardVars, workVars
<1>0. /\ src \in Contents /\ live \in [Cards -> CardFiles] /\ staged \in [Cards -> CardFiles]
      /\ clock \in Nat /\ ledger.id \in 0..clock /\ job.bound \in Nat /\ job.bound <= ledger.id
  BY DEF Typed, SourceTyped, QueueTyped, CardTyped, WorkTyped, WorkSets
<1>1. CASE WorkerDies
  BY <1>0, <1>1 DEF WorkerDies, Coverage, Claimed, Captured, Written, Covered, Settled, NoNews, Whole
<1>2. ASSUME UNCHANGED <<pc, job, claimed>>,
             \A k \in Cards : live'[k].rev = live[k].rev /\ staged'[k].rev = staged[k].rev
      PROVE  Claimed' /\ Written'
  <2>1. job.snap \in Contents => CardsOf[job.snap] \subseteq Cards
    BY WikiAssumption
  <2> QED BY <1>2, <2>1 DEF Coverage, Claimed, Written
<1>3. CASE Records
  <2>1. /\ UNCHANGED <<pc, job, claimed>> /\ ledger' = [id |-> clock + 1, open |-> TRUE]
        /\ live' = Earlier(live) /\ staged' = Earlier(staged)
    BY <1>3 DEF Records
  <2>2. \A f \in [Cards -> CardFiles] : \A k \in Cards : Earlier(f)[k].rev = f[k].rev
    BY DEF Earlier, CardFiles
  <2>3. Claimed' /\ Written'
    BY <1>0, <1>2, <2>1, <2>2
  <2>4. ledger'.open /\ ledger'.id # job'.bound
    BY <1>0, <2>1
  <2>5. Captured' /\ Covered'
    BY <2>4 DEF Captured, Covered
  <2> QED BY <2>3, <2>5 DEF Coverage
<1>4. ASSUME (\E c \in Contents : Edits(c) \/ Pulls(c)) \/ HookStep \/ HookDies \/ ScanStep,
             ~Records
      PROVE  Coverage'
  <2>1. UNCHANGED <<pc, job, claimed, live, staged>>
    BY <1>4 DEF Edits, Pulls, HookStep, Appends, HookDies, ScanStep, Scans
  <2>2. Claimed' /\ Written'
    BY <1>2, <2>1
  <2>3. CASE lost' \/ ~NoNews'
    BY <2>2, <2>3 DEF Coverage, Captured, Covered
  <2>4. CASE ~lost' /\ NoNews'
    <3>1. ~lost /\ NoNews /\ UNCHANGED <<src, ledger, claimed, live, staged, pc, job>>
      BY <1>4, <2>4, Tells
    <3>2. Captured' /\ Covered'
      BY <2>4, <3>1 DEF Coverage, Captured, Covered, Settled, Whole
    <3> QED BY <2>2, <3>2 DEF Coverage
  <2> QED BY <2>3, <2>4
<1>5. ASSUME NEW k \in Cards, HandEdits(k) \/ Supersedes(k) PROVE Coverage'
  <2>1. UNCHANGED <<src, hook, cursor, queue, ledger, claimed, pc, job, lost>>
    BY <1>5 DEF HandEdits, Supersedes
  <2>2. \A c \in Cards : live'[c].rev = live[c].rev /\ staged'[c].rev = staged[c].rev
    <3>1. CASE HandEdits(k)
      <4>1. PICK h : live' = [live EXCEPT ![k].hand = h,
                                          ![k].status = IF @ = "verified" THEN "edited" ELSE @]
        BY <3>1 DEF HandEdits
      <4> DEFINE s == IF live[k].status = "verified" THEN "edited" ELSE live[k].status
      <4>2. live' = [live EXCEPT ![k] = [live[k] EXCEPT !.hand = h, !.status = s]]
        BY <4>1
      <4> HIDE DEF s
      <4>3. [live[k] EXCEPT !.hand = h, !.status = s].rev = live[k].rev
        <5>1. live[k] \in CardFiles
          BY <1>0
        <5>2. [live[k] EXCEPT !.hand = h, !.status = s]
                = [rev |-> live[k].rev, hand |-> h, status |-> s, read |-> live[k].read,
                   since |-> live[k].since]
          BY <5>1, Replaced DEF CardFiles
        <5> QED BY <5>2
      <4> QED BY <1>0, <3>1, <4>2, <4>3 DEF HandEdits
    <3>2. CASE Supersedes(k)
      BY <1>0, <3>2 DEF Supersedes, CardFiles
    <3> QED BY <1>5, <3>1, <3>2
  <2>3. Claimed' /\ Written'
    BY <1>2, <2>1, <2>2
  <2>4. Whole(src) => Whole(src)'
    BY <1>0, <2>1, <2>2, SameRevs
  <2> QED BY <2>1, <2>3, <2>4 DEF Coverage, Captured, Covered, Settled, NoNews
<1> QED BY <1>1, <1>3, <1>4, <1>5 DEF HookStep

\* The compile worker.
LEMMA CoveredCompile ==
    ASSUME Typed, Coverage, CompileStep
    PROVE  Coverage'
<1> USE DEF sourceVars, queueVars, cardVars, workVars, Goes
<1>0. /\ src \in Contents /\ live \in [Cards -> CardFiles] /\ staged \in [Cards -> CardFiles]
      /\ lost \in BOOLEAN /\ queue \in Seq(Dated) /\ claimed \in Seq(Dated) /\ clock \in Nat
      /\ ledger \in [id : 0..clock, open : BOOLEAN] /\ (ledger.open => ledger.id > 0)
      /\ job \in WorkSets
  BY DEF Typed, SourceTyped, QueueTyped, CardTyped, WorkTyped
<1>1. CASE Recovers
  <2>1. queue' = <<>> => queue = <<>>
    BY <1>0, <1>1 DEF Recovers
  <2>2. Claimed' /\ Captured' /\ Written'
    BY <1>1 DEF Recovers, Claimed, Captured, Written
  <2>3. Covered'
    <3>1. NoNews' => NoNews
      BY <1>1, <2>1 DEF Recovers, NoNews
    <3> QED BY <1>1, <3>1 DEF Recovers, Coverage, Covered, Settled, Whole
  <2> QED BY <2>2, <2>3 DEF Coverage
<1>2. CASE Claims
  <2> DEFINE rows == queue \o Reclaimed
  <2>1. rows = <<>> => queue = <<>>
    <3>1. Reclaimed \in Seq(Dated)
      BY <1>0, ReclaimedRows
    <3> QED BY <1>0, <3>1
  <2>2. /\ claimed' = rows /\ UNCHANGED <<src, hook, cursor, ledger, live, staged>>
        /\ \/ rows = <<>> /\ pc = "claim" /\ pc' = "verify" /\ lost' = (lost \/ claimed # <<>>)
           \/ rows # <<>> /\ pc' = "bind"
    BY <1>2 DEF Claims
  <2> HIDE DEF rows
  <2>3. Claimed' /\ Captured' /\ Written'
    BY <2>2 DEF Claimed, Captured, Written
  <2>4. Covered'
    <3>1. CASE rows # <<>>
      BY <2>2, <3>1 DEF Covered, Settled
    <3>2. CASE rows = <<>>
      BY <2>1, <2>2, <3>2 DEF Coverage, Covered, NoNews, Whole
    <3> QED BY <3>1, <3>2
  <2> QED BY <2>3, <2>4 DEF Coverage
<1>3. CASE Binds \/ Captures \/ Guards
  <2>1. /\ UNCHANGED <<src, hook, cursor, queue, claimed, ledger, live, staged, lost>>
        /\ pc \in {"bind", "capture", "guard"} /\ pc' \in {"capture", "guard", "skip", "extract"}
    BY <1>3 DEF Binds, Captures, Guards
  <2>2. CASE pc = "guard"
    BY <1>3, <2>1, <2>2 DEF Binds, Captures, Guards, Coverage, Captured, NoNews,
       Claimed, Written, Covered, Settled
  <2>3. CASE pc # "guard"
    <3>1. pc' # "capture" => job'.snap = src'
      BY <1>0, <1>3, <2>1, <2>3 DEF Binds, Captures, Guards, WorkSets
    <3> QED BY <2>1, <3>1 DEF Coverage, Claimed, Captured, Written, Covered, Settled
  <2> QED BY <2>2, <2>3
\* Once an event is settled and its row is not kept, the content was the source's.
<1>4. ASSUME pc \in {"skip", "settle"}, pc' = "requeue", SettlesEvent,
             UNCHANGED <<src, hook, cursor, queue, claimed, live, staged>>, lost' \in BOOLEAN,
             lost => lost', ~lost' /\ ~job'.keep => src # job.snap \/ Whole(job.snap)
      PROVE  Coverage'
  <2>1. /\ ledger' = [ledger EXCEPT !.open = @ /\ ~Resolvable]
        /\ job' = [job EXCEPT !.keep = job.bound # 0 /\ ~Resolvable]
    BY <1>4 DEF SettlesEvent
  <2>2. /\ ledger'.open = (ledger.open /\ ~Resolvable)
        /\ job'.keep = (job.bound # 0 /\ ~Resolvable)
    BY <1>0, <2>1 DEF WorkSets
  <2>3. Claimed' /\ Captured' /\ Written'
    BY <1>4 DEF Coverage, Claimed, Captured, Written
  <2>4. Covered'
    <3> SUFFICES ASSUME ~lost', NoNews', ~ledger'.open, ~job'.keep
                 PROVE  Whole(src)'
      BY <1>4, <2>3 DEF Claimed, Covered, Settled
    <3>1. ~lost /\ NoNews
      BY <1>0, <1>4 DEF NoNews
    <3>2. src = job.snap
      <4>1. CASE Resolvable
        BY <4>1 DEF Resolvable
      <4>2. CASE ~Resolvable
        <5>1. ~ledger.open
          BY <2>2, <4>2
        <5> QED BY <1>4, <3>1, <5>1 DEF Coverage, Captured
      <4> QED BY <4>1, <4>2
    <3>3. Whole(src)
      BY <1>4, <3>2
    <3> QED BY <1>4, <3>3 DEF Whole
  <2> QED BY <2>3, <2>4 DEF Coverage
<1>5. CASE Skips
  <2>1. lost' = (lost \/ (~job'.keep /\ ~Whole(job.snap)))
    BY <1>5 DEF Skips
  <2>2. lost' \in BOOLEAN
    BY <1>0, <2>1
  <2>3. (lost => lost') /\ (~lost' /\ ~job'.keep => Whole(job.snap))
    BY <2>1
  <2> QED BY <1>4, <1>5, <2>2, <2>3 DEF Skips
<1>6. CASE SettlesWhole
  <2>1. Whole(job.snap)
    BY <1>6 DEF SettlesWhole, Coverage, Written, Whole
  <2> QED BY <1>0, <1>4, <1>6, <2>1 DEF SettlesWhole
<1>7. CASE Extracts
  <2>1. PICK cards \in {CardsOf[job.snap], {}} :
          /\ pc' = IF cards = {} THEN "settle" ELSE "write"
          /\ job' = [[job EXCEPT !.todo = cards] EXCEPT !.whole = cards # {}]
    BY <1>0, <1>7 DEF Extracts, WorkSets
  <2>2. /\ pc = "extract" /\ src = job.snap
        /\ UNCHANGED <<src, hook, cursor, queue, claimed, ledger, live, staged, lost>>
    BY <1>7 DEF Extracts
  <2>3. /\ job'.snap = job.snap /\ job'.todo = cards /\ job'.bound = job.bound
        /\ job'.whole => cards = CardsOf[job.snap]
    BY <1>0, <2>1 DEF WorkSets
  <2>4. Claimed' /\ Captured' /\ Covered'
    BY <1>0, <2>1, <2>2, <2>3 DEF Coverage, Claimed, Captured, Covered, Settled
  <2>5. Written'
    BY <1>0, <2>1, <2>2, <2>3 DEF Written
  <2> QED BY <2>4, <2>5 DEF Coverage
<1>8. CASE ExtractsLater \/ ExtractsBadly \/ SettlesHeld \/ SettlesFailed
  <2>1. /\ UNCHANGED <<src, hook, cursor, queue, claimed, ledger, live, staged>>
        /\ pc \in {"extract", "settle"} /\ pc' = "requeue"
    BY <1>8 DEF ExtractsLater, ExtractsBadly, SettlesHeld, SettlesFailed
  <2>2. (lost => lost') /\ (job'.keep \/ lost' \/ ledger.open \/ (pc = "settle" /\ Whole(job.snap)))
    BY <1>0, <1>8 DEF ExtractsLater, ExtractsBadly, SettlesHeld, SettlesFailed, WorkSets
  <2>3. Claimed' /\ Captured' /\ Written'
    BY <2>1 DEF Coverage, Claimed, Captured, Written
  <2>4. Covered'
    <3> SUFFICES ASSUME ~lost', NoNews', ~ledger.open, ~job'.keep
                 PROVE  Whole(src)'
      BY <2>1, <2>3 DEF Claimed, Covered, Settled
    <3>1. ~lost /\ NoNews /\ pc = "settle" /\ Whole(job.snap)
      BY <2>1, <2>2 DEF NoNews
    <3>2. src = job.snap
      BY <3>1 DEF Coverage, Captured
    <3> QED BY <2>1, <3>1, <3>2 DEF Whole
  <2> QED BY <2>3, <2>4 DEF Coverage
<1>9. ASSUME NEW k \in Cards, Writes(k) \/ WritesUnqueued(k) \/ Rejects(k) \/ Holds(k)
      PROVE  Coverage'
  <2>1. /\ UNCHANGED <<src, hook, cursor, queue, claimed, ledger, lost>>
        /\ pc = "write" /\ k \in job.todo
        /\ pc' = IF job.todo = {k} THEN "settle" ELSE "write"
    BY <1>9 DEF Writes, WritesUnqueued, Rejects, Holds, CardDone
  <2>2. /\ job'.todo = job.todo \ {k} /\ job'.snap = job.snap /\ job'.bound = job.bound
        /\ job'.whole /\ ~job'.failed => job.whole /\ ~job.failed /\ Writes(k)
    BY <1>0, <1>9 DEF Writes, WritesUnqueued, Rejects, Holds, WorkSets
  <2>3. Claimed' /\ Captured' /\ Covered'
    BY <2>1, <2>2 DEF Coverage, Claimed, Captured, Covered, Settled, NoNews
  <2>4. ASSUME job'.whole, ~job'.failed, NEW c \in CardsOf[job.snap] \ job'.todo
        PROVE  live'[c].rev = job.snap \/ staged'[c].rev = job.snap
    <3>1. \/ staged' = [staged EXCEPT ![k] = Compiled(k)] /\ live' = live
          \/ live' = [live EXCEPT ![k] = Compiled(k)] /\ staged' = staged
      BY <2>2, <2>4 DEF Writes
    <3>2. Compiled(k).rev = job.snap
      BY DEF Compiled, Card
    <3>3. CASE c = k
      BY <1>0, <3>1, <3>2, <3>3
    <3>4. CASE c # k
      <4>1. c \in CardsOf[job.snap] \ job.todo /\ job.whole /\ ~job.failed
        BY <2>2, <2>4, <3>4
      <4>2. live[c].rev = job.snap \/ staged[c].rev = job.snap
        BY <2>1, <4>1 DEF Coverage, Written
      <4>3. c \in Cards
        BY <2>1, WikiAssumption DEF Coverage, Written
      <4>4. live'[c] = live[c] /\ staged'[c] = staged[c]
        BY <1>0, <3>1, <3>4, <4>3
      <4> QED BY <4>2, <4>4
    <3> QED BY <3>3, <3>4
  <2>5. Written'
    BY <2>1, <2>2, <2>4 DEF Coverage, Written
  <2> QED BY <2>3, <2>5 DEF Coverage
<1>10. CASE Requeues
  <2>1. /\ UNCHANGED <<src, hook, cursor, claimed, ledger, live, staged, job, lost>>
        /\ pc = "requeue" /\ pc' = "unlink"
        /\ queue' = IF job.keep THEN Append(queue, job.row) ELSE queue
    BY <1>10 DEF Requeues
  <2>2. queue' = <<>> => ~job.keep /\ queue = <<>>
    <3>1. job.row \in Dated
      BY <1>0 DEF WorkSets
    <3>2. Append(queue, job.row) # <<>>
      BY <1>0, <3>1
    <3> QED BY <2>1, <3>2
  <2> QED BY <2>1, <2>2 DEF Coverage, Claimed, Captured, Written, Covered, Settled, NoNews, Whole
<1>11. CASE Unlinks
  BY <1>11 DEF Unlinks, Coverage, Claimed, Captured, Written, Covered, Settled, NoNews, Whole
<1> QED
  BY <1>1, <1>2, <1>3, <1>5, <1>6, <1>7, <1>8, <1>9, <1>10, <1>11 DEF CompileStep

\* The verify pass publishes what it stamped, or it is known to forget.
LEMMA CoveredVerify ==
    ASSUME Inv, Typed, Coverage, VerifyStep
    PROVE  Coverage'
<1> USE DEF sourceVars, queueVars, cardVars, workVars, Goes
<1>0. /\ src \in Contents /\ live \in [Cards -> CardFiles] /\ staged \in [Cards -> CardFiles]
      /\ CardsOf[src] \subseteq Cards
  BY WikiAssumption DEF Typed, SourceTyped, CardTyped
<1>1. /\ UNCHANGED <<src, hook, cursor, queue, claimed, ledger>>
      /\ pc \in {"verify", "judge", "publish"} /\ pc' \in {"verify", "judge", "publish", "idle"}
  BY DEF VerifyStep, Picks, Replays, Discards, Defers, Reads, ChangedMeanwhile, JudgesLater, Fails,
         Passes, Publishes, PublishesLater, Ends
<1>2. Claimed' /\ Captured' /\ Written'
  BY <1>1 DEF Claimed, Captured, Written
<1>3. ASSUME lost' \/ (~lost /\ (Whole(src) => Whole(src)'))
      PROVE  Coverage'
  BY <1>1, <1>2, <1>3 DEF Coverage, Covered, Settled, NoNews
<1>4. ASSUME UNCHANGED <<live, staged, lost>> PROVE Coverage'
  BY <1>1, <1>3, <1>4 DEF Whole
<1>5. pc = "judge" \/ pc = "publish" => review.card \in Cards
  BY DEF Inv, Reviewed
<1>6. CASE Passes
  <2> DEFINE k == review.card
  <2>1. /\ k \in Cards /\ lost' = lost
        /\ \/ staged' = [staged EXCEPT ![k] = Stamped(staged[k])] /\ live' = live
           \/ live' = [live EXCEPT ![k] = Stamped(live[k])] /\ staged' = staged
    BY <1>5, <1>6 DEF Passes
  <2>2. \A f \in CardFiles : Stamped(f).rev = f.rev
    BY DEF Stamped, CardFiles
  <2>3. \A c \in Cards : live'[c].rev = live[c].rev /\ staged'[c].rev = staged[c].rev
    BY <1>0, <2>1, <2>2
  <2>4. Whole(src) => Whole(src)'
    BY <1>0, <1>1, <2>3, SameRevs
  <2> QED BY <1>3, <2>1, <2>4
<1>7. CASE Publishes
  <2> DEFINE k == review.card
  <2>1. /\ k \in Cards
        /\ live' = [live EXCEPT ![k] = IF Text(live[k]) = jobs[k].over THEN staged[k] ELSE @]
        /\ staged' = [staged EXCEPT ![k] = NoCard]
        /\ lost' = (lost \/ Text(live[k]) # jobs[k].over \/ staged[k].rev # src)
    BY <1>5, <1>7 DEF Publishes
  <2>2. CASE lost'
    BY <1>3, <2>2
  <2>3. CASE ~lost'
    <3>1. ~lost /\ staged[k].rev = src /\ Text(live[k]) = jobs[k].over
      BY <2>1, <2>3
    <3>2. live'[k].rev = src /\ \A c \in Cards : c # k => live'[c] = live[c] /\ staged'[c] = staged[c]
      BY <1>0, <2>1, <3>1
    <3>3. Whole(src) => Whole(src)'
      BY <1>0, <1>1, <3>2 DEF Whole
    <3> QED BY <1>3, <3>1, <3>3
  <2> QED BY <2>2, <2>3
<1> QED
  BY <1>4, <1>6, <1>7 DEF VerifyStep, Replays, Discards, Defers, Reads, ChangedMeanwhile,
     JudgesLater, Fails, PublishesLater, Ends

\* When nothing is on its way - no hook, worker, row, open event or change unseen -
\* every card of the source is compiled from it, unless a step known to forget was taken.
THEOREM NothingForgotten == Spec => []IdleMeansCovered
<1>1. Inv /\ Typed /\ Coverage /\ [Next]_vars => Coverage'
  <2>1. ASSUME UNCHANGED vars, Coverage PROVE Coverage'
    <3>1. UNCHANGED <<src, hook, cursor, ledger, queue, claimed, live, staged, pc, job, lost>>
      BY <2>1 DEF vars, sourceVars, queueVars, cardVars, workVars
    <3> QED BY <2>1, <3>1 DEF Coverage, Claimed, Captured, Written, Covered, Settled, NoNews, Whole
  <2> QED BY <2>1, CoveredAround, CoveredCompile, CoveredVerify DEF Next
<1>2. Spec => []Typed
  BY TypedStarts, TypedKept, Invariance, PTL DEF Spec
<1>3. Spec => []Coverage
  BY <1>1, <1>2, Uncompiled, Invariance, PTL DEF Spec
<1>4. Coverage => IdleMeansCovered
  BY DEF Coverage, Covered, IdleMeansCovered, Quiet, NoNews
<1> QED BY <1>3, <1>4, PTL
=============================================================================
