---------------------------- MODULE IndexProofs ----------------------------
(***************************************************************************)
(* What IndexSync promises, for every set of files and directories and     *)
(* every number of edits, exclusions and dead runs.  The core is the cut:  *)
(* a scan reads one file after another, and what its verification finds    *)
(* unchanged later was so at the first check.  An edit never brings old    *)
(* agreement back, because its number is new.                              *)
(***************************************************************************)
EXTENDS IndexSync, FiniteSetTheorems, TLAPS

\* The numbers of the edits: nothing is newer than the last, and what was is remembered.
Sources ==
    /\ Tree \in past /\ \A p \in past : p.at # 0 /\ p.at <= edits
    /\ \A f \in Files : tree[f] <= edits
    /\ \A d \in Dirs : entries[d] # 0 /\ entries[d] <= edits

\* The cut is the state of the sources at the first verification.  What agrees with the
\* rows now agreed with them then, and so does what has been verified.
Cut ==
    /\ Unlisted = {} /\ scan.cut \in past /\ scan.cut.at >= current.at
    /\ \A f \in Files :
         /\ scan.rows[f] # 0 /\ tree[f] = scan.rows[f] => scan.cut.files[f] = scan.rows[f]
         /\ (entries[DirOf[f]] = scan.sigs[DirOf[f]] \/ DirOf[f] \in scan.dirs)
              => (scan.cut.files[f] = 0 <=> scan.rows[f] = 0)
         /\ f \in scan.same => scan.cut.files[f] = scan.rows[f]

\* A listed directory that has not changed since has the files that were listed.
Listing ==
    Scanning =>
      /\ \A f \in Files : scan.rows[f] <= edits
      /\ \A d \in Dirs : scan.sigs[d] <= edits
      /\ \A f \in Files : scan.sigs[DirOf[f]] = 0 => scan.rows[f] = 0
      /\ \A f \in Files : entries[DirOf[f]] = scan.sigs[DirOf[f]]
                           => (tree[f] = 0 <=> scan.rows[f] = 0)
      /\ scan.dirs = {} => scan.same = {}
      /\ scan.dirs # {} => Cut

Catalog == Sources /\ Listing /\ SnapshotWasTree

\* A claim is of the snapshot, and in the way of a run only at the steps that handle it.
ClaimOf ==
    /\ job.state = "none" => job = NoJob
    /\ job.state # "none" => current.at # 0 /\ job.at = current.at /\ job.files = current.files
    /\ pc \in {"look", "capture", "fill", "scan", "settle", "done", "rescan"}
         => job.state = "none"
    /\ pc \in {"lease", "load", "stage", "publish", "ack", "replan"} => job.state # "none"
    /\ pc = "capture" => current.at # 0

HeadOf ==
    /\ head.at <= current.at /\ head.epoch <= Epoch
    /\ head.at # 0 => [at |-> head.at, files |-> head.files] \in past
    /\ EpochTells

\* The head serves the snapshot, as far as this run knows.
Shown == head.at # 0 => head.files = current.files /\ head.epoch >= my.epoch

Answers ==
    /\ my.epoch <= Epoch
    /\ pc \in {"settle", "done"} => Shown
    /\ pc = "done" => head.at # 0
    /\ pc = "scan" /\ scan.state = "none" => Shown
    /\ pc = "look" /\ my.after => Complete
    /\ pc \in {"lease", "load", "stage", "publish"} /\ my.own => ~job.done
    /\ pc = "round" => ~my.after /\ ~my.own /\ my.epoch = 0
    /\ pc \in {"lease", "load", "stage", "publish", "ack", "replan", "rescan"} /\ my.after
         => my.own
    /\ pc = "ack" /\ my.own => Shown /\ head.at # 0

Inv == TypeOK /\ Catalog /\ ClaimOf /\ HeadOf /\ Answers


-----------------------------------------------------------------------------
(* Types *)

\* Exclusions can be counted.
LEMMA Countable == TypeOK => IsFiniteSet(excl) /\ Epoch \in Nat
  BY IndexAssumption, FS_Subset, FS_CardinalityType DEF TypeOK, Epoch

\* Of the locals only the verdict on the snapshot survives a round.
LEMMA Renewed ==
    ASSUME NEW m \in Locals, Anew(m)
    PROVE  pc' = "round" /\ my' \in Locals /\ ~my'.after /\ ~my'.own /\ my'.epoch = 0
  BY DEF Anew, NewRun, Locals

\* Every step keeps the types.
LEMMA Typed == TypeOK /\ [Next]_vars => TypeOK'
<1> SUFFICES ASSUME TypeOK, [Next]_vars PROVE TypeOK'
  OBVIOUS
<1> USE IndexAssumption DEF TypeOK, Stamps, Steps, sources, catalog, index, run
<1>e. Epoch \in Nat
  BY Countable
<1>0. NoScan \in ScanRows /\ Started \in ScanRows /\ Blocked \in ScanRows
  BY DEF NoScan, Started, Blocked, ScanRows, Nowhere
<1>1. Requested \in ScanRows /\ Rescanned \in ScanRows
  <2>1. [scan EXCEPT !.again = TRUE] \in ScanRows
    BY DEF ScanRows
  <2> QED BY <1>0, <2>1 DEF Requested, Rescanned
<1>2. NewRun \in Locals
  BY DEF NewRun, Locals
<1>a. \A m \in Locals : Anew(m) => my' \in Locals /\ pc' = "round"
  BY Renewed
<1>3. NoJob \in Claims
  BY DEF NoJob, Claims, Nowhere
<1>4. ASSUME NEW files, NEW dirs, Edit(files, dirs), files \in Stamps PROVE TypeOK'
  <2>1. Tree' \in [at : Nat, files : Stamps]
    BY <1>4 DEF Tree, Edit
  <2> QED BY <1>4, <2>1 DEF Edit
<1>5. CASE Edits
  <2> SUFFICES ASSUME NEW f \in Files, NEW g \in Files,
                      Writes(f) \/ Creates(f) \/ Deletes(f) \/ Moves(f, g)
               PROVE  TypeOK'
    BY <1>5 DEF Edits
  <2>1. /\ [tree EXCEPT ![f] = edits + 1] \in Stamps /\ [tree EXCEPT ![f] = 0] \in Stamps
        /\ [tree EXCEPT ![f] = 0, ![g] = edits + 1] \in Stamps
    OBVIOUS
  <2> QED BY <1>4, <2>1 DEF Writes, Creates, Deletes, Moves
<1>6. CASE Exclusions
  BY <1>6 DEF Exclusions, Excludes
<1>7. CASE Session \/ GivesWay \/ Dies
  <2>1. CASE Session
    BY <2>1 DEF Session
  <2>2. CASE GivesWay \/ Dies
    <3>1. stops' \in Nat /\ my' = NewRun /\ pc' = "idle" /\ asked' = TRUE
      BY <2>2 DEF GivesWay, Dies, Retries
    <3> QED BY <1>2, <2>2, <3>1 DEF GivesWay, Dies
  <2> QED BY <1>7, <2>1, <2>2
<1>8. CASE Starts \/ Resumes \/ Finishes \/ Previews \/ Restarts \/ NothingToScan \/ Settles
  BY <1>1, <1>2, <1>a, <1>8 DEF Starts, Resumes, Finishes, Previews, Restarts, NothingToScan,
                                Settles, Stays, Go
<1>9. CASE Looks
  BY <1>e, <1>2, <1>9 DEF Looks, Nothing, Stays, Locals
<1>10. CASE Captures
  <2> DEFINE new == [NoJob EXCEPT !.state = "pending", !.at = current.at,
                                  !.files = current.files, !.hidden = Hidden(current.files)]
  <2>1. new \in Claims
    BY <1>3 DEF Claims, Hidden, Members, Snapshots
  <2>2. job' \in Claims
    BY <1>10, <2>1 DEF Captures
  <2>3. pc' \in Steps
    BY <1>10 DEF Captures, Nothing, Go
  <2>4. /\ [my EXCEPT !.memo = "served", !.memoEpoch = my.epoch] \in Locals
        /\ [my EXCEPT !.own = TRUE] \in Locals
    BY DEF Locals
  <2>5. my' \in Locals
    BY <1>10, <2>4 DEF Captures, Go
  <2> QED BY <1>10, <2>2, <2>3, <2>5 DEF Captures, Stays
<1>11. CASE Fills
  <2>1. scan' \in ScanRows /\ current' \in Snapshots
    BY <1>1, <1>11 DEF Fills, Snapshots
  <2> QED BY <1>a, <1>11, <2>1 DEF Fills, Stays
<1>12. CASE Leases \/ StageFindsExclusion \/ Acks \/ Replans
  BY <1>2, <1>3, <1>12 DEF Leases, StageFindsExclusion, Acks, Replans, Stays, Go, Claims, Retries
<1>13. CASE Loads \/ FindsStaged \/ StageFindsChange \/ PublishFindsStale
  BY <1>13 DEF Loads, FindsStaged, StageFindsChange, PublishFindsStale, Stays, Go, Locals
<1>14. CASE Stages
  BY <1>e, <1>14 DEF Stages, Stays, Go, Claims
<1>15. CASE Publishes
  BY <1>e, <1>15 DEF Publishes, Go, Claims, Heads
<1>16. CASE Rescans
  <2>1. [my EXCEPT !.memo = "unusable", !.memoEpoch = my.epoch] \in Locals
    BY DEF Locals
  <2>2. my' \in Locals /\ pc' \in Steps
    BY <1>a, <1>16, <2>1 DEF Rescans, Go
  <2> QED BY <1>1, <1>16, <2>2 DEF Rescans, Stays
<1>17. CASE Scans
  <2>1. scan' \in ScanRows
    <3>1. CASE Hashes
      <4>1. PICK f \in Files : scan' = IF tree[f] = scan.rows[f]
                                     THEN [scan EXCEPT !.hashed = @ \cup {f}] ELSE Blocked
        BY <3>1 DEF Hashes, Firsts, Unhashed, Members
      <4>2. [scan EXCEPT !.hashed = @ \cup {f}] \in ScanRows
        BY DEF ScanRows
      <4> QED BY <1>0, <4>1, <4>2
    <3>2. CASE Lists
      <4>1. PICK d \in Dirs : scan' = [scan EXCEPT
                 !.sigs[d] = entries[d],
                 !.rows = [f \in Files |-> IF DirOf[f] = d THEN tree[f] ELSE @[f]]]
        BY <3>2 DEF Lists, Firsts, Unlisted
      <4>2. [f \in Files |-> IF DirOf[f] = d THEN tree[f] ELSE scan.rows[f]] \in Stamps
        BY DEF ScanRows
      <4>3. [scan.sigs EXCEPT ![d] = entries[d]] \in [Dirs -> Nat]
        BY DEF ScanRows
      <4> QED BY <4>1, <4>2, <4>3 DEF ScanRows
    <3>3. CASE VerifiesDirs
      <4>1. PICK d \in Dirs : scan' = IF entries[d] = scan.sigs[d]
                 THEN [scan EXCEPT !.dirs = @ \cup {d},
                                   !.cut = IF scan.dirs = {} THEN Tree ELSE @]
                 ELSE Blocked
        BY <3>3 DEF VerifiesDirs, Firsts
      <4>2. Tree \in [at : Nat, files : Stamps]
        BY DEF Tree
      <4>3. [scan EXCEPT !.dirs = @ \cup {d}, !.cut = IF scan.dirs = {} THEN Tree ELSE @]
              \in ScanRows
        BY <4>2 DEF ScanRows
      <4> QED BY <1>0, <4>1, <4>3
    <3>4. CASE VerifiesFiles
      BY <1>0, <3>4 DEF VerifiesFiles, ScanRows, Firsts, Members
    <3> QED BY <1>17, <3>1, <3>2, <3>3, <3>4 DEF Scans, Unit
  <2> QED BY <1>17, <2>1 DEF Scans, Stays, Go
<1>18. CASE Completes
  BY <1>0, <1>18 DEF Completes, Stays, ScanRows, Snapshots, Locals
<1>19. CASE UNCHANGED vars
  BY <1>19 DEF vars
<1> QED
  BY <1>5, <1>6, <1>7, <1>8, <1>9, <1>10, <1>11, <1>12, <1>13, <1>14, <1>15, <1>16, <1>17,
     <1>18, <1>19 DEF Next, Run, Publication

-----------------------------------------------------------------------------
(* The catalog *)

\* An edit only takes agreement between sources and rows away.
LEMMA Edited ==
    ASSUME TypeOK, Catalog, NEW files \in Stamps, NEW dirs, Edit(files, dirs),
           \A f \in Files : files[f] \in {tree[f], 0, edits + 1},
           \A f \in Files : DirOf[f] \notin dirs => (files[f] = 0 <=> tree[f] = 0)
    PROVE  Catalog'
<1> USE IndexAssumption DEF Edit, catalog
<1>1. Sources'
  BY DEF Catalog, Sources, Tree, TypeOK, Stamps
<1>2. SnapshotWasTree'
  BY DEF Catalog, SnapshotWasTree
<1>3. Listing'
  <2> SUFFICES ASSUME Scanning PROVE Listing'
    BY DEF Listing, Scanning
  <2> USE DEF TypeOK, Stamps, ScanRows, Catalog, Sources, Scanning
  <2>1. \A f \in Files : scan.rows[f] # 0 /\ tree'[f] = scan.rows[f] => tree[f] = scan.rows[f]
    BY DEF Listing
  <2>2. \A f \in Files : entries'[DirOf[f]] = scan.sigs[DirOf[f]]
          => entries[DirOf[f]] = scan.sigs[DirOf[f]] /\ DirOf[f] \notin dirs
    <3>1. \A d \in Dirs : scan.sigs[d] \in Nat /\ scan.sigs[d] <= edits
      BY DEF Listing
    <3>2. \A d \in Dirs : entries'[d] = IF d \in dirs THEN edits + 1 ELSE entries[d]
      OBVIOUS
    <3>3. \A d \in Dirs : entries'[d] = scan.sigs[d] => entries[d] = scan.sigs[d] /\ d \notin dirs
      BY <3>1, <3>2
    <3> QED BY <3>3
  <2>3. \A f \in Files : entries'[DirOf[f]] = scan.sigs[DirOf[f]]
          => (tree'[f] = 0 <=> scan.rows[f] = 0)
    BY <2>2 DEF Listing
  <2>4. ASSUME scan.dirs # {} PROVE Cut'
    <3>1. Cut
      BY <2>4 DEF Listing
    <3>2. Unlisted' = {} /\ scan'.cut \in past' /\ scan'.cut.at >= current'.at
      BY <3>1 DEF Cut, Unlisted
    <3> QED BY <2>1, <2>2, <3>1, <3>2 DEF Cut
  <2>5. /\ \A f \in Files : scan.rows[f] <= edits'
        /\ \A d \in Dirs : scan.sigs[d] <= edits'
    BY DEF Listing
  <2> QED BY <2>3, <2>4, <2>5 DEF Listing
<1> QED BY <1>1, <1>2, <1>3 DEF Catalog

\* A new scan has read nothing, and a blocked one says nothing.
LEMMA Reset ==
    ASSUME TypeOK, Catalog, UNCHANGED <<sources, current>>,
           scan' \in {scan, NoScan, Started, Blocked, [scan EXCEPT !.again = TRUE]}
    PROVE  Catalog'
<1> USE IndexAssumption DEF sources
<1>1. Sources' /\ SnapshotWasTree'
  BY DEF Catalog, Sources, SnapshotWasTree, Tree
<1>2. Listing'
  <2>1. CASE scan' \in {NoScan, Blocked}
    BY <2>1 DEF NoScan, Blocked, Listing, Scanning
  <2>2. CASE scan' = Started
    BY <2>2 DEF NoScan, Started, Listing, Scanning, Nowhere, Catalog, Sources, TypeOK, Stamps
  <2>3. CASE scan' \in {scan, [scan EXCEPT !.again = TRUE]}
    <3>1. /\ scan'.state = scan.state /\ scan'.sigs = scan.sigs /\ scan'.rows = scan.rows
          /\ scan'.dirs = scan.dirs /\ scan'.same = scan.same /\ scan'.cut = scan.cut
      BY <2>3 DEF TypeOK, ScanRows
    <3> QED BY <3>1 DEF Catalog, Listing, Scanning, Cut, Unlisted
  <2> QED BY <2>1, <2>2, <2>3
<1> QED BY <1>1, <1>2 DEF Catalog

\* The units of a step that find nothing changed.
LEMMA Stepped ==
    ASSUME TypeOK, Catalog, Scanning, Unit, UNCHANGED <<sources, current>>
    PROVE  Catalog'
<1> USE IndexAssumption DEF sources
<1>b. CASE scan' = Blocked
  BY <1>b, Reset
<1>1. Sources' /\ SnapshotWasTree'
  BY DEF Catalog, Sources, SnapshotWasTree, Tree
<1> USE DEF TypeOK, ScanRows, Stamps, Scanning, Firsts
<1>2. CASE Hashes /\ scan' # Blocked
  <2>1. \E f \in Files : scan' = [scan EXCEPT !.hashed = @ \cup {f}]
    BY <1>2 DEF Hashes, Unhashed, Members
  <2>2. /\ scan'.state = scan.state /\ scan'.sigs = scan.sigs /\ scan'.rows = scan.rows
        /\ scan'.dirs = scan.dirs /\ scan'.same = scan.same /\ scan'.cut = scan.cut
    BY <2>1
  <2> QED BY <1>1, <2>2 DEF Catalog, Listing, Cut, Unlisted
<1>3. CASE Lists
  <2>1. PICK d \in Unlisted : scan' = [scan EXCEPT
             !.sigs[d] = entries[d],
             !.rows = [f \in Files |-> IF DirOf[f] = d THEN tree[f] ELSE @[f]]]
    BY <1>3 DEF Lists
  <2>2. scan.dirs = {} /\ scan.same = {}
    BY <2>1 DEF Catalog, Listing, Cut
  <2>3. /\ scan'.state = scan.state /\ scan'.dirs = {} /\ scan'.same = {}
        /\ \A e \in Dirs : scan'.sigs[e] = IF e = d THEN entries[e] ELSE scan.sigs[e]
        /\ \A f \in Files : scan'.rows[f] = IF DirOf[f] = d THEN tree[f] ELSE scan.rows[f]
    BY <2>1, <2>2 DEF Unlisted
  <2> QED BY <1>1, <2>3 DEF Catalog, Listing, Sources
<1>4. CASE VerifiesDirs /\ scan' # Blocked
  <2>1. PICK d \in Dirs : /\ entries[d] = scan.sigs[d]
                          /\ scan' = [scan EXCEPT !.dirs = @ \cup {d},
                                            !.cut = IF scan.dirs = {} THEN Tree ELSE @]
    BY <1>4 DEF VerifiesDirs
  <2>2. /\ scan'.state = scan.state /\ scan'.sigs = scan.sigs /\ scan'.rows = scan.rows
        /\ scan'.dirs = scan.dirs \cup {d} /\ scan'.same = scan.same
        /\ scan'.cut = IF scan.dirs = {} THEN Tree ELSE scan.cut
    BY <2>1
  <2>3. Unlisted' = {}
    BY <1>4, <2>2 DEF VerifiesDirs, Read, Unlisted
  <2>4. Cut'
    <3>1. CASE scan.dirs = {}
      <4>1. scan'.cut = Tree /\ scan'.same = {} /\ scan'.dirs = {d}
        BY <2>2, <3>1 DEF Catalog, Listing
      <4>2. Tree \in past /\ Tree.at >= current.at
        BY DEF Tree, Catalog, Sources, SnapshotWasTree, Snapshots
      <4>3. \A f \in Files : (entries[DirOf[f]] = scan.sigs[DirOf[f]] \/ DirOf[f] = d)
                => (tree[f] = 0 <=> scan.rows[f] = 0)
        BY <2>1 DEF Catalog, Listing
      <4> QED BY <2>2, <2>3, <4>1, <4>2, <4>3 DEF Cut, Tree
    <3>2. CASE scan.dirs # {}
      <4>1. Cut
        BY <3>2 DEF Catalog, Listing
      <4> QED BY <2>1, <2>2, <2>3, <3>2, <4>1 DEF Cut
    <3> QED BY <3>1, <3>2
  <2> QED BY <1>1, <2>2, <2>4 DEF Catalog, Listing
<1>5. CASE VerifiesFiles /\ scan' # Blocked
  <2>1. PICK f \in Members(scan.rows) : /\ tree[f] = scan.rows[f]
                                        /\ scan' = [scan EXCEPT !.same = @ \cup {f}]
    BY <1>5 DEF VerifiesFiles
  <2>2. /\ scan'.state = scan.state /\ scan'.sigs = scan.sigs /\ scan'.rows = scan.rows
        /\ scan'.dirs = scan.dirs /\ scan'.same = scan.same \cup {f} /\ scan'.cut = scan.cut
    BY <2>1
  <2>3. scan.dirs # {} /\ Cut
    BY <1>5 DEF VerifiesFiles, Catalog, Listing
  <2>4. scan.cut.files[f] = scan.rows[f]
    BY <2>1, <2>3 DEF Cut, Members
  <2>5. Cut'
    BY <2>2, <2>3, <2>4 DEF Cut, Unlisted
  <2> QED BY <1>1, <2>2, <2>3, <2>5 DEF Catalog, Listing
<1> QED BY <1>b, <1>2, <1>3, <1>4, <1>5 DEF Unit

\* Every step keeps what is known of the sources, the scan and the snapshot.
LEMMA CatalogStays == TypeOK /\ Catalog /\ [Next]_vars => Catalog'
<1> SUFFICES ASSUME TypeOK, Catalog, [Next]_vars PROVE Catalog'
  OBVIOUS
<1> USE DEF sources, catalog, index, run
<1>1. CASE Edits
  <2> SUFFICES ASSUME NEW f \in Files, NEW g \in Files,
                      Writes(f) \/ Creates(f) \/ Deletes(f) \/ Moves(f, g)
               PROVE  Catalog'
    BY <1>1 DEF Edits
  <2> USE IndexAssumption, Edited DEF TypeOK, Stamps
  <2>1. CASE Writes(f)
    <3> DEFINE files == [tree EXCEPT ![f] = edits + 1]
               dirs == {}
    <3>1. files \in Stamps /\ \A h \in Files : files[h] \in {tree[h], 0, edits + 1}
      OBVIOUS
    <3>2. \A h \in Files : DirOf[h] \notin dirs => (files[h] = 0 <=> tree[h] = 0)
      BY <2>1 DEF Writes
    <3>3. Edit(files, dirs)
      BY <2>1 DEF Writes
    <3> HIDE DEF files, dirs
    <3> QED BY <3>1, <3>2, <3>3
  <2>2. CASE Creates(f)
    <3> DEFINE files == [tree EXCEPT ![f] = edits + 1]
               dirs == {DirOf[f]}
    <3>1. files \in Stamps /\ \A h \in Files : files[h] \in {tree[h], 0, edits + 1}
      OBVIOUS
    <3>2. \A h \in Files : DirOf[h] \notin dirs => (files[h] = 0 <=> tree[h] = 0)
      BY <2>2 DEF Creates
    <3>3. Edit(files, dirs)
      BY <2>2 DEF Creates
    <3> HIDE DEF files, dirs
    <3> QED BY <3>1, <3>2, <3>3
  <2>3. CASE Deletes(f)
    <3> DEFINE files == [tree EXCEPT ![f] = 0]
               dirs == {DirOf[f]}
    <3>1. files \in Stamps /\ \A h \in Files : files[h] \in {tree[h], 0, edits + 1}
      OBVIOUS
    <3>2. \A h \in Files : DirOf[h] \notin dirs => (files[h] = 0 <=> tree[h] = 0)
      BY <2>3 DEF Deletes
    <3>3. Edit(files, dirs)
      BY <2>3 DEF Deletes
    <3> HIDE DEF files, dirs
    <3> QED BY <3>1, <3>2, <3>3
  <2>4. CASE Moves(f, g)
    <3> DEFINE files == [tree EXCEPT ![f] = 0, ![g] = edits + 1]
               dirs == {DirOf[f], DirOf[g]}
    <3>1. files \in Stamps /\ \A h \in Files : files[h] \in {tree[h], 0, edits + 1}
      OBVIOUS
    <3>2. \A h \in Files : DirOf[h] \notin dirs => (files[h] = 0 <=> tree[h] = 0)
      OBVIOUS
    <3>3. Edit(files, dirs)
      BY <2>4 DEF Moves
    <3> HIDE DEF files, dirs
    <3> QED BY <3>1, <3>2, <3>3
  <2> QED BY <2>1, <2>2, <2>3, <2>4
<1>2. CASE Starts \/ Restarts \/ Rescans \/ Fills \/ Previews
  <2>1. UNCHANGED sources /\ scan' \in {scan, Started, [scan EXCEPT !.again = TRUE]}
    BY <1>2 DEF Starts, Restarts, Rescans, Fills, Previews, Rescanned, Requested, Stays
  <2>2. current' \in {current, [current EXCEPT !.filled = TRUE]}
    BY <1>2 DEF Starts, Restarts, Rescans, Fills, Previews
  <2>3. CASE current' = current
    BY <2>1, <2>3, Reset
  <2>4. CASE scan' = scan /\ current' = [current EXCEPT !.filled = TRUE]
    <3>1. current'.at = current.at /\ current'.files = current.files
      BY <2>4 DEF TypeOK, Snapshots
    <3> QED BY <2>1, <2>4, <3>1
         DEF Catalog, Sources, Tree, Listing, Scanning, Cut, Unlisted, SnapshotWasTree
  <2> QED BY <1>2, <2>2, <2>3, <2>4 DEF Starts, Restarts, Rescans, Fills, Previews
<1>3. CASE Scans
  BY <1>3, Stepped DEF Scans, Stays
<1>4. CASE Completes
  <2> USE DEF TypeOK, ScanRows, Stamps, Snapshots
  <2>1. Listing /\ scan.dirs # {} /\ Cut
    BY <1>4, IndexAssumption DEF Completes, Verified, Catalog, Listing
  <2>2. \A f \in Files : scan.cut.files[f] = scan.rows[f]
    BY <1>4, <2>1, IndexAssumption DEF Completes, Verified, Cut, Members
  <2>3. scan.cut = [at |-> scan.cut.at, files |-> scan.rows]
    BY <2>2
  <2>4. UNCHANGED sources /\ SnapshotWasTree'
    BY <1>4, <2>1, <2>3 DEF Completes, Stays, SnapshotWasTree, Cut
  <2>5. Sources'
    BY <2>4 DEF Catalog, Sources, Tree
  <2>6. Listing'
    <3>1. CASE scan' = NoScan
      BY <3>1 DEF Listing, Scanning, NoScan
    <3>2. CASE scan' = Started
      <4>1. /\ scan'.sigs = [d \in Dirs |-> 0] /\ scan'.rows = Nowhere
            /\ scan'.dirs = {} /\ scan'.same = {}
        BY <3>2 DEF Started, NoScan
      <4>2. \A f \in Files : scan'.rows[f] = 0 /\ scan'.sigs[DirOf[f]] = 0
        BY <4>1, IndexAssumption DEF Nowhere
      <4>3. \A f \in Files : entries'[DirOf[f]] # 0
        BY <2>5, IndexAssumption DEF Sources
      <4>4. edits' \in Nat /\ \A d \in Dirs : scan'.sigs[d] = 0
        BY <2>4, <4>1
      <4>5. /\ \A f \in Files : scan'.rows[f] <= edits'
            /\ \A d \in Dirs : scan'.sigs[d] <= edits'
        BY <4>2, <4>4
      <4>6. \A f \in Files : entries'[DirOf[f]] # scan'.sigs[DirOf[f]]
        BY <4>2, <4>3
      <4> HIDE DEF TypeOK, ScanRows, Stamps, Snapshots, sources
      <4> QED BY <4>1, <4>2, <4>5, <4>6 DEF Listing
    <3> QED BY <1>4, <3>1, <3>2 DEF Completes
  <2> QED BY <2>4, <2>5, <2>6 DEF Catalog
<1>5. CASE UNCHANGED <<sources, catalog>>
  BY <1>5, Reset
<1>6. CASE UNCHANGED vars
  BY <1>5, <1>6 DEF vars
<1>7. CASE Exclusions \/ Session \/ GivesWay \/ Dies
  BY <1>5, <1>7 DEF Exclusions, Excludes, Session, GivesWay, Dies
<1>8. CASE Resumes \/ NothingToScan \/ Settles \/ Finishes
  BY <1>5, <1>8 DEF Resumes, NothingToScan, Settles, Finishes, Stays
<1>9. CASE Publication
  <2>1. CASE Fills \/ Rescans
    BY <1>2, <2>1
  <2>2. CASE ~(Fills \/ Rescans)
    BY <1>5, <1>9, <2>2
       DEF Publication, Looks, Captures, Leases, Loads, Stages, FindsStaged, StageFindsChange,
           StageFindsExclusion, Publishes, PublishFindsStale, Acks, Replans, Stays
  <2> QED BY <2>1, <2>2
<1> QED BY <1>1, <1>2, <1>3, <1>4, <1>6, <1>7, <1>8, <1>9 DEF Next, Run

-----------------------------------------------------------------------------
(* Claims, the head, and the answers *)

\* A claim outlives runs, but the snapshot is replaced only when no claim is left.
LEMMA ClaimStays == TypeOK /\ ClaimOf /\ [Next]_vars => ClaimOf'
<1> SUFFICES ASSUME TypeOK, ClaimOf, [Next]_vars PROVE ClaimOf'
  OBVIOUS
<1> USE DEF ClaimOf, sources, catalog, index, run, Stays, Go
<1>1. CASE Edits \/ Exclusions \/ Session
  BY <1>1 DEF Edits, Writes, Creates, Deletes, Moves, Edit, Exclusions, Excludes, Session
<1>2. CASE GivesWay \/ Dies \/ Starts \/ Resumes \/ Finishes
  BY <1>2 DEF GivesWay, Dies, Starts, Resumes, Finishes, Retries
<1>3. CASE Looks
  BY <1>3 DEF Looks, Nothing, Complete
<1>4. CASE Captures
  <2>1. CASE UNCHANGED job
    <3>1. pc' \in {"settle", "scan", "fill"}
      <4>1. job'.state = "none"
        BY <1>4, <2>1 DEF Captures
      <4>2. [NoJob EXCEPT !.state = "pending", !.at = current.at, !.files = current.files,
                          !.hidden = Hidden(current.files)].state = "pending"
        BY DEF NoJob
      <4> QED BY <1>4, <4>1, <4>2 DEF Captures, Nothing
    <3> QED BY <1>4, <2>1, <3>1 DEF Captures
  <2>2. CASE ~UNCHANGED job
    <3>1. /\ pc' = "lease" /\ UNCHANGED current
          /\ job'.state = "pending" /\ job'.at = current.at /\ job'.files = current.files
      BY <1>4, <2>2 DEF Captures, NoJob
    <3> QED BY <1>4, <3>1 DEF Captures
  <2> QED BY <2>1, <2>2
<1>5. CASE Fills
  <2>1. current'.at = current.at /\ current'.files = current.files
    BY <1>5 DEF Fills, TypeOK, Snapshots
  <2> QED BY <1>5, <2>1, Renewed DEF Fills, TypeOK
<1>6. CASE Leases \/ StageFindsExclusion \/ Stages
  <2>1. job'.state # "none" /\ job'.at = job.at /\ job'.files = job.files
    BY <1>6 DEF Leases, StageFindsExclusion, Stages, TypeOK, Claims
  <2> QED BY <1>6, <2>1 DEF Leases, StageFindsExclusion, Stages, Retries
<1>7. CASE Publishes
  <2>1. job'.state = job.state /\ job'.at = job.at /\ job'.files = job.files
    BY <1>7 DEF Publishes, TypeOK, Claims
  <2> QED BY <1>7, <2>1 DEF Publishes
<1>8. CASE Loads \/ FindsStaged \/ StageFindsChange \/ PublishFindsStale
  BY <1>8 DEF Loads, FindsStaged, StageFindsChange, PublishFindsStale
<1>9. CASE Acks \/ Replans
  BY <1>9 DEF Acks, Replans, NoJob
<1>10. CASE Rescans \/ Scans \/ Previews \/ Restarts \/ NothingToScan \/ Settles
  <2>1. UNCHANGED <<current, job>>
    BY <1>10 DEF Rescans, Scans, Previews, Restarts, NothingToScan, Settles
  <2>2. \/ pc \in {"preview", "rescan"} /\ pc' = "round"
        \/ pc = "rescan" /\ pc' = "look"
        \/ pc \in {"scan", "settle"} /\ pc' \in {"scan", "preview", "round", "settle", "done"}
    BY <1>10 DEF Rescans, Scans, Previews, Restarts, NothingToScan, Settles, Anew
  <2> QED BY <2>1, <2>2
<1>11. CASE Completes
  BY <1>11 DEF Completes
<1>12. CASE UNCHANGED vars
  BY <1>12 DEF vars
<1> QED
  BY <1>1, <1>2, <1>3, <1>4, <1>5, <1>6, <1>7, <1>8, <1>9, <1>10, <1>11, <1>12
     DEF Next, Run, Publication

\* A new exclusion is a new epoch.
LEMMA EpochGrows == TypeOK /\ [Next]_vars =>
                      /\ Epoch \in Nat /\ excl \subseteq excl'
                      /\ excl' # excl => Exclusions /\ Epoch' = Epoch + 1
<1> SUFFICES ASSUME TypeOK, [Next]_vars
             PROVE  /\ Epoch \in Nat /\ excl \subseteq excl'
                    /\ excl' # excl => Exclusions /\ Epoch' = Epoch + 1
  OBVIOUS
<1>1. IsFiniteSet(excl) /\ Epoch \in Nat
  BY Countable
<1>2. CASE Exclusions
  <2>1. PICK f \in Files : f \notin excl /\ excl' = excl \cup {f}
    BY <1>2 DEF Exclusions, Excludes
  <2>2. Cardinality(excl') = Cardinality(excl) + 1
    BY <1>1, <2>1, FS_AddElement
  <2> QED BY <1>1, <1>2, <2>1, <2>2 DEF Epoch
<1>3. CASE ~Exclusions
  <2>1. CASE Edits \/ Session \/ GivesWay \/ Dies
    BY <1>1, <2>1 DEF Edits, Writes, Creates, Deletes, Moves, Edit, Session, GivesWay, Dies,
                      Retries, index
  <2>2. CASE Run
    BY <1>1, <2>2
       DEF Run, Publication, Starts, Resumes, Looks, Captures, Fills, Leases, Loads, Stages,
           FindsStaged, StageFindsChange, StageFindsExclusion, Publishes, PublishFindsStale,
           Acks, Replans, Rescans, Scans, Previews, Restarts, Completes, NothingToScan, Settles,
           Finishes, Stays, index
  <2>3. CASE UNCHANGED vars
    BY <1>1, <2>3 DEF vars, index
  <2> QED BY <1>3, <2>1, <2>2, <2>3 DEF Next
<1> QED BY <1>2, <1>3

\* Only Publishes moves the head.
LEMMA HeadMoves == [Next]_vars => UNCHANGED head \/ Publishes
BY DEF Next, vars, Edits, Writes, Creates, Deletes, Moves, Edit, Exclusions, Excludes, Session,
       GivesWay, Dies, Retries, Run, Publication, Starts, Resumes, Looks, Captures, Fills,
       Leases, Loads, Stages, FindsStaged, StageFindsChange, StageFindsExclusion,
       PublishFindsStale, Acks, Replans, Rescans, Scans, Previews, Restarts, Completes, NothingToScan,
       Settles, Finishes, Stays, index

\* Only Completes replaces the snapshot.
LEMMA SnapshotMoves ==
  [Next]_vars => \/ UNCHANGED current \/ Completes
                 \/ current' = [current EXCEPT !.filled = TRUE]
BY DEF Next, vars, Edits, Writes, Creates, Deletes, Moves, Edit, Exclusions, Excludes, Session,
       GivesWay, Dies, Retries, Run, Publication, Starts, Resumes, Looks, Captures, Fills,
       Leases, Loads, Stages, FindsStaged, StageFindsChange, StageFindsExclusion, Publishes,
       PublishFindsStale, Acks, Replans, Rescans, Scans, Previews, Restarts, NothingToScan, Settles,
       Finishes, Stays, catalog

\* What has been is not forgotten.
LEMMA PastGrows == [Next]_vars => past \subseteq past'
BY DEF Next, vars, Edits, Writes, Creates, Deletes, Moves, Edit, Exclusions, Excludes, Session,
       GivesWay, Dies, Retries, Run, Publication, Starts, Resumes, Looks, Captures, Fills,
       Leases, Loads, Stages, FindsStaged, StageFindsChange, StageFindsExclusion, Publishes,
       PublishFindsStale, Acks, Replans, Rescans, Scans, Previews, Restarts, Completes, NothingToScan,
       Settles, Finishes, Stays, sources

\* The head is of a state the sources were in, and its epoch one that was.
LEMMA HeadStays ==
  TypeOK /\ Catalog /\ ClaimOf /\ HeadOf /\ [Next]_vars => HeadOf'
<1> SUFFICES ASSUME TypeOK, Catalog, ClaimOf, HeadOf, [Next]_vars PROVE HeadOf'
  OBVIOUS
<1>t. TypeOK'
  BY Typed
<1>1. head.at <= current'.at
  <2>1. CASE Completes
    <3>1. scan.cut.at >= current.at
      BY <2>1, IndexAssumption DEF Completes, Verified, Catalog, Listing, Cut
    <3> QED BY <2>1, <3>1 DEF Completes, HeadOf, TypeOK, ScanRows, Snapshots, Heads
  <2>2. CASE UNCHANGED current \/ current' = [current EXCEPT !.filled = TRUE]
    BY <2>2 DEF HeadOf, TypeOK, Snapshots
  <2> QED BY <2>1, <2>2, SnapshotMoves
<1>2. CASE Publishes
  <2>1. /\ current'.at = current.at /\ excl' = excl /\ past' = past
        /\ head' = [at |-> current.at, files |-> current.files,
                    hidden |-> Hidden(current.files), epoch |-> Epoch]
    BY <1>2 DEF Publishes, Binds, ClaimOf, catalog, sources
  <2>2. current.at # 0 /\ [at |-> current.at, files |-> current.files] \in past
    BY <1>2 DEF Publishes, Binds, Complete, Catalog, SnapshotWasTree
  <2>3. Epoch' = Epoch /\ Epoch \in Nat
    BY <2>1, Countable DEF Epoch
  <2> QED BY <2>1, <2>2, <2>3 DEF HeadOf, EpochTells, TypeOK, Snapshots, Hidden
<1>3. CASE UNCHANGED head
  <2>1. head.at # 0 => [at |-> head.at, files |-> head.files] \in past'
    BY PastGrows DEF HeadOf
  <2>2. CASE excl' = excl
    BY <1>1, <1>3, <2>1, <2>2 DEF HeadOf, EpochTells, Epoch, Hidden
  <2>3. CASE excl' # excl
    <3>1. Epoch' = Epoch + 1 /\ head.epoch <= Epoch /\ Epoch \in Nat
      BY <2>3, EpochGrows DEF HeadOf
    <3>2. head.epoch <= Epoch' /\ head.epoch # Epoch'
      BY <3>1 DEF TypeOK, Heads
    <3> QED BY <1>1, <1>3, <2>1, <3>2 DEF HeadOf, EpochTells
  <2> QED BY <2>2, <2>3
<1> QED BY <1>2, <1>3, HeadMoves

\* A run that answers has seen the head serve the snapshot, and the snapshot has not been
\* replaced since.
LEMMA AnswersStay ==
  TypeOK /\ Catalog /\ ClaimOf /\ HeadOf /\ Answers /\ [Next]_vars => Answers'
<1> SUFFICES ASSUME TypeOK, Catalog, ClaimOf, HeadOf, Answers, [Next]_vars PROVE Answers'
  OBVIOUS
<1>e. Epoch \in Nat /\ (excl' # excl => Exclusions /\ Epoch' = Epoch + 1)
  BY EpochGrows
<1> USE DEF Answers, sources, catalog, index, run, Stays, Go, Scanning
<1>1. CASE Edits \/ Session
  BY <1>1 DEF Edits, Writes, Creates, Deletes, Moves, Edit, Session, Shown, Complete, Epoch
<1>2. CASE Exclusions
  <2>1. my.epoch <= Epoch'
    BY <1>e, <1>2 DEF Exclusions, Excludes, TypeOK, Locals
  <2> QED BY <1>2, <2>1 DEF Exclusions, Excludes, Shown, Complete
<1>3. CASE GivesWay \/ Dies \/ Starts \/ Finishes \/ StageFindsExclusion
  <2>1. my'.epoch = 0 /\ ~my'.after /\ ~my'.own /\ excl' = excl /\ pc' \in {"idle", "round"}
    BY <1>3 DEF GivesWay, Dies, Starts, Finishes, StageFindsExclusion, Retries, NewRun
  <2> QED BY <1>e, <2>1 DEF Epoch
<1>4. CASE Resumes
  BY <1>4 DEF Resumes, Epoch
<1>5. CASE Looks
  <2>1. /\ my'.epoch = Epoch /\ excl' = excl /\ UNCHANGED <<scan, current, head>>
        /\ pc' \in {"capture", "settle", "scan"}
    BY <1>5 DEF Looks, Nothing, TypeOK, Locals
  <2>2. CASE ~Complete
    <3>1. ~my.after
      BY <1>5, <2>2 DEF Looks
    <3>2. pc' = "scan"
      BY <1>5, <2>2, <3>1 DEF Looks, Nothing
    <3>3. scan.state = "none" => head.at = 0
      BY <2>2 DEF Complete, HeadOf, TypeOK, Heads
    <3> QED BY <1>e, <2>1, <3>2, <3>3 DEF Shown, Epoch
  <2>3. CASE Complete /\ pc' # "capture"
    <3>1. ~my.after /\ scan.state = "pending"
      BY <1>5, <2>3 DEF Looks
    <3>2. pc' = "scan"
      BY <1>5, <2>3, <3>1 DEF Looks, Nothing
    <3> QED BY <1>e, <2>1, <3>1, <3>2 DEF Epoch
  <2>4. CASE pc' = "capture"
    BY <1>e, <2>1, <2>4 DEF Epoch
  <2> QED BY <2>1, <2>2, <2>3, <2>4
<1>6. CASE Captures
  <2>1. /\ my'.epoch = my.epoch /\ UNCHANGED <<scan, current, head, excl>>
        /\ pc' \in {"settle", "scan", "fill", "lease"}
    <3>1. my' \in {my, [my EXCEPT !.memo = "served", !.memoEpoch = my.epoch],
                    [my EXCEPT !.own = TRUE]}
      BY <1>6 DEF Captures
    <3>2. my'.epoch = my.epoch
      BY <3>1 DEF TypeOK, Locals
    <3> QED BY <1>6, <3>2 DEF Captures, Nothing
  <2>2. CASE Serves
    <3>1. Shown
      BY <2>2 DEF Serves, Shown, TypeOK, Heads
    <3>2. pc' \in {"settle", "scan"}
      BY <1>6, <2>2 DEF Captures, Nothing
    <3> QED BY <2>1, <3>1, <3>2 DEF Shown, Epoch
  <2>3. CASE ~Serves /\ current.filled
    <3>1. pc' = "lease" /\ ~job'.done /\ my'.own
      <4>1. my' = [my EXCEPT !.own = TRUE] /\ pc' = "lease" /\ ~job'.done
        BY <1>6, <2>3 DEF Captures, NoJob
      <4> QED BY <4>1 DEF TypeOK, Locals
    <3> QED BY <2>1, <3>1 DEF Epoch
  <2>4. CASE ~Serves /\ ~current.filled
    <3>1. pc' = "fill" \/ (pc' = "scan" /\ scan.state = "pending")
      BY <1>6, <2>4 DEF Captures, Nothing
    <3> QED BY <2>1, <3>1 DEF Epoch
  <2> QED BY <2>2, <2>3, <2>4
<1>7. CASE Fills \/ Rescans
  <2>1. CASE Fills
    BY <1>e, <2>1, Renewed DEF Fills, Epoch, TypeOK
  <2>2. CASE Rescans
    <3>1. CASE my.own
      <4>1. [my EXCEPT !.memo = "unusable", !.memoEpoch = my.epoch] \in Locals
        BY DEF TypeOK, Locals
      <4>2. pc' = "round" /\ ~my'.after /\ ~my'.own /\ my'.epoch = 0 /\ excl' = excl
        BY <2>2, <3>1, <4>1, Renewed DEF Rescans
      <4> QED BY <1>e, <4>2 DEF Epoch
    <3>2. CASE ~my.own
      BY <2>2, <3>2 DEF Rescans, Epoch
    <3> QED BY <3>1, <3>2
  <2> QED BY <1>7, <2>1, <2>2
<1>8. CASE Leases \/ Loads \/ Stages \/ FindsStaged
  <2>1. /\ UNCHANGED <<head, current, scan, excl>> /\ my'.epoch = my.epoch
        /\ my'.own = my.own /\ my'.after = my.after /\ job'.done = job.done
    BY <1>8 DEF Leases, Loads, Stages, FindsStaged, TypeOK, Locals, Claims
  <2>2. \/ pc = "lease" /\ pc' = IF job.done THEN "ack" ELSE "load"
        \/ pc \in {"load", "stage"} /\ pc' \in {"stage", "replan", "publish"}
    BY <1>8 DEF Leases, Loads, Stages, FindsStaged
  <2> QED BY <2>1, <2>2 DEF Epoch
<1>9. CASE Publishes
  <2>1. /\ head'.at = current.at /\ head'.files = current.files /\ head'.epoch = Epoch
        /\ current.at # 0 /\ pc' = "ack" /\ UNCHANGED <<my, current, excl>>
    BY <1>9 DEF Publishes, Binds, Complete, ClaimOf
  <2>2. Epoch' = Epoch /\ my.epoch <= Epoch /\ my.epoch \in Nat
    BY <2>1 DEF Epoch, TypeOK, Locals
  <2>3. Shown' /\ head'.at # 0
    BY <1>e, <2>1, <2>2 DEF Shown
  <2>4. my'.after => my'.own
    BY <1>9, <2>1 DEF Publishes
  <2> QED BY <2>1, <2>2, <2>3, <2>4
<1>10. CASE StageFindsChange \/ PublishFindsStale \/ Replans
  BY <1>10 DEF StageFindsChange, PublishFindsStale, Replans, Epoch
<1>11. CASE Acks
  BY <1>11 DEF Acks, Epoch, Shown
<1>12. CASE Scans \/ Previews \/ Restarts \/ NothingToScan \/ Settles
  <2>1. CASE Anew(my) /\ excl' = excl
    BY <1>e, <2>1, Renewed DEF Epoch, TypeOK
  <2>2. CASE Scans
    BY <2>2 DEF Scans, Epoch
  <2>3. CASE NothingToScan
    BY <2>3 DEF NothingToScan, Epoch, Shown
  <2>4. CASE Settles /\ Go("done")
    <3>1. head.at # 0
      BY <2>4 DEF Settles, Anew
    <3> QED BY <2>4, <3>1 DEF Settles, Epoch, Shown
  <2> QED BY <1>12, <2>1, <2>2, <2>3, <2>4 DEF Previews, Restarts, Settles
<1>13. CASE Completes
  <2>1. scan.cut \in past
    BY <1>13, IndexAssumption DEF Completes, Verified, Catalog, Listing, Cut
  <2>2. current'.at # 0
    BY <1>13, <2>1 DEF Completes, Catalog, Sources
  <2>3. scan'.state # "blocked"
    BY <1>13 DEF Completes, Started, NoScan
  <2>4. my'.epoch = my.epoch /\ excl' = excl /\ pc' = "look"
    BY <1>13 DEF Completes, TypeOK, Locals
  <2> QED BY <2>2, <2>3, <2>4 DEF Complete, Epoch
<1>14. CASE UNCHANGED vars
  BY <1>14 DEF vars, Shown, Complete, Epoch
<1> QED
  BY <1>1, <1>2, <1>3, <1>4, <1>5, <1>6, <1>7, <1>8, <1>9, <1>10, <1>11, <1>12, <1>13, <1>14
     DEF Next, Run, Publication

-----------------------------------------------------------------------------
(* The invariant, and what follows from it *)

\* The invariant holds at the start.
LEMMA Initially == Init => Inv
<1> SUFFICES ASSUME Init PROVE Inv
  OBVIOUS
<1> USE IndexAssumption DEF Init
<1>1. TypeOK
  <2>1. NoScan \in ScanRows /\ NoSnapshot \in Snapshots /\ NoHead \in Heads /\ NoJob \in Claims
    BY DEF NoScan, ScanRows, NoSnapshot, Snapshots, NoHead, Heads, NoJob, Claims, Nowhere, Stamps
  <2>2. NewRun \in Locals
    BY DEF NewRun, Locals
  <2>3. past \subseteq [at : Nat, files : Stamps] /\ tree \in Stamps
    BY DEF Tree, Stamps
  <2> QED BY <2>1, <2>2, <2>3 DEF TypeOK, Steps
<1>2. Catalog
  BY DEF Catalog, Sources, Listing, Scanning, SnapshotWasTree, Tree, NoScan, NoSnapshot
<1>3. ClaimOf
  BY DEF ClaimOf, NoJob
<1>4. Epoch = 0
  BY FS_EmptySet DEF Epoch
<1>5. HeadOf /\ Answers
  BY <1>4 DEF HeadOf, EpochTells, Answers, NoHead, NoSnapshot, NewRun
<1> QED BY <1>1, <1>2, <1>3, <1>5 DEF Inv

\* Every step keeps it.
LEMMA Step == Inv /\ [Next]_vars => Inv'
  BY Typed, CatalogStays, ClaimStays, HeadStays, AnswersStay DEF Inv

\* Inv is an invariant of the index and its sync runs.
THEOREM Invariance == Spec => []Inv
  BY Initially, Step, PTL DEF Spec

\* Type correctness of catalog, claim queue, index and run, whatever the files.
THEOREM TypeCorrect == Spec => []TypeOK
<1>1. Inv => TypeOK
  BY DEF Inv
<1> QED BY <1>1, Invariance, PTL

\* A complete snapshot lists the sources as they were at one instant.
THEOREM SnapshotIsATree == Spec => []SnapshotWasTree
<1>1. Inv => SnapshotWasTree
  BY DEF Inv, Catalog
<1> QED BY <1>1, Invariance, PTL

\* A head of the current exclusion epoch hides everything that is excluded.
THEOREM TheEpochTells == Spec => []EpochTells
<1>1. Inv => EpochTells
  BY DEF Inv, HeadOf
<1> QED BY <1>1, Invariance, PTL

\* A wake is only acknowledged with the snapshot served and no claim left.
THEOREM AnswersAreServed == Spec => []AcknowledgedServes
<1>1. Inv => AcknowledgedServes
  BY DEF Inv, Answers, ClaimOf, Shown, AcknowledgedServes
<1> QED BY <1>1, Invariance, PTL

\* The index and its runs implement IndexContract.
THEOREM IndexImplements == Spec => ContractSpec
<1>1. Init => Contract!Init
  <2> SUFFICES ASSUME Init PROVE Contract!Init
    OBVIOUS
  <2>1. past = {[at |-> 1, files |-> tree]} /\ tree \in [Files -> {0, 1}]
    BY DEF Init, Tree
  <2> QED BY <2>1 DEF Init, Contract!Init, Contract!Empty, NoHead, Nowhere
<1>2. Inv /\ Inv' /\ [Next]_vars => [Contract!Next]_(Contract!vars)
  <2> SUFFICES ASSUME Inv, Inv', [Next]_vars PROVE Contract!Next \/ UNCHANGED Contract!vars
    OBVIOUS
  <2>1. CASE Edits
    <3>1. past' = past \cup {Tree'} /\ UNCHANGED <<head, excl>> /\ Tree'.at = edits + 1
      BY <2>1 DEF Edits, Writes, Creates, Deletes, Moves, Edit, Tree, index
    <3>2. \A old \in past : old.at < Tree'.at
      BY <3>1 DEF Inv, Catalog, Sources, TypeOK
    <3> QED BY <3>1, <3>2 DEF Contract!Next, Contract!Edit
  <2>2. CASE Exclusions
    BY <2>2 DEF Exclusions, Excludes, sources, Contract!Next, Contract!Bar
  <2>3. CASE Publishes
    <3>1. /\ UNCHANGED <<past, excl>>
          /\ head' = [at |-> current.at, files |-> current.files,
                      hidden |-> Hidden(current.files), epoch |-> Epoch]
      BY <2>3 DEF Publishes, Binds, Inv, ClaimOf, sources
    <3>2. /\ [at |-> current.at, files |-> current.files] \in past
          /\ current.at >= head.at
      BY <2>3 DEF Publishes, Binds, Complete, Inv, Catalog, SnapshotWasTree, HeadOf, TypeOK,
                  Heads, Snapshots
    <3>3. \A f \in excl : current.files[f] # 0 => f \in Hidden(current.files)
      BY IndexAssumption DEF Hidden, Members, Inv, TypeOK
    <3> QED BY <3>1, <3>2, <3>3 DEF Contract!Next, Contract!Publish
  <2>4. CASE ~(Edits \/ Exclusions \/ Publishes)
    <3>1. UNCHANGED <<past, excl, head>>
      BY <2>4 DEF Next, vars, Session, GivesWay, Dies, Retries, Run, Publication, Starts,
             Resumes, Looks, Captures, Fills, Leases, Loads, Stages, FindsStaged,
             StageFindsChange, StageFindsExclusion, PublishFindsStale, Acks, Replans, Rescans,
             Scans, Previews, Restarts, Completes, NothingToScan, Settles, Finishes, Stays, index, sources
    <3> QED BY <3>1 DEF Contract!vars
  <2> QED BY <2>1, <2>2, <2>3, <2>4
<1> QED BY <1>1, <1>2, Invariance, PTL DEF Spec, ContractSpec, Contract!Spec
=============================================================================
