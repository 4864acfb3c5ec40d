-------------------------- MODULE WakeStoreProofs ---------------------------
(***************************************************************************)
(* What the full queue keeps, for every set of wakes and readers and every *)
(* limit: the row that is being served, every retained wake, the newer     *)
(* offer of a served row until a promotion has reused a revision, and a    *)
(* bound on what a stale promotion adds.  The promise must be known of the *)
(* uncommitted tables of a reader (Open) before it can hold at the commit. *)
(***************************************************************************)
EXTENDS WakeStore, FiniteSetTheorems, TLAPS

Shape ==
    /\ Tables \in TableSets /\ draft \in TableSets /\ IsFiniteSet(overflow)
    /\ \A d, e \in overflow : d.wake = e.wake => d = e
    /\ Cardinality(overflow) <= OverflowLimit
    /\ at \in [Readers -> {"idle", "exists", "count", "base", "write", "loop"}]
    /\ todo \in [Readers -> SUBSET Entries]
    /\ \A r \in Readers : at[r] \in {"exists", "count", "base", "write"} => todo[r] # {}
    /\ base \in [Readers -> Nat]
    /\ serving \in [wake : Wakes \cup {None}, rev : Nat]
    /\ newer \in BOOLEAN /\ reused \in BOOLEAN /\ offers \in 0..MaxOffers

\* One transaction is open at a time.
OneWriter == \A r, q \in Readers : at[r] = "loop" /\ at[q] = "loop" => r = q

\* A transaction that overran the limit did so by its first row.
Within(t) == Cardinality(Stored(t)) > Limit => Cardinality(Stored(t)) <= Cardinality(Rows) + 1

\* No row is touched but to be offered again, no entry leaves but for a row.
Extends(t) ==
    /\ \A x \in Rows : t.status[x] = status[x]
    /\ t.overflow \subseteq overflow
    /\ \A e \in overflow \ t.overflow : t.status[e.wake] # "absent"

\* Revisions given out in it are new, if the counter it started from was; each
\* promoted entry has one.
Renews(t) ==
    /\ t.meta >= meta
    /\ \A x \in Wakes : t.rev[x] = rev[x] \/ (t.rev[x] > meta /\ t.rev[x] <= t.meta)
    /\ \A e \in overflow \ t.overflow : t.rev[e.wake] > meta

Open == \A r \in Readers : at[r] = "loop" =>
            Extends(draft) /\ Within(draft) /\ (base[r] = meta => Renews(draft))

\* The revisions of rows, and the one a dispatcher holds, were all given out.
Revisions == ~reused =>
    /\ \A x \in Wakes : rev[x] <= meta
    /\ serving # NotServing => serving.rev <= meta
    /\ newer => rev[serving.wake] > serving.rev

Served == /\ serving # NotServing => serving.wake \in Wakes
          /\ newer => serving # NotServing

Inv == Shape /\ OneWriter /\ Open /\ Revisions /\ Served /\ ServedRowStays

-----------------------------------------------------------------------------
(* The operators on tables *)

LEMMA RowsFinite ==
    ASSUME NEW t
    PROVE  IsFiniteSet(Stored(t)) /\ Cardinality(Stored(t)) \in Nat
  BY StoreAssumption, FS_Subset, FS_CardinalityType DEF Stored

LEMMA RowsStored == Stored(Tables) = Rows
  BY DEF Stored, Tables, Rows

LEMMA UpsertOf ==
    ASSUME NEW t \in TableSets, NEW x \in Wakes, NEW v \in Nat
    PROVE  /\ Upsert(t, x, v) \in TableSets
           /\ Upsert(t, x, v).meta = v /\ Upsert(t, x, v).overflow = t.overflow
           /\ Upsert(t, x, v).rev[x] = v
           /\ \A y \in Wakes : y # x => Upsert(t, x, v).rev[y] = t.rev[y]
           /\ \A y \in Wakes : t.status[y] # "absent" => Upsert(t, x, v).status[y] = t.status[y]
           /\ Upsert(t, x, v).status[x] # "absent"
           /\ \A y \in Wakes : y # x => Upsert(t, x, v).status[y] = t.status[y]
<1> DEFINE u == Upsert(t, x, v)
           st == [t.status EXCEPT ![x] = IF @ = "absent" THEN "pending" ELSE @]
           rv == [t.rev EXCEPT ![x] = v]
<1>1. t = [status |-> t.status, rev |-> t.rev, meta |-> t.meta, overflow |-> t.overflow]
      /\ t.status \in [Wakes -> {"absent", "pending", "running"}] /\ t.rev \in [Wakes -> Nat]
      /\ t.overflow \in SUBSET Entries
  BY DEF TableSets
<1>2. u = [status |-> st, rev |-> rv, meta |-> v, overflow |-> t.overflow]
  BY <1>1 DEF Upsert
<1>3. st \in [Wakes -> {"absent", "pending", "running"}] /\ rv \in [Wakes -> Nat]
  BY <1>1
<1>4. u \in TableSets
  BY <1>1, <1>2, <1>3 DEF TableSets
<1>5. u.status = st /\ u.rev = rv /\ u.meta = v /\ u.overflow = t.overflow
  BY <1>2
<1>6. /\ rv[x] = v /\ \A y \in Wakes : y # x => rv[y] = t.rev[y]
      /\ \A y \in Wakes : t.status[y] # "absent" => st[y] = t.status[y]
      /\ st[x] # "absent" /\ \A y \in Wakes : y # x => st[y] = t.status[y]
  BY <1>1
<1> HIDE DEF u, st, rv
<1>7. /\ u \in TableSets /\ u.meta = v /\ u.overflow = t.overflow
      /\ u.rev[x] = v /\ \A y \in Wakes : y # x => u.rev[y] = t.rev[y]
      /\ \A y \in Wakes : t.status[y] # "absent" => u.status[y] = t.status[y]
      /\ u.status[x] # "absent" /\ \A y \in Wakes : y # x => u.status[y] = t.status[y]
  BY <1>4, <1>5, <1>6
<1> QED BY <1>7 DEF u

LEMMA DropOf ==
    ASSUME NEW t \in TableSets, NEW x \in Wakes
    PROVE  /\ Drop(t, x) \in TableSets
           /\ Drop(t, x).status = t.status /\ Drop(t, x).rev = t.rev /\ Drop(t, x).meta = t.meta
           /\ Drop(t, x).overflow = {e \in t.overflow : e.wake # x}
           /\ Stored(Drop(t, x)) = Stored(t)
  BY DEF Drop, TableSets, Stored

\* One upsert stores at most one row more.
LEMMA OneMore ==
    ASSUME NEW t \in TableSets, NEW x \in Wakes, NEW v \in Nat
    PROVE  /\ Stored(Upsert(t, x, v)) = Stored(t) \cup {x}
           /\ Cardinality(Stored(Upsert(t, x, v)))
                = IF x \in Stored(t) THEN Cardinality(Stored(t)) ELSE Cardinality(Stored(t)) + 1
<1>1. Stored(Upsert(t, x, v)) = Stored(t) \cup {x}
  BY UpsertOf DEF Stored
<1> QED BY <1>1, RowsFinite, FS_AddElement

Moved(t, x, v) == Drop(Upsert(t, x, v), x)

\* A promotion, with or without room, keeps what an open transaction must keep.
LEMMA Promoted ==
    ASSUME Shape, NEW t \in TableSets, NEW x \in Wakes, NEW v \in Nat, Extends(t)
    PROVE  /\ Moved(t, x, v) \in TableSets /\ Extends(Moved(t, x, v))
           /\ Cardinality(Stored(Moved(t, x, v)))
                = IF x \in Stored(t) THEN Cardinality(Stored(t)) ELSE Cardinality(Stored(t)) + 1
           /\ Renews(t) /\ v > t.meta => Renews(Moved(t, x, v))
<1> DEFINE p == Upsert(t, x, v)
           u == Drop(p, x)
<1>1. /\ p \in TableSets /\ p.meta = v /\ p.overflow = t.overflow
      /\ p.rev[x] = v /\ \A y \in Wakes : y # x => p.rev[y] = t.rev[y]
      /\ \A y \in Wakes : t.status[y] # "absent" => p.status[y] = t.status[y]
      /\ p.status[x] # "absent" /\ \A y \in Wakes : y # x => p.status[y] = t.status[y]
  BY UpsertOf
<1>2. Cardinality(Stored(p))
        = IF x \in Stored(t) THEN Cardinality(Stored(t)) ELSE Cardinality(Stored(t)) + 1
  BY OneMore
<1> HIDE DEF p
<1>3. /\ u \in TableSets /\ u.status = p.status /\ u.rev = p.rev /\ u.meta = v
      /\ u.overflow = {e \in t.overflow : e.wake # x} /\ Stored(u) = Stored(p)
  BY <1>1, DropOf
<1> HIDE DEF u
<1>4. Extends(u)
  <2>1. \A y \in Rows : u.status[y] = status[y]
    BY <1>1, <1>3 DEF Extends, Rows
  <2>2. u.overflow \subseteq overflow
    BY <1>3 DEF Extends
  <2>3. \A e \in overflow \ u.overflow : u.status[e.wake] # "absent"
    <3> SUFFICES ASSUME NEW e \in overflow, e \notin u.overflow PROVE u.status[e.wake] # "absent"
      OBVIOUS
    <3>1. e.wake \in Wakes
      BY DEF Shape, Tables, TableSets, Entries
    <3>2. CASE e \in t.overflow
      BY <1>1, <1>3, <3>2
    <3>3. CASE e \notin t.overflow
      BY <1>1, <1>3, <3>1, <3>3 DEF Extends
    <3> QED BY <3>2, <3>3
  <2> QED BY <2>1, <2>2, <2>3 DEF Extends
<1>5. Renews(t) /\ v > t.meta => Renews(u)
  <2> SUFFICES ASSUME Renews(t), v > t.meta PROVE Renews(u)
    OBVIOUS
  <2>1. meta \in Nat /\ rev \in [Wakes -> Nat] /\ t.meta \in Nat /\ t.rev \in [Wakes -> Nat]
    BY DEF Shape, Tables, TableSets
  <2>2. u.meta >= meta
    BY <1>3, <2>1 DEF Renews
  <2>3. ASSUME NEW y \in Wakes
        PROVE  u.rev[y] = rev[y] \/ (u.rev[y] > meta /\ u.rev[y] <= u.meta)
    <3>1. CASE y = x
      BY <1>1, <1>3, <2>1, <3>1 DEF Renews
    <3>2. CASE y # x
      BY <1>1, <1>3, <2>1, <3>2 DEF Renews
    <3> QED BY <3>1, <3>2
  <2>4. ASSUME NEW e \in overflow, e \notin u.overflow
        PROVE  u.rev[e.wake] > meta
    <3>1. e.wake \in Wakes
      BY DEF Shape, Tables, TableSets, Entries
    <3>2. CASE e.wake = x
      BY <1>1, <1>3, <2>1, <3>2 DEF Renews
    <3>3. CASE e.wake # x
      <4>1. e \notin t.overflow
        BY <1>3, <2>4, <3>3
      <4>2. t.rev[e.wake] > meta
        BY <4>1 DEF Renews
      <4>3. u.rev[e.wake] = t.rev[e.wake]
        BY <1>1, <1>3, <3>1, <3>3
      <4> QED BY <4>2, <4>3
    <3> QED BY <3>2, <3>3
  <2> QED BY <2>2, <2>3, <2>4 DEF Renews
<1>6. /\ u \in TableSets /\ Extends(u)
      /\ Cardinality(Stored(u))
                = IF x \in Stored(t) THEN Cardinality(Stored(t)) ELSE Cardinality(Stored(t)) + 1
      /\ Renews(t) /\ v > t.meta => Renews(u)
  BY <1>2, <1>3, <1>4, <1>5
<1> QED BY <1>6 DEF u, p, Moved

-----------------------------------------------------------------------------
(* The invariant *)

LEMMA Empty ==
    /\ NoDraft \in TableSets /\ NoDraft.meta = 0 /\ NoDraft.overflow = {}
    /\ NoDraft.status \in [Wakes -> {"absent", "pending", "running"}]
    /\ NoDraft.rev \in [Wakes -> Nat] /\ \A x \in Wakes : NoDraft.rev[x] = 0
    /\ NotServing \in [wake : Wakes \cup {None}, rev : Nat]
  BY DEF NoDraft, TableSets, Entries, NotServing

LEMMA Starting == Init => Inv
<1> SUFFICES ASSUME Init PROVE Inv
  OBVIOUS
<1>1. Tables \in TableSets
  BY Empty DEF Init, Tables, TableSets
<1>2. IsFiniteSet(overflow) /\ Cardinality(overflow) = 0
  BY FS_EmptySet DEF Init
<1>3. /\ draft \in TableSets /\ serving \in [wake : Wakes \cup {None}, rev : Nat]
      /\ \A d, e \in overflow : d.wake = e.wake => d = e
      /\ offers = 0 /\ newer \in BOOLEAN /\ reused \in BOOLEAN
  BY Empty DEF Init
<1>4. /\ at \in [Readers -> {"idle", "exists", "count", "base", "write", "loop"}]
      /\ todo \in [Readers -> SUBSET Entries] /\ base \in [Readers -> Nat]
      /\ \A r \in Readers : at[r] = "idle"
  BY DEF Init
<1>5. Shape
  BY <1>1, <1>2, <1>3, <1>4, StoreAssumption DEF Shape
<1> QED
  BY <1>4, <1>5, Empty DEF Init, Inv, OneWriter, Open, Revisions, Served, ServedRowStays

\* A step of a reader that neither opens nor closes a transaction nor writes in it.
Apart ==
    /\ UNCHANGED <<tableVars, serveVars, reused>>
    /\ \A q \in Readers : at'[q] = "loop" => at[q] = "loop" /\ base'[q] = base[q] /\ draft' = draft

LEMMA KeptApart == Inv /\ Apart /\ Shape' => Inv'
<1> SUFFICES ASSUME Inv, Apart, Shape' PROVE Inv'
  OBVIOUS
<1>1. UNCHANGED <<status, rev, meta, overflow, serving, newer, reused>>
  BY DEF Apart, tableVars, serveVars
<1>2. OneWriter'
  BY DEF Inv, OneWriter, Apart
<1>3. Open'
  <2> SUFFICES ASSUME NEW q \in Readers, at'[q] = "loop"
               PROVE  (Extends(draft) /\ Within(draft) /\ (base[q] = meta => Renews(draft)))'
    BY DEF Open
  <2>1. at[q] = "loop" /\ base'[q] = base[q] /\ draft' = draft /\ Rows' = Rows
    BY <1>1 DEF Apart, Rows
  <2>2. Extends(draft) /\ Within(draft) /\ (base[q] = meta => Renews(draft))
    BY <2>1 DEF Inv, Open
  <2>3. Extends(draft)'
    BY <1>1, <2>1, <2>2 DEF Extends
  <2>4. Within(draft)'
    BY <2>1, <2>2 DEF Within, Stored
  <2>5. base'[q] = meta' => Renews(draft)'
    BY <1>1, <2>1, <2>2 DEF Renews
  <2> QED BY <2>3, <2>4, <2>5
<1> QED BY <1>1, <1>2, <1>3 DEF Inv, Revisions, Served, ServedRowStays

\* The steps of a reader outside transactions.
LEMMA Reading ==
    ASSUME Inv, NEW r \in Readers,
           Lists(r) \/ LooksForRow(r) \/ CountsRows(r) \/ ReadsCounter(r) \/ GivesUp(r)
    PROVE  Inv'
<1> USE DEF Inv, Shape, ReadsOnly, tableVars, readerVars, serveVars, GoesOn, Tables
<1>1. CASE Lists(r)
  <2>1. overflow \in SUBSET Entries
    BY DEF TableSets
  <2>2. Shape'
    BY <1>1, <2>1 DEF Lists
  <2>3. Apart
    BY <1>1 DEF Lists, Apart
  <2> QED BY <2>2, <2>3, KeptApart
<1>2. CASE LooksForRow(r)
  <2>1. PICK e \in Turn(r) : GoesOn(r, IF e.wake \in Rows THEN "base" ELSE "count")
    BY <1>2 DEF LooksForRow
  <2>2. Shape'
    BY <1>2, <2>1 DEF LooksForRow
  <2>3. Apart
    BY <1>2, <2>1 DEF LooksForRow, Apart
  <2> QED BY <2>2, <2>3, KeptApart
<1>3. CASE CountsRows(r)
  <2>1. PICK e \in Turn(r) : FindsRoom(r, e) \/ Passes(r, e)
    BY <1>3 DEF CountsRows
  <2>2. Shape'
    <3>1. CASE FindsRoom(r, e)
      BY <1>3, <3>1 DEF CountsRows, FindsRoom
    <3>2. CASE Passes(r, e)
      <4>1. todo' = [todo EXCEPT ![r] = @ \ {e}] /\ (todo[r] # {e} => todo'[r] # {})
        BY <2>1, <3>2 DEF Passes, Done, Turn
      <4> QED BY <1>3, <3>2, <4>1 DEF CountsRows, Passes
    <3> QED BY <2>1, <3>1, <3>2
  <2>3. Apart
    BY <1>3, <2>1 DEF CountsRows, FindsRoom, Passes, Apart
  <2> QED BY <2>2, <2>3, KeptApart
<1>4. CASE ReadsCounter(r)
  <2>1. meta \in Nat
    BY DEF TableSets
  <2>2. Shape'
    BY <1>4, <2>1 DEF ReadsCounter
  <2>3. Apart
    BY <1>4 DEF ReadsCounter, Apart
  <2> QED BY <2>2, <2>3, KeptApart
<1>5. CASE GivesUp(r)
  <2>1. Shape'
    BY <1>5, Empty DEF GivesUp, Leaves
  <2>2. Apart
    BY <1>5 DEF GivesUp, Leaves, Apart, OneWriter
  <2> QED BY <2>1, <2>2, KeptApart
<1> QED BY <1>1, <1>2, <1>3, <1>4, <1>5

\* The transaction begins with its first row.
LEMMA Writing == ASSUME Inv, NEW r \in Readers, Writes(r) PROVE Inv'
<1> USE DEF Inv, Shape
<1>1. PICK e \in Turn(r) :
        Done(r, e) /\ draft' = Drop(Upsert(Tables, e.wake, base[r] + 1), e.wake)
  BY DEF Writes
<1>2. e.wake \in Wakes /\ base[r] \in Nat /\ base[r] + 1 \in Nat /\ meta \in Nat
  BY DEF Turn, Entries, Tables, TableSets
<1>3. UNCHANGED <<tableVars, base, serveVars, offers, reused>> /\ Unlocked /\ GoesOn(r, "loop")
  BY DEF Writes
<1>4. UNCHANGED <<status, rev, meta, overflow, Tables, Rows>>
  BY <1>3 DEF tableVars, Tables, Rows
<1>5. Extends(Tables) /\ Renews(Tables) /\ Tables.meta = meta
  BY <1>2 DEF Extends, Renews, Tables, Rows
<1>6. /\ draft' \in TableSets /\ Extends(draft')
      /\ Cardinality(Stored(draft')) <= Cardinality(Rows) + 1
      /\ base[r] = meta => Renews(draft')
  <2> DEFINE t == Moved(Tables, e.wake, base[r] + 1)
  <2>1. draft' = t
    BY <1>1 DEF Moved
  <2>2. /\ t \in TableSets /\ Extends(t)
        /\ Cardinality(Stored(t)) = IF e.wake \in Stored(Tables)
             THEN Cardinality(Stored(Tables)) ELSE Cardinality(Stored(Tables)) + 1
        /\ base[r] + 1 > Tables.meta => Renews(t)
    BY <1>2, <1>5, Promoted
  <2> HIDE DEF t
  <2>3. Cardinality(Stored(t)) <= Cardinality(Rows) + 1
    BY <2>2, RowsFinite, RowsStored
  <2>4. base[r] = meta => Renews(t)
    BY <1>2, <1>5, <2>2
  <2> QED BY <2>1, <2>2, <2>3, <2>4
<1>7. Shape'
  BY <1>1, <1>3, <1>4, <1>6 DEF Done, GoesOn, serveVars
<1>8. OneWriter'
  BY <1>3 DEF Unlocked, GoesOn, OneWriter
<1>9. \A q \in Readers : at'[q] = "loop" => q = r
  BY <1>3 DEF Unlocked, GoesOn
<1>10. Open'
  <2>1. Extends(draft)' /\ (base'[r] = meta' => Renews(draft)')
    BY <1>3, <1>4, <1>6 DEF Extends, Renews
  <2>2. Within(draft)'
    BY <1>4, <1>6 DEF Within, Stored
  <2> QED BY <1>9, <2>1, <2>2 DEF Open
<1> QED BY <1>3, <1>4, <1>7, <1>8, <1>10 DEF serveVars, Revisions, Served, ServedRowStays

LEMMA Promoting == ASSUME Inv, NEW r \in Readers, Promotes(r) PROVE Inv'
<1> USE DEF Inv, Shape
<1>1. PICK e \in Turn(r) : Done(r, e) /\ draft' = Promote(draft, e.wake)
  BY DEF Promotes
<1>2. e.wake \in Wakes /\ draft.meta \in Nat /\ draft.meta + 1 \in Nat
  BY DEF Turn, Entries, TableSets
<1>3. at[r] = "loop" /\ UNCHANGED <<tableVars, at, base, serveVars, offers, reused>>
  BY DEF Promotes, InLoop
<1>4. UNCHANGED <<status, rev, meta, overflow, Tables, Rows>>
  BY <1>3 DEF tableVars, Tables, Rows
<1>5. Extends(draft) /\ Within(draft) /\ (base[r] = meta => Renews(draft))
  BY <1>3 DEF Open
<1>6. draft' \in TableSets /\ Extends(draft') /\ (base[r] = meta => Renews(draft'))
      /\ Within(draft')
  <2>1. CASE HasRoom(draft, e.wake)
    <3>1. draft' = Drop(Upsert(draft, e.wake, draft.meta + 1), e.wake)
      BY <1>1, <2>1 DEF Promote
    <3>2. /\ draft' \in TableSets /\ Extends(draft')
          /\ base[r] = meta => Renews(draft')
          /\ Cardinality(Stored(draft')) = IF e.wake \in Stored(draft)
               THEN Cardinality(Stored(draft)) ELSE Cardinality(Stored(draft)) + 1
      <4> DEFINE t == Moved(draft, e.wake, draft.meta + 1)
      <4>1. draft' = t
        BY <3>1 DEF Moved
      <4>2. /\ t \in TableSets /\ Extends(t)
            /\ Cardinality(Stored(t)) = IF e.wake \in Stored(draft)
                 THEN Cardinality(Stored(draft)) ELSE Cardinality(Stored(draft)) + 1
            /\ Renews(draft) /\ draft.meta + 1 > draft.meta => Renews(t)
        BY <1>2, <1>5, Promoted
      <4> HIDE DEF t
      <4> QED BY <1>2, <1>5, <4>1, <4>2
    <3>3. e.wake \notin Stored(draft) => Cardinality(Stored(draft)) < LimitOf(e.wake)
      BY <2>1 DEF HasRoom
    <3>4. LimitOf(e.wake) <= Limit /\ Limit \in Nat /\ LimitOf(e.wake) \in Nat
      BY StoreAssumption DEF LimitOf
    <3>5. Within(draft')
      BY <1>5, <3>2, <3>3, <3>4, RowsFinite DEF Within
    <3> QED BY <3>2, <3>5
  <2>2. CASE ~HasRoom(draft, e.wake)
    BY <1>1, <1>5, <2>2 DEF Promote
  <2> QED BY <2>1, <2>2
<1>7. Shape'
  BY <1>1, <1>3, <1>4, <1>6 DEF Done, serveVars
<1>8. \A q \in Readers : at'[q] = "loop" => q = r
  BY <1>3 DEF OneWriter
<1>9. Open'
  <2>1. Extends(draft)' /\ (base'[r] = meta' => Renews(draft)')
    BY <1>3, <1>4, <1>6 DEF Extends, Renews
  <2>2. Within(draft)'
    BY <1>4, <1>6 DEF Within, Stored
  <2> QED BY <1>8, <2>1, <2>2 DEF Open
<1> QED BY <1>3, <1>4, <1>7, <1>9 DEF serveVars, OneWriter, Revisions, Served, ServedRowStays

\* What the others see of a transaction is its commit.
LEMMA Committing == ASSUME Inv, NEW r \in Readers, Commits(r) PROVE Inv'
<1> USE DEF Inv, Shape
<1>1. /\ at[r] = "loop" /\ Commit(draft) /\ draft' = NoDraft /\ Leaves(r)
      /\ reused' = (reused \/ base[r] # meta) /\ UNCHANGED <<serveVars, offers>>
  BY DEF Commits
<1>2. Extends(draft) /\ (base[r] = meta => Renews(draft))
  BY <1>1 DEF Open
<1>3. draft = [status |-> draft.status, rev |-> draft.rev, meta |-> draft.meta,
               overflow |-> draft.overflow]
  BY DEF TableSets
<1>4. Tables' = draft
  BY <1>1, <1>3 DEF Commit, Tables
<1>5. overflow' \subseteq overflow
  BY <1>1, <1>2 DEF Commit, Extends
<1>6. IsFiniteSet(overflow') /\ Cardinality(overflow') <= OverflowLimit
  <2>1. IsFiniteSet(overflow') /\ Cardinality(overflow') <= Cardinality(overflow)
    BY <1>5, FS_Subset
  <2> QED BY <2>1, FS_CardinalityType, StoreAssumption
<1>7. Shape'
  BY <1>1, <1>4, <1>5, <1>6, Empty DEF Leaves, GoesOn, serveVars
<1>8. \A q \in Readers : at'[q] # "loop"
  BY <1>1 DEF OneWriter, Leaves, GoesOn
<1>9. ServedRowStays' /\ Served'
  <2>1. serving # NotServing => serving.wake \in Rows
    BY DEF Served, ServedRowStays, Rows
  <2> QED BY <1>1, <1>2, <2>1 DEF Commit, Extends, serveVars, ServedRowStays, Served
<1>10. Revisions'
  <2> SUFFICES ASSUME ~reused' PROVE Revisions'
    BY DEF Revisions
  <2>1. ~reused /\ Renews(draft)
    BY <1>1, <1>2
  <2>2. /\ meta \in Nat /\ rev \in [Wakes -> Nat] /\ draft.meta \in Nat
        /\ draft.rev \in [Wakes -> Nat] /\ serving.rev \in Nat
    BY DEF Tables, TableSets
  <2>3. rev' = draft.rev /\ meta' = draft.meta /\ UNCHANGED <<serving, newer>>
    BY <1>1 DEF Commit, serveVars
  <2>4. \A x \in Wakes : rev'[x] <= meta'
    BY <2>1, <2>2, <2>3 DEF Revisions, Renews
  <2>5. serving' # NotServing => serving'.rev <= meta'
    BY <2>1, <2>2, <2>3 DEF Revisions, Renews
  <2>6. newer' => rev'[serving'.wake] > serving'.rev
    BY <2>1, <2>2, <2>3 DEF Revisions, Renews, Served
  <2> QED BY <2>4, <2>5, <2>6 DEF Revisions
<1> QED BY <1>7, <1>8, <1>9, <1>10 DEF OneWriter, Open

\* What writes in one transaction of its own finds none open.
LEMMA KeptClosed ==
    ASSUME Inv, Unlocked, UNCHANGED at, Shape', Revisions', Served', ServedRowStays'
    PROVE  Inv'
  BY DEF Inv, Unlocked, OneWriter, Open

LEMMA Offering ==
    ASSUME Inv, NEW x \in Wakes, OfferQueued(x) \/ OfferRetained(x) \/ OfferDropped(x)
    PROVE  Inv'
<1> USE DEF Inv, Shape, tableVars, readerVars, serveVars, Offered
<1>1. offers' \in 0..MaxOffers /\ offers \in Nat /\ Unlocked /\ at' = at /\ meta \in Nat
      /\ rev \in [Wakes -> Nat] /\ status \in [Wakes -> {"absent", "pending", "running"}]
      /\ overflow \in SUBSET Entries
  BY StoreAssumption DEF OfferQueued, OfferRetained, OfferDropped, Tables, TableSets
<1>2. CASE OfferQueued(x)
  <2> DEFINE u == Upsert(Tables, x, meta + 1)
  <2>1. /\ u \in TableSets /\ u.meta = meta + 1 /\ u.overflow = overflow
        /\ u.rev[x] = meta + 1 /\ \A y \in Wakes : y # x => u.rev[y] = rev[y]
        /\ \A y \in Wakes : status[y] # "absent" => u.status[y] = status[y]
    <3>1. /\ u \in TableSets /\ u.meta = meta + 1 /\ u.overflow = Tables.overflow
          /\ u.rev[x] = meta + 1 /\ \A y \in Wakes : y # x => u.rev[y] = Tables.rev[y]
          /\ \A y \in Wakes : Tables.status[y] # "absent" => u.status[y] = Tables.status[y]
      <4>1. Tables \in TableSets /\ meta + 1 \in Nat
        BY <1>1
      <4>2. \A v \in Nat : v = meta + 1 =>
              /\ Upsert(Tables, x, v) \in TableSets /\ Upsert(Tables, x, v).meta = v
              /\ Upsert(Tables, x, v).overflow = Tables.overflow
              /\ Upsert(Tables, x, v).rev[x] = v
              /\ \A y \in Wakes : y # x => Upsert(Tables, x, v).rev[y] = Tables.rev[y]
              /\ \A y \in Wakes : Tables.status[y] # "absent"
                                    => Upsert(Tables, x, v).status[y] = Tables.status[y]
        <5> HIDE DEF Inv, Shape, u
        <5> QED BY <4>1, UpsertOf
      <4> QED BY <4>1, <4>2, Zenon
    <3> QED BY <3>1 DEF Tables
  <2>2. /\ Commit(u) /\ newer' = (newer \/ serving.wake = x)
        /\ UNCHANGED <<at, todo, base, draft, serving, reused>>
    BY <1>2 DEF OfferQueued
  <2> HIDE DEF u
  <2>3. Tables' = u
    BY <2>1, <2>2 DEF Commit, Tables, TableSets
  <2>4. Shape'
    BY <1>1, <2>1, <2>2, <2>3 DEF Commit
  <2>5. ServedRowStays' /\ Served'
    BY <2>1, <2>2, StoreAssumption DEF Commit, ServedRowStays, Served, NotServing
  <2>6. Revisions'
    <3> SUFFICES ASSUME ~reused PROVE Revisions'
      BY <2>2 DEF Revisions
    <3>1. serving.rev \in Nat /\ meta' = meta + 1 /\ rev' = u.rev
      BY <2>1, <2>2 DEF Commit
    <3>2. \A y \in Wakes : rev'[y] <= meta'
      BY <1>1, <2>1, <3>1 DEF Revisions
    <3>3. serving' # NotServing => serving'.rev <= meta'
      BY <1>1, <2>2, <3>1 DEF Revisions
    <3>4. ASSUME newer' PROVE rev'[serving'.wake] > serving'.rev
      <4>1. CASE serving.wake = x
        <5>1. serving # NotServing
          BY <4>1, StoreAssumption DEF NotServing
        <5> QED BY <1>1, <2>1, <2>2, <3>1, <4>1, <5>1 DEF Revisions
      <4>2. CASE serving.wake # x
        BY <2>1, <2>2, <3>1, <3>4, <4>2 DEF Revisions, Served
      <4> QED BY <4>1, <4>2
    <3> QED BY <3>2, <3>3, <3>4 DEF Revisions
  <2> QED BY <1>1, <2>4, <2>5, <2>6, KeptClosed
<1>3. CASE OfferRetained(x)
  <2>1. UNCHANGED <<status, rev, meta, at, todo, base, draft, serving, newer, reused>>
    BY <1>3 DEF OfferRetained
  <2>2. /\ overflow' \in SUBSET Entries /\ IsFiniteSet(overflow')
        /\ Cardinality(overflow') <= OverflowLimit
        /\ \A d, e \in overflow' : d.wake = e.wake => d = e
    <3>1. CASE x \in Retained
      BY <1>1, <1>3, <3>1 DEF OfferRetained
    <3>2. CASE x \notin Retained
      <4> DEFINE new == [wake |-> x, at |-> offers]
      <4>1. overflow' = overflow \cup {new} /\ Cardinality(overflow) < OverflowLimit
        BY <1>3, <3>2 DEF OfferRetained
      <4>2. new \in Entries /\ new.wake = x /\ new \notin overflow
        BY <1>1, <3>2 DEF Entries, Retained
      <4>3. \A d \in overflow : d.wake # new.wake
        BY <3>2, <4>2 DEF Retained
      <4> HIDE DEF new
      <4>4. IsFiniteSet(overflow') /\ Cardinality(overflow') = Cardinality(overflow) + 1
        BY <4>1, <4>2, FS_AddElement
      <4>5. Cardinality(overflow) \in Nat /\ OverflowLimit \in Nat
        BY FS_CardinalityType, StoreAssumption
      <4> QED BY <1>1, <4>1, <4>2, <4>3, <4>4, <4>5
    <3> QED BY <3>1, <3>2
  <2>3. Tables' \in TableSets
    BY <1>1, <2>1, <2>2 DEF Tables, TableSets
  <2>4. Shape'
    BY <1>1, <2>1, <2>2, <2>3
  <2> QED BY <1>1, <2>1, <2>4, KeptClosed DEF Revisions, Served, ServedRowStays
<1>4. CASE OfferDropped(x)
  <2>1. UNCHANGED <<tableVars, Tables, readerVars, serveVars, reused>>
    BY <1>4 DEF OfferDropped, Tables
  <2>2. Shape'
    BY <1>1, <2>1
  <2> QED BY <1>1, <2>1, <2>2, KeptClosed DEF Revisions, Served, ServedRowStays
<1> QED BY <1>2, <1>3, <1>4

\* The dispatcher and the cancellation.
LEMMA Dispatching ==
    ASSUME Inv, (\E x \in Wakes : Claim(x)) \/ Ack \/ Retry \/ \E x \in Builds : Cancels(x)
    PROVE  Inv'
<1> USE DEF Inv, Shape, tableVars, readerVars, serveVars
<1>1. /\ Tables \in TableSets /\ meta \in Nat /\ overflow \in SUBSET Entries
      /\ rev \in [Wakes -> Nat] /\ status \in [Wakes -> {"absent", "pending", "running"}]
      /\ NotServing.wake = None /\ None \notin Wakes
  BY StoreAssumption DEF Tables, TableSets, NotServing
<1>2. ASSUME NEW x \in Wakes, Claim(x) PROVE Inv'
  <2>1. /\ Unlocked /\ status' = [status EXCEPT ![x] = "running"]
        /\ serving' = [wake |-> x, rev |-> rev[x]] /\ newer' = FALSE
        /\ UNCHANGED <<rev, meta, overflow, readerVars, offers, reused>>
    BY <1>2 DEF Claim
  <2>2. Shape'
    BY <1>1, <2>1 DEF Tables, TableSets
  <2> QED BY <1>1, <2>1, <2>2, KeptClosed DEF Revisions, Served, ServedRowStays
<1>3. CASE Ack
  <2>1. /\ Unlocked /\ serving' = NotServing /\ newer' = FALSE /\ serving # NotServing
        /\ UNCHANGED <<meta, overflow, readerVars, offers, reused>>
    BY <1>3 DEF Ack, Settles
  <2>2. PICK s \in {"absent", "pending"}, v \in {0, rev[serving.wake]} :
             /\ status' = [status EXCEPT ![serving.wake] = s]
             /\ rev' = [rev EXCEPT ![serving.wake] = v]
    BY <1>1, <1>3 DEF Ack, Served
  <2>3. v \in Nat
    BY <1>1, <2>1 DEF Served
  <2>4. status' \in [Wakes -> {"absent", "pending", "running"}] /\ rev' \in [Wakes -> Nat]
    BY <1>1, <2>2, <2>3
  <2>5. Shape'
    BY <1>1, <2>1, <2>4, Empty DEF Tables, TableSets
  <2>6. \A y \in Wakes : rev'[y] = rev[y] \/ rev'[y] = 0
    BY <1>1, <2>2
  <2>7. Revisions'
    BY <1>1, <2>1, <2>6 DEF Revisions
  <2> QED BY <1>1, <2>1, <2>5, <2>7, KeptClosed DEF Served, ServedRowStays
<1>4. CASE Retry
  <2>1. /\ Unlocked /\ serving' = NotServing /\ newer' = FALSE
        /\ status' = [status EXCEPT ![serving.wake] = "pending"]
        /\ UNCHANGED <<rev, meta, overflow, readerVars, offers, reused>>
    BY <1>4 DEF Retry, Settles
  <2>2. Shape'
    BY <1>1, <2>1, Empty DEF Tables, TableSets
  <2> QED BY <1>1, <2>1, <2>2, KeptClosed DEF Revisions, Served, ServedRowStays
<1>5. ASSUME NEW x \in Builds, Cancels(x) PROVE Inv'
  <2>1. x \in Wakes
    BY StoreAssumption
  <2> DEFINE kept == {e \in overflow : e.wake # x}
  <2>3. /\ status[x] = "pending" /\ Unlocked
        /\ UNCHANGED <<readerVars, serveVars, offers, reused>>
        /\ status' = [status EXCEPT ![x] = "absent"] /\ rev' = [rev EXCEPT ![x] = 0]
        /\ meta' = meta /\ overflow' = kept
    BY <1>5 DEF Cancels, Removed
  <2>4. /\ kept \subseteq overflow /\ IsFiniteSet(kept) /\ Cardinality(kept) <= OverflowLimit
    <3>1. kept \subseteq overflow /\ IsFiniteSet(kept) /\ Cardinality(kept) <= Cardinality(overflow)
      BY FS_Subset
    <3> QED BY <3>1, FS_CardinalityType, StoreAssumption
  <2>5. Shape'
    BY <1>1, <2>3, <2>4 DEF Tables, TableSets
  <2> QED BY <1>1, <2>1, <2>3, <2>5, KeptClosed DEF Revisions, Served, ServedRowStays
<1> QED BY <1>2, <1>3, <1>4, <1>5

LEMMA Kept == Inv /\ [Next]_vars => Inv'
<1> SUFFICES ASSUME Inv, [Next]_vars PROVE Inv'
  OBVIOUS
<1>1. CASE UNCHANGED vars
  BY <1>1 DEF vars, tableVars, readerVars, serveVars, Inv, Shape, Tables, OneWriter, Open, Extends,
              Within, Renews, Rows, Stored, Revisions, Served, ServedRowStays
<1>2. ASSUME NEW r \in Readers, Reads(r) \/ GivesUp(r) PROVE Inv'
  BY <1>2, Reading, Writing, Promoting, Committing DEF Reads
<1> QED BY <1>1, <1>2, Offering, Dispatching DEF Next

-----------------------------------------------------------------------------
(* Theorems *)

THEOREM Invariance == Spec => []Inv
<1> QED BY Starting, Kept, PTL DEF Spec

\* Tables, readers and dispatcher have their types, and the overflow table its bound.
THEOREM TypeCorrect == Spec => []TypeOK
<1>1. Inv => TypeOK
  BY DEF Inv, Shape, TypeOK
<1> QED BY <1>1, Invariance, PTL

\* The row of a running dispatch stays in the table, running: neither a promotion
\* from a stale list nor a cancellation (status='pending') touches it.
THEOREM ServedStays == Spec => []ServedRowStays
<1>1. Inv => ServedRowStays
  BY DEF Inv
<1> QED BY <1>1, Invariance, PTL

\* The steps that change rows or entries, with what they do to them.
LEMMA Changes ==
    ASSUME Inv, [Next]_vars
    PROVE  \/ Rows' = Rows /\ overflow' = overflow
           \/ \E r \in Readers : Commits(r)
           \/ \E x \in Wakes : OfferQueued(x)
           \/ Rows' = Rows /\ overflow \subseteq overflow'
           \/ Ack
           \/ \E x \in Builds : Cancels(x)
<1>1. CASE UNCHANGED vars
  BY <1>1 DEF vars, tableVars, Rows
<1>2. ASSUME NEW r \in Readers, Reads(r) \/ GivesUp(r), ~Commits(r)
      PROVE  Rows' = Rows /\ overflow' = overflow
  BY <1>2 DEF Reads, GivesUp, Lists, LooksForRow, CountsRows, ReadsCounter, Writes, Promotes,
              InLoop, ReadsOnly, tableVars, Rows
<1>3. ASSUME NEW x \in Wakes, OfferRetained(x) \/ OfferDropped(x)
      PROVE  Rows' = Rows /\ overflow \subseteq overflow'
  BY <1>3 DEF OfferRetained, OfferDropped, tableVars, Rows
<1>4. ASSUME NEW x \in Wakes, Claim(x) PROVE Rows' = Rows /\ overflow' = overflow
  <2>1. status \in [Wakes -> {"absent", "pending", "running"}]
    BY DEF Inv, Shape, Tables, TableSets
  <2> QED BY <1>4, <2>1 DEF Claim, Rows
<1>5. ASSUME Retry PROVE Rows' = Rows /\ overflow' = overflow
  <2>1. status \in [Wakes -> {"absent", "pending", "running"}]
    BY DEF Inv, Shape, Tables, TableSets
  <2>2. status[serving.wake] = "running" /\ serving.wake \in Wakes
    BY <1>5 DEF Retry, Settles, Inv, ServedRowStays, Served
  <2> QED BY <1>5, <2>1, <2>2 DEF Retry, Rows
<1> QED BY <1>1, <1>2, <1>3, <1>4, <1>5 DEF Next

\* A promotion on a stale count passes MAX_WAKES by at most one row: what follows
\* in its transaction is counted again, and no other step passes the limit.
THEOREM OverrunsByOne == Spec => OverrunByOne
<1>1. ASSUME Inv, [Next]_vars
      PROVE  Cardinality(Rows') > Limit => Cardinality(Rows') <= Cardinality(Rows) + 1
  <2>1. /\ IsFiniteSet(Rows) /\ Cardinality(Rows) \in Nat
        /\ \A S \in SUBSET Rows : Cardinality(S) \in Nat /\ Cardinality(S) <= Cardinality(Rows)
    BY RowsFinite, RowsStored, FS_Subset, FS_CardinalityType
  <2>2. CASE Rows' = Rows
    BY <2>1, <2>2
  <2>3. ASSUME NEW r \in Readers, Commits(r)
        PROVE  Cardinality(Rows') > Limit => Cardinality(Rows') <= Cardinality(Rows) + 1
    <3>1. Within(draft)
      BY <1>1, <2>3 DEF Inv, Open, Commits
    <3>2. Rows' = Stored(draft)
      BY <2>3 DEF Commits, Commit, Rows, Stored
    <3> QED BY <3>1, <3>2 DEF Within
  <2>4. ASSUME NEW x \in Wakes, OfferQueued(x)
        PROVE  Cardinality(Rows') <= Cardinality(Rows) + 1
    <3>1. Rows' = Stored(Upsert(Tables, x, meta + 1))
      BY <2>4 DEF OfferQueued, Commit, Rows, Stored
    <3>2. Tables \in TableSets /\ meta + 1 \in Nat
      BY <1>1 DEF Inv, Shape, Tables, TableSets
    <3>3. Rows' = Rows \cup {x}
      BY <3>1, <3>2, OneMore, RowsStored
    <3> QED BY <2>1, <3>3, FS_AddElement
  <2>5. CASE Rows' \subseteq Rows
    BY <2>1, <2>5
  <2>6. Ack \/ (\E x \in Builds : Cancels(x)) => Rows' \subseteq Rows
    <3>1. /\ status \in [Wakes -> {"absent", "pending", "running"}]
          /\ serving # NotServing => status[serving.wake] = "running"
      BY <1>1 DEF Inv, Shape, Tables, TableSets, ServedRowStays
    <3>2. ASSUME Ack PROVE Rows' \subseteq Rows
      BY <3>1, <3>2 DEF Ack, Settles, Rows
    <3>3. ASSUME NEW x \in Builds, Cancels(x) PROVE Rows' \subseteq Rows
      BY <3>1, <3>3 DEF Cancels, Removed, Rows
    <3> QED BY <3>2, <3>3
  <2> QED BY <1>1, <2>2, <2>3, <2>4, <2>5, <2>6, Changes
<1> QED BY <1>1, Invariance, PTL DEF Spec, OverrunByOne

\* No retained wake is lost: it leaves the overflow table for a row, or with its
\* cancelled row.
THEOREM RetainedStays == Spec => RetainedKept
<1>1. ASSUME Inv, [Next]_vars, NEW x \in Retained \ Retained'
      PROVE  x \in Rows' \/ (x \in Builds /\ status[x] = "pending")
  <2>1. PICK e \in overflow : e.wake = x /\ e \notin overflow'
    BY DEF Retained
  <2>2. x \in Wakes
    BY <1>1, <2>1 DEF Inv, Shape, Tables, TableSets, Entries
  <2>3. ASSUME NEW r \in Readers, Commits(r) PROVE x \in Rows'
    <3>1. Extends(draft) /\ overflow' = draft.overflow /\ status' = draft.status
      BY <1>1, <2>3 DEF Inv, Open, Commits, Commit
    <3> QED BY <2>1, <2>2, <3>1 DEF Extends, Rows
  <2>4. ASSUME NEW y \in Wakes, OfferQueued(y) PROVE FALSE
    BY <2>1, <2>4 DEF OfferQueued, Commit, Upsert, Tables
  <2>5. ASSUME NEW y \in Builds, Cancels(y) PROVE x \in Builds /\ status[x] = "pending"
    BY <2>1, <2>5 DEF Cancels, Removed
  <2>6. ~Ack
    BY <2>1 DEF Ack
  <2>7. ~(overflow \subseteq overflow')
    BY <2>1
  <2>8. (\E r \in Readers : Commits(r)) \/ (\E y \in Builds : Cancels(y))
    BY <1>1, <2>4, <2>6, <2>7, Changes
  <2> QED BY <2>3, <2>5, <2>8
<1>2. Inv /\ [Next]_vars => \A x \in Retained \ Retained' :
                                x \in Rows' \/ (x \in Builds /\ status[x] = "pending")
  BY <1>1
<1> QED BY <1>2, Invariance, PTL DEF Spec, RetainedKept

-----------------------------------------------------------------------------
(* The full queue implements its contract *)

\* What is owed are wakes; while nothing is served, every entry and every row.
LEMMA OwedOf ==
    ASSUME Inv
    PROVE  /\ Retained \subseteq Wakes /\ Owed \subseteq Wakes
           /\ serving = NotServing => serving.wake = None /\ Owed = Retained \cup Rows
           /\ serving # NotServing => /\ serving.wake \in Rows /\ serving.wake # None
                                      /\ status[serving.wake] = "running"
<1>1. Retained \subseteq Wakes
  BY DEF Inv, Shape, Tables, TableSets, Entries, Retained
<1>2. serving = NotServing => serving.wake = None /\ Owed = Retained \cup Rows
  BY StoreAssumption DEF NotServing, Owed, Rows
<1>3. serving # NotServing => /\ serving.wake \in Rows /\ serving.wake # None
                              /\ status[serving.wake] = "running"
  BY StoreAssumption DEF Inv, Served, ServedRowStays, Rows
<1> QED BY <1>1, <1>2, <1>3 DEF Owed, Rows

\* What a step leaves owed as it was.
LEMMA SameOwed == UNCHANGED <<tableVars, serving>> => UNCHANGED Contract!vars
  BY DEF tableVars, Contract!vars, Owed, Retained, Rows

\* An accepted offer is owed at once: its revision is not the one being dispatched.
LEMMA AcceptMaps ==
    ASSUME Inv, ~reused', NEW x \in Wakes, Accepts(x)
    PROVE  Contract!Requests /\ x \in Owed'
<1>1. /\ Owed \subseteq Wakes /\ Retained \subseteq Wakes /\ ~reused
      /\ serving' = serving /\ meta \in Nat /\ serving.rev \in Nat
      /\ status \in [Wakes -> {"absent", "pending", "running"}] /\ rev \in [Wakes -> Nat]
  BY OwedOf DEF Accepts, OfferQueued, OfferRetained, serveVars, Inv, Shape, Tables, TableSets
<1>2. CASE OfferQueued(x)
  <2> DEFINE u == Upsert(Tables, x, meta + 1)
  <2>1. /\ u.overflow = overflow /\ u.rev[x] = meta + 1 /\ u.status[x] # "absent"
        /\ \A y \in Wakes : y # x => u.rev[y] = rev[y] /\ u.status[y] = status[y]
    BY <1>1 DEF Upsert, Tables
  <2>2. status' = u.status /\ rev' = u.rev /\ overflow' = u.overflow
    BY <1>2 DEF OfferQueued, Commit
  <2> HIDE DEF u
  <2>3. serving.wake = x => serving.rev <= meta
    BY <1>1, StoreAssumption DEF Inv, Revisions, NotServing
  <2>4. x \in Owed'
    BY <1>1, <2>1, <2>2, <2>3 DEF Owed, Rows
  <2>5. Retained' = Retained /\ \A y \in Owed : y # x => y \in Owed'
    BY <1>1, <2>1, <2>2 DEF Owed, Rows, Retained
  <2>6. Owed' \subseteq Wakes
    BY <1>1, <2>5 DEF Owed, Rows
  <2> QED BY <1>1, <2>4, <2>5, <2>6 DEF Contract!Requests
<1>3. CASE OfferRetained(x)
  <2>1. Retained' = Retained \cup {x} /\ UNCHANGED <<Rows, rev>>
    <3>1. UNCHANGED <<status, rev>>
      BY <1>3 DEF OfferRetained
    <3>2. CASE x \in Retained
      BY <1>3, <3>1, <3>2 DEF OfferRetained, Rows, Retained
    <3>3. CASE x \notin Retained
      <4> DEFINE new == [wake |-> x, at |-> offers]
      <4>1. overflow' = overflow \cup {new} /\ new.wake = x
        BY <1>3, <3>3 DEF OfferRetained
      <4> HIDE DEF new
      <4>2. Retained' = Retained \cup {x}
        BY <4>1 DEF Retained
      <4> QED BY <3>1, <4>2 DEF Rows
    <3> QED BY <3>2, <3>3
  <2> QED BY <1>1, <2>1 DEF Contract!Requests, Owed, Rows
<1> QED BY <1>2, <1>3 DEF Accepts

\* A promotion moves what is owed from one table to the other, also from under
\* its own dispatch: the revision it gives out is newer.
LEMMA CommitMaps ==
    ASSUME Inv, ~reused', NEW r \in Readers, Commits(r)
    PROVE  Contract!Requests
<1>1. /\ ~reused /\ base[r] = meta /\ serving' = serving
      /\ status' = draft.status /\ rev' = draft.rev /\ overflow' = draft.overflow
      /\ meta \in Nat /\ rev \in [Wakes -> Nat] /\ draft \in TableSets /\ serving.rev \in Nat
      /\ draft.rev \in [Wakes -> Nat]
  BY DEF Commits, Commit, serveVars, Inv, Shape, Tables, TableSets
<1>2. Extends(draft) /\ Renews(draft)
  BY <1>1 DEF Inv, Open, Commits
<1>3. Owed \subseteq Wakes /\ Retained \subseteq Wakes
  BY OwedOf
<1>4. \A y \in Wakes : serving.wake = y => serving.rev <= meta
  BY <1>1, StoreAssumption DEF Inv, Revisions, NotServing
<1>5. ASSUME NEW y \in Retained PROVE y \in Owed'
  <2>1. PICK e \in overflow : e.wake = y
    BY DEF Retained
  <2>2. CASE e \in draft.overflow
    BY <1>1, <2>1, <2>2 DEF Owed, Retained
  <2>3. CASE e \notin draft.overflow
    <3>1. draft.status[y] # "absent" /\ draft.rev[y] > meta
      BY <1>2, <2>1, <2>3 DEF Extends, Renews
    <3>2. y \in Rows'
      BY <1>1, <1>3, <3>1 DEF Rows
    <3> QED BY <1>1, <1>3, <1>4, <3>1, <3>2 DEF Owed
  <2> QED BY <2>2, <2>3
<1>6. ASSUME NEW y \in Rows, ~(serving.wake = y /\ rev[y] = serving.rev) PROVE y \in Owed'
  <2>1. y \in Rows' /\ y \in Wakes
    BY <1>1, <1>2 DEF Rows, Extends
  <2>2. draft.rev[y] = rev[y] \/ draft.rev[y] > meta
    BY <1>2, <2>1 DEF Renews
  <2>3. ~(serving.wake = y /\ draft.rev[y] = serving.rev)
    BY <1>1, <1>4, <1>6, <2>1, <2>2
  <2> QED BY <1>1, <2>1, <2>3 DEF Owed
<1>7. Owed \subseteq Owed'
  BY <1>5, <1>6 DEF Owed
<1>8. Owed' \subseteq Wakes
  BY <1>1, <1>3, <1>2 DEF Owed, Rows, Retained, Extends
<1> QED BY <1>1, <1>7, <1>8 DEF Contract!Requests

LEMMA DispatchMaps ==
    ASSUME Inv, (\E x \in Wakes : Claim(x)) \/ Ack \/ Retry \/ \E x \in Builds : Cancels(x)
    PROVE  Contract!Next
<1>1. /\ status \in [Wakes -> {"absent", "pending", "running"}] /\ rev \in [Wakes -> Nat]
      /\ NotServing.wake = None /\ None \notin Wakes /\ Builds \subseteq Wakes
  BY StoreAssumption DEF Inv, Shape, Tables, TableSets, NotServing
<1>2. ASSUME NEW x \in Wakes, Claim(x) PROVE Contract!Start(x)
  <2>1. /\ serving = NotServing /\ x \in Rows /\ serving'.wake = x /\ serving'.rev = rev[x]
        /\ UNCHANGED <<rev, overflow>> /\ status' = [status EXCEPT ![x] = "running"]
    BY <1>1, <1>2 DEF Claim, Rows
  <2>2. Rows' = Rows /\ Retained' = Retained
    BY <1>1, <2>1 DEF Rows, Retained
  <2>3. Owed = Retained \cup Rows /\ serving.wake = None
    BY <2>1, OwedOf
  <2>4. Owed' = Retained \cup (Rows \ {x})
    BY <2>1, <2>2 DEF Owed
  <2>5. Owed' \in {Owed, Owed \ {x}}
    BY <2>1, <2>3, <2>4
  <2> QED BY <2>1, <2>3, <2>5 DEF Contract!Start
<1>3. ASSUME Ack \/ Retry
      PROVE  /\ serving # NotServing /\ serving' = NotServing /\ UNCHANGED <<Retained>>
             /\ serving.wake \in Rows /\ serving.wake # None /\ serving'.wake = None
             /\ Owed' = Retained \cup Rows'
  <2>1. serving # NotServing /\ serving' = NotServing /\ overflow' = overflow
    BY <1>3 DEF Ack, Retry, Settles
  <2>2. Retained' = Retained
    BY <2>1 DEF Retained
  <2>3. Owed' = Retained \cup Rows'
    BY <1>1, <2>1, <2>2 DEF Owed, Rows
  <2> QED BY <1>1, <2>1, <2>2, <2>3, OwedOf
<1>4. CASE Ack
  <2> DEFINE x == serving.wake
  <2>1. CASE rev[x] = serving.rev
    <3>1. Rows' = Rows \ {x}
      BY <1>1, <1>4, <2>1 DEF Ack, Rows
    <3>2. Owed = Retained \cup (Rows \ {x})
      BY <2>1 DEF Owed
    <3> QED BY <1>3, <1>4, <3>1, <3>2 DEF Contract!Next, Contract!Finish
  <2>2. CASE rev[x] # serving.rev
    <3>1. Rows' = Rows
      BY <1>1, <1>3, <1>4, <2>2 DEF Ack, Rows
    <3>2. Owed = Retained \cup Rows
      BY <2>2 DEF Owed
    <3> QED BY <1>3, <1>4, <3>1, <3>2 DEF Contract!Next, Contract!Finish
  <2> QED BY <2>1, <2>2
<1>5. CASE Retry
  <2> DEFINE x == serving.wake
  <2>1. Rows' = Rows
    BY <1>1, <1>3, <1>5 DEF Retry, Rows
  <2>2. Owed \cup {x} = Retained \cup Rows
    BY <1>3, <1>5 DEF Owed
  <2> QED BY <1>3, <1>5, <2>1, <2>2 DEF Contract!Next, Contract!Fail
<1>6. ASSUME NEW x \in Builds, Cancels(x) PROVE Contract!Withdraw(x)
  <2>1. /\ status[x] = "pending" /\ x \in Wakes /\ serving' = serving
        /\ status' = [status EXCEPT ![x] = "absent"] /\ rev' = [rev EXCEPT ![x] = 0]
        /\ overflow' = {e \in overflow : e.wake # x}
    BY <1>1, <1>6 DEF Cancels, Removed, serveVars
  <2>2. x # serving.wake
    BY <1>1, <2>1, OwedOf
  <2>3. Rows' = Rows \ {x} /\ Retained' = Retained \ {x}
    BY <1>1, <2>1 DEF Rows, Retained
  <2>4. \A y \in Rows' : rev'[y] = rev[y]
    BY <1>1, <2>1, <2>3 DEF Rows
  <2>5. Owed' = Owed \ {x}
    BY <2>1, <2>3, <2>4 DEF Owed
  <2> QED BY <2>1, <2>2, <2>5 DEF Contract!Withdraw
<1> QED BY <1>1, <1>2, <1>4, <1>5, <1>6 DEF Contract!Next

\* A full queue keeps the promise of an unbounded one, for any number of readers
\* and any limits, until a promotion has written on a stale counter: what offer()
\* accepted is owed until a dispatch that began after it has finished.
THEOREM PromiseKept == Spec => Contract!Init /\ KeepsPromise
<1> DEFINE Maps == ~reused' => /\ UNCHANGED Contract!vars \/ Contract!Next
                               /\ \A x \in Wakes : Accepts(x) => x \in Owed'
<1>1. Init => Contract!Init
  BY DEF Init, Contract!Init, Owed, Retained, Rows, NoDraft, NotServing
<1>2. ASSUME Inv, [Next]_vars PROVE Maps
  <2> SUFFICES ASSUME ~reused' PROVE UNCHANGED Contract!vars \/ Contract!Next
    BY <1>2, AcceptMaps
  <2>1. CASE UNCHANGED vars
    BY <2>1, SameOwed DEF vars, serveVars
  <2>2. ASSUME NEW x \in Wakes, Accepts(x) PROVE Contract!Next
    BY <1>2, <2>2, AcceptMaps DEF Contract!Next
  <2>3. ASSUME NEW x \in Wakes, OfferDropped(x) PROVE UNCHANGED Contract!vars
    BY <2>3, SameOwed DEF OfferDropped, serveVars
  <2>4. ASSUME NEW r \in Readers, Commits(r) PROVE Contract!Next
    BY <1>2, <2>4, CommitMaps DEF Contract!Next
  <2>5. ASSUME NEW r \in Readers, Reads(r) \/ GivesUp(r), ~Commits(r)
        PROVE  UNCHANGED Contract!vars
    BY <2>5, SameOwed DEF Reads, GivesUp, Lists, LooksForRow, CountsRows, ReadsCounter, Writes,
       Promotes, InLoop, ReadsOnly, serveVars
  <2>6. ASSUME (\E x \in Wakes : Claim(x)) \/ Ack \/ Retry \/ \E x \in Builds : Cancels(x)
        PROVE  Contract!Next
    BY <1>2, <2>6, DispatchMaps
  <2> QED BY <1>2, <2>1, <2>2, <2>3, <2>4, <2>5, <2>6 DEF Next, Accepts
<1>3. Inv /\ [Next]_vars => [Maps]_<<tableVars, serving>>
  BY <1>2
<1> QED BY <1>1, <1>3, Invariance, PTL DEF Spec, KeepsPromise

=============================================================================
