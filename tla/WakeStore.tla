----------------------------- MODULE WakeStore ------------------------------
(***************************************************************************)
(* The durable wake queue of core/runtime_work.py at its capacity: the     *)
(* wakes table, the revision counter wake_meta, the overflow table, and    *)
(* the processes that read the queue.  offer() is one BEGIN IMMEDIATE      *)
(* transaction.  pending() is not: the statements of _promote_overflow     *)
(* that come before its first INSERT run on their own, outside any         *)
(* transaction, and other processes write between them; the INSERT begins  *)
(* one, which the others see when it commits.                              *)
(*                                                                         *)
(* One dispatcher at a time (the lease, WakeRuntime).  Due times, attempts *)
(* and reasons are left out.  A definition marked "Variant" is not part of *)
(* the model: it is a slip one of the properties exists to catch.          *)
(***************************************************************************)
EXTENDS Naturals, FiniteSets

CONSTANTS
    Wakes,          \* (kind, target) pairs
    Index,          \* those of kind index, which may use the last slot
    Builds,         \* the laya-sync wakes of an unused build: may be cancelled
    Readers,        \* processes that call pending()
    Monitor,        \* the reader that never stops: the resident service's runtime_monitor
    Limit,          \* MAX_WAKES
    OverflowLimit,  \* MAX_OVERFLOW
    None,
    MaxOffers       \* bound: offers made

ASSUME StoreAssumption ==
    /\ Index \subseteq Wakes /\ Builds \subseteq Wakes /\ None \notin Wakes
    /\ Monitor \in Readers
    /\ Limit \in Nat \ {0} /\ OverflowLimit \in Nat /\ MaxOffers \in Nat
    /\ IsFiniteSet(Wakes) /\ IsFiniteSet(Readers)

VARIABLES
    status, rev,       \* wakes: absent, pending or running, and its revision
    meta,              \* wake_meta: the last revision handed out
    overflow,          \* wake_overflow: a wake and the offer that was retained
    at, todo, base,    \* a reader: its statement, the entries left, the counter it read
    draft,             \* the tables as the open transaction of a reader has them
    serving,           \* the row and revision the dispatcher claimed
    newer,             \* an offer of that row was queued since
    reused,            \* history: a promotion wrote on a counter that had moved on
    offers

tableVars  == <<status, rev, meta, overflow>>
readerVars == <<at, todo, base, draft>>
serveVars  == <<serving, newer>>
vars == <<tableVars, readerVars, serveVars, reused, offers>>

NotServing == [wake |-> None, rev |-> 0]
Rows == {x \in Wakes : status[x] # "absent"}

\* The tables as one value, which a transaction maps to the next.
Tables == [status |-> status, rev |-> rev, meta |-> meta, overflow |-> overflow]
NoDraft == [status |-> [x \in Wakes |-> "absent"], rev |-> [x \in Wakes |-> 0],
            meta |-> 0, overflow |-> {}]
Entries == [wake : Wakes, at : Nat]
TableSets == [status : [Wakes -> {"absent", "pending", "running"}], rev : [Wakes -> Nat],
              meta : Nat, overflow : SUBSET Entries]

TypeOK ==
    /\ Tables \in TableSets /\ draft \in TableSets
    /\ Cardinality(overflow) <= OverflowLimit
    /\ \A d, e \in overflow : d.wake = e.wake => d = e
    /\ at \in [Readers -> {"idle", "exists", "count", "base", "write", "loop"}]
    /\ todo \in [Readers -> SUBSET Entries]
    /\ \A r \in Readers : at[r] \in {"exists", "count", "base", "write"} => todo[r] # {}
    /\ base \in [Readers -> Nat]
    /\ serving \in [wake : Wakes \cup {None}, rev : Nat] /\ newer \in BOOLEAN /\ reused \in BOOLEAN
    /\ offers \in 0..MaxOffers

Init ==
    /\ status = NoDraft.status /\ rev = NoDraft.rev /\ meta = 0 /\ overflow = {}
    /\ draft = NoDraft
    /\ at = [r \in Readers |-> "idle"] /\ todo = [r \in Readers |-> {}]
    /\ base = [r \in Readers |-> 0]
    /\ serving = NotServing /\ newer = FALSE /\ reused = FALSE /\ offers = 0

-----------------------------------------------------------------------------
(* What transactions do to the tables *)

\* One writer at a time: BEGIN IMMEDIATE and a first write wait for the open one.
Unlocked == \A r \in Readers : at[r] # "loop"

Commit(t) == /\ status' = t.status /\ rev' = t.rev
             /\ meta' = t.meta /\ overflow' = t.overflow

\* capacity_limit: one slot is kept for index.
LimitOf(x) == IF x \in Index THEN Limit ELSE Limit - 1

Stored(t) == {x \in Wakes : t.status[x] # "absent"}
HasRoom(t, x) == x \in Stored(t) \/ Cardinality(Stored(t)) < LimitOf(x)

\* Variant: an offer of an existing row changes nothing.
UpsertNothing(t, x, value) ==
    [t EXCEPT !.meta = value, !.rev[x] = IF x \in Stored(t) THEN @ ELSE value,
              !.status[x] = IF @ = "absent" THEN "pending" ELSE @]

\* _upsert with the revision value: a new row is pending, an existing one keeps its status.
Upsert(t, x, value) ==
    [status   |-> [t.status EXCEPT ![x] = IF @ = "absent" THEN "pending" ELSE @],
     rev      |-> [t.rev EXCEPT ![x] = value],
     meta     |-> value,
     overflow |-> t.overflow]

Drop(t, x) == [t EXCEPT !.overflow = {e \in @ : e.wake # x}]

\* One round of the loop in _promote_overflow, inside the transaction.
Promote(t, x) == IF HasRoom(t, x) THEN Drop(Upsert(t, x, t.meta + 1), x) ELSE t

-----------------------------------------------------------------------------
(* offer *)

Offered == Unlocked /\ offers < MaxOffers /\ offers' = offers + 1
Retained == {e.wake : e \in overflow}

OfferQueued(x) ==
    /\ Offered /\ HasRoom(Tables, x)
    /\ Commit(Upsert(Tables, x, meta + 1))
    /\ newer' = (newer \/ serving.wake = x)
    /\ UNCHANGED <<readerVars, serving, reused>>

\* Variant: an entry is not coalesced with an older one of the same wake.
RetainedTwice(x) ==
    /\ Offered /\ ~HasRoom(Tables, x)
    /\ Cardinality(overflow) < OverflowLimit
    /\ overflow' = overflow \cup {[wake |-> x, at |-> offers]}
    /\ UNCHANGED <<status, rev, meta, readerVars, serveVars, reused>>

\* 'retained': coalesced with an older entry of the same wake.
OfferRetained(x) ==
    /\ Offered /\ ~HasRoom(Tables, x)
    /\ x \in Retained \/ Cardinality(overflow) < OverflowLimit
    /\ overflow' = IF x \in Retained THEN overflow
                   ELSE overflow \cup {[wake |-> x, at |-> offers]}
    /\ UNCHANGED <<status, rev, meta, readerVars, serveVars, reused>>

\* 'dropped': the caller is told, nothing is kept.
OfferDropped(x) ==
    /\ Offered /\ ~HasRoom(Tables, x)
    /\ x \notin Retained /\ Cardinality(overflow) >= OverflowLimit
    /\ UNCHANGED <<tableVars, readerVars, serveVars, reused>>

-----------------------------------------------------------------------------
(* pending, with _promote_overflow: one statement per step *)

\* The entry whose turn it is (ORDER BY at).
Turn(r) == {e \in todo[r] : \A d \in todo[r] : e.at <= d.at}
Done(r, e) == todo' = [todo EXCEPT ![r] = @ \ {e}]
GoesOn(r, stmt) == at' = [at EXCEPT ![r] = stmt]
Leaves(r) == GoesOn(r, "idle") /\ todo' = [todo EXCEPT ![r] = {}] /\ base' = [base EXCEPT ![r] = 0]
ReadsOnly == UNCHANGED <<tableVars, draft, serveVars, offers, reused>>

Lists(r) ==
    /\ at[r] = "idle" /\ overflow # {} /\ GoesOn(r, "exists")
    /\ todo' = [todo EXCEPT ![r] = overflow]
    /\ UNCHANGED base /\ ReadsOnly

LooksForRow(r) ==
    /\ at[r] = "exists"
    /\ \E e \in Turn(r) : GoesOn(r, IF e.wake \in Rows THEN "base" ELSE "count")
    /\ UNCHANGED <<todo, base>> /\ ReadsOnly

FindsRoom(r, e) == GoesOn(r, "base") /\ UNCHANGED todo
\* On to the next entry, if there is one.
Passes(r, e)    == Done(r, e) /\ GoesOn(r, IF todo[r] = {e} THEN "idle" ELSE "exists")

\* Variant: one slot too many is kept free.
CountsTooFew(r) ==
    /\ at[r] = "count"
    /\ \E e \in Turn(r) : IF Cardinality(Rows) + 1 < LimitOf(e.wake)
                             THEN FindsRoom(r, e) ELSE Passes(r, e)
    /\ UNCHANGED base /\ ReadsOnly

CountsRows(r) ==
    /\ at[r] = "count"
    /\ \E e \in Turn(r) : IF Cardinality(Rows) < LimitOf(e.wake)
                             THEN FindsRoom(r, e) ELSE Passes(r, e)
    /\ UNCHANGED base /\ ReadsOnly

\* _next_revision reads the counter ...
ReadsCounter(r) ==
    /\ at[r] = "base" /\ GoesOn(r, "write")
    /\ base' = [base EXCEPT ![r] = meta]
    /\ UNCHANGED todo /\ ReadsOnly

InLoop(r) == at[r] = "loop" /\ UNCHANGED <<tableVars, at, base, serveVars, offers, reused>>

\* ... and its INSERT begins the transaction that holds the rest of the loop.
Writes(r) ==
    /\ at[r] = "write" /\ Unlocked /\ GoesOn(r, "loop")
    /\ \E e \in Turn(r) : Done(r, e) /\ draft' = Drop(Upsert(Tables, e.wake, base[r] + 1), e.wake)
    /\ UNCHANGED <<tableVars, base, serveVars, offers, reused>>

\* Variant: the rest of the listed entries is promoted without looking for room.
PromotesAll(r) ==
    /\ InLoop(r)
    /\ \E e \in Turn(r) : Done(r, e) /\ draft' = Drop(Upsert(draft, e.wake, draft.meta + 1), e.wake)

\* One more round of the loop.
Promotes(r) ==
    /\ InLoop(r)
    /\ \E e \in Turn(r) : Done(r, e) /\ draft' = Promote(draft, e.wake)

\* Variant: the whole table is cleared, promoted or not.
CommitsCleared(r) ==
    /\ at[r] = "loop" /\ todo[r] = {} /\ Leaves(r)
    /\ Commit([draft EXCEPT !.overflow = {}]) /\ draft' = NoDraft
    /\ reused' = (reused \/ base[r] # meta)
    /\ UNCHANGED <<serveVars, offers>>

Commits(r) ==
    /\ at[r] = "loop" /\ todo[r] = {} /\ Leaves(r)
    /\ Commit(draft) /\ draft' = NoDraft
    /\ reused' = (reused \/ base[r] # meta)
    /\ UNCHANGED <<serveVars, offers>>

\* The database is busy longer than the timeout, or the process dies: rolled back.
GivesUp(r) ==
    /\ at[r] # "idle" /\ Leaves(r)
    /\ draft' = IF at[r] = "loop" THEN NoDraft ELSE draft
    /\ UNCHANGED <<tableVars, serveVars, offers, reused>>

-----------------------------------------------------------------------------
(* The dispatcher *)

\* The claiming UPDATE of drain.
Claim(x) ==
    /\ Unlocked /\ serving = NotServing /\ status[x] = "pending"
    /\ status' = [status EXCEPT ![x] = "running"]
    /\ serving' = [wake |-> x, rev |-> rev[x]] /\ newer' = FALSE
    /\ UNCHANGED <<rev, meta, overflow, readerVars, offers, reused>>

Settles == Unlocked /\ serving # NotServing /\ serving' = NotServing /\ newer' = FALSE

\* DELETE ... WHERE revision=: only the claimed one, a newer one is pending again.
Ack ==
    LET x == serving.wake
        served == rev[x] = serving.rev
    IN /\ Settles
       /\ status' = [status EXCEPT ![x] = IF served THEN "absent" ELSE "pending"]
       /\ rev' = [rev EXCEPT ![x] = IF served THEN 0 ELSE @]
       /\ UNCHANGED <<meta, overflow, readerVars, offers, reused>>

\* A retry; also the reset of an interrupted row by the next drain.
Retry ==
    /\ Settles
    /\ status' = [status EXCEPT ![serving.wake] = "pending"]
    /\ UNCHANGED <<rev, meta, overflow, readerVars, offers, reused>>

Removed(x) ==
    /\ status' = [status EXCEPT ![x] = "absent"] /\ rev' = [rev EXCEPT ![x] = 0]
    /\ overflow' = {e \in overflow : e.wake # x}
    /\ UNCHANGED <<meta, readerVars, serveVars, offers, reused>>

\* Variant: a cancellation that does not ask for status='pending'.
CancelsRunning(x) ==
    /\ Unlocked /\ status[x] # "absent"
    /\ Removed(x)

\* cancel_locked: a pending row and its overflow entry, in one transaction.
Cancels(x) ==
    /\ Unlocked /\ status[x] = "pending"
    /\ Removed(x)

-----------------------------------------------------------------------------
Reads(r) ==
    \/ Lists(r) \/ LooksForRow(r) \/ CountsRows(r) \/ ReadsCounter(r)
    \/ Writes(r) \/ Promotes(r) \/ Commits(r)

Next ==
    \/ \E x \in Wakes : OfferQueued(x) \/ OfferRetained(x) \/ OfferDropped(x) \/ Claim(x)
    \/ \E x \in Builds : Cancels(x)
    \/ \E r \in Readers : Reads(r) \/ GivesUp(r)
    \/ Ack \/ Retry

Spec == Init /\ [][Next]_vars

\* The monitor keeps reading the queue, an open transaction ends, deaths and busy
\* databases come to an end, and dispatches keep finishing.
FairSpec ==
    /\ Spec
    /\ WF_vars(Reads(Monitor)) /\ WF_vars(\E r \in Readers : Promotes(r) \/ Commits(r))
    /\ <>[][\A r \in Readers : GivesUp(r) => Reads(r)]_vars
    /\ WF_vars(\E x \in Wakes : Claim(x)) /\ SF_vars(Ack)

-----------------------------------------------------------------------------
(* Properties *)

\* Promotions on stale counts can pass MAX_WAKES (runtime_work.py:190 reads outside
\* the transaction), but each by one row: the rest of its list is counted again.
OverrunByOne == [][Cardinality(Rows') > Limit => Cardinality(Rows') <= Cardinality(Rows) + 1]_vars

\* The row of a running dispatch stays in the table, running, whatever is
\* offered, promoted from a stale list, or cancelled meanwhile.
ServedRowStays == serving # NotServing => status[serving.wake] = "running"

\* A retained wake leaves the overflow table for the queue (or with its cancelled row).
RetainedKept == [][\A x \in Retained \ Retained' :
                      x \in Rows' \/ (x \in Builds /\ status[x] = "pending")]_vars

\* Once callers pause, dispatches free the slots for every retained wake: as none is
\* forgotten (KeepsPromise), each is promoted in the end.
OverflowDrains == overflow # {} ~> overflow = {}

\* An accepted request stands in a table, unless the row is the very revision
\* that is being dispatched.
Owed == Retained \cup {x \in Rows : ~(serving.wake = x /\ rev[x] = serving.rev)}

Contract == INSTANCE StoreContract WITH owed <- Owed, serving <- serving.wake

Accepts(x) == OfferQueued(x) \/ OfferRetained(x)

\* A full queue keeps the promise of an unbounded one, until a promotion has
\* written on a stale counter: each accepted request, queued or retained, is owed
\* until a dispatch that began after it has finished.
KeepsPromise ==
    [][~reused' => /\ UNCHANGED Contract!vars \/ Contract!Next
                   /\ \A x \in Wakes : Accepts(x) => x \in Owed']_<<tableVars, serving>>

\* docs/runtime-resource-coordination.md: "Version-matched wake ACKs preserve an
\* enqueue that arrived during dispatch."
AckKeepsNewerOffer == [][newer /\ serving' = NotServing => serving.wake \in Rows']_vars
=============================================================================
