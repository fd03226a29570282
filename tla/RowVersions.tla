----------------------------- MODULE RowVersions -----------------------------
(***************************************************************************)
(* Row versions on a page, written copy-on-write one row at a time and     *)
(* read through a snapshot; VersionSweep adds the statements and the sweep *)
(* (src/project/src/storage/database/physical_mga_cow_store.cpp).          *)
(*                                                                         *)
(*   txn        state and commit number of each transaction                *)
(*   nextTxn    next local transaction number                              *)
(*   nextCommit next commit number                                         *)
(*   page       the row versions on the page, all of them                  *)
(*   pin        the published snapshot each transaction reads through      *)
(*   saw        ghost: what a snapshot showed when it was made             *)
(*   leftovers  ghost: versions left on the page by failed owned mutations *)
(*              that reported no unresolved transaction                    *)
(*                                                                         *)
(* A mutation, a read and a finalization each hold the operation guard of  *)
(* the device from the load of the inventory to the end, so each is one    *)
(* step; a failing one may have changed the page.  "active" stands for the *)
(* states in which a transaction may still write or is about to end.  The  *)
(* page is written as one image: a crash leaves the old or the new one.    *)
(* That the inventory itself survives is the subject of                    *)
(* InventoryPublication and CowBatch.                                      *)
(***************************************************************************)
EXTENDS Naturals, FiniteSets

CONSTANTS
    Rows,         \* rows of the page
    MaxTxn,       \* bound: transactions
    MaxVersions,  \* bound: versions on the page
    MaxCrashes    \* bound: crashes

ASSUME RowConstants ==
    MaxTxn \in Nat /\ MaxVersions \in Nat /\ MaxCrashes \in Nat

VARIABLES txn, nextTxn, nextCommit, page, pin, saw, leftovers, crashes

rowVars == <<txn, nextTxn, nextCommit, page, pin, saw, leftovers, crashes>>

Txns == 1 .. MaxTxn
VersionNumbers == 1 .. MaxVersions
States == {"none", "active", "prepared", "committed", "rolled_back"}
Version ==
    [row : Rows, creator : Txns, version : VersionNumbers,
     next : 0 .. MaxVersions, deleted : BOOLEAN]
NoVersion == [version |-> 0]
Snapshot ==
    [reader : 0 .. MaxTxn, through : 0 .. MaxTxn, excluded : SUBSET Txns]
NoPin == [reader |-> 0]
OwnWrite == MaxVersions + 1

\* Inventory, page and pins have their types.
RowsTypeOK ==
    /\ txn \in [Txns -> [state : States, commit : 0 .. MaxTxn]]
    /\ nextTxn \in 1 .. MaxTxn + 1
    /\ nextCommit \in 1 .. MaxTxn + 1
    /\ page \subseteq Version
    /\ \A t \in Txns : pin[t] = NoPin \/ pin[t] \in Snapshot
    /\ saw \in [Txns -> [Rows -> 0 .. MaxVersions \cup {OwnWrite}]]
    /\ leftovers \subseteq (Rows \X Txns \X VersionNumbers)
    /\ crashes \in 0 .. MaxCrashes

Init ==
    /\ txn = [t \in Txns |-> [state |-> "none", commit |-> 0]]
    /\ nextTxn = 1
    /\ nextCommit = 1
    /\ page = {}
    /\ pin = [t \in Txns |-> NoPin]
    /\ saw = [t \in Txns |-> [r \in Rows |-> 0]]
    /\ leftovers = {}
    /\ crashes = 0

-----------------------------------------------------------------------------
VersionsOf(r) == {v \in page : v.row = r}

Newest(V) ==
    IF V = {} THEN NoVersion
    ELSE CHOOSE v \in V : \A w \in V : w.version <= v.version

\* EvaluateVersionEffectVisibility: what a version, or the deletion it
\* records, is to a reader.
Evaluate(v, s) ==
    CASE txn[v.creator].state = "rolled_back" -> "invisible"
      [] txn[v.creator].state = "committed" ->
           IF v.creator <= s.through /\ v.creator \notin s.excluded
           THEN "visible" ELSE "invisible"
      [] OTHER -> IF v.creator = s.reader THEN "visible" ELSE "wait"

LatestCommittedLocalTransactionId ==
    CHOOSE h \in 0 .. MaxTxn :
      /\ h = 0 \/ txn[h].state = "committed"
      /\ \A t \in Txns : txn[t].state = "committed" => t <= h

\* LatestCommittedSnapshot; a writer adds itself as the reader.
LatestCommittedSnapshot(reader) ==
    [reader |-> reader, through |-> LatestCommittedLocalTransactionId,
     excluded |-> {}]

\* ReadPhysicalMgaCowRows, for one row: newest first, past versions that are
\* undone, not visible or still pending, to the first visible one.
ReadVersion(r, s) ==
    LET v == Newest({w \in VersionsOf(r) : Evaluate(w, s) = "visible"})
    IN  IF v = NoVersion \/ v.deleted THEN NoVersion ELSE v

-----------------------------------------------------------------------------
\* The states of another transaction that SelectBaseRow waits for.
Pending(v, t) ==
    v.creator # t /\ txn[v.creator].state \in {"active", "prepared"}

\* The version at which SelectBaseRow stops, newest first.
BaseCandidate(r, t) ==
    Newest({v \in VersionsOf(r) :
              \/ Pending(v, t)
              \/ Evaluate(v, LatestCommittedSnapshot(t)) # "invisible"})

\* Mutant: the writer does not wait for a transaction that is prepared.
BlockedByActive(r, t) ==
    LET v == BaseCandidate(r, t)
    IN  v # NoVersion /\ v.creator # t /\ txn[v.creator].state = "active"

Blocked(r, t) ==
    LET v == BaseCandidate(r, t) IN v # NoVersion /\ Pending(v, t)

BaseRow(r, t) ==
    LET v == BaseCandidate(r, t)
    IN  IF v = NoVersion \/ v.deleted THEN NoVersion ELSE v

MaxRowVersion(r) == Newest(VersionsOf(r)).version

NewSequence(r, t) == MaxRowVersion(r) + 1

\* The version the new one is linked to: its base or, without one, the
\* newest version of the row, undone or deleted.
PreviousVersion(r, t) ==
    IF BaseRow(r, t) = NoVersion THEN MaxRowVersion(r) ELSE BaseRow(r, t).version

Admits(r, t, kind) ==
    /\ ~Blocked(r, t)
    /\ kind = "insert" <=> BaseRow(r, t) = NoVersion
    /\ NewSequence(r, t) \in VersionNumbers

\* The page with the new version on it and its predecessor linked to it.
Mutated(r, t, kind) ==
    LET n == NewSequence(r, t)
        p == PreviousVersion(r, t)
    IN  {IF v.row = r /\ v.version = p THEN [v EXCEPT !.next = n] ELSE v : v \in page}
          \cup {[row |-> r, creator |-> t, version |-> n, next |-> 0,
                 deleted |-> kind = "delete"]}

-----------------------------------------------------------------------------
WithState(t, state) == [txn EXCEPT ![t].state = state]

Begin ==
    /\ nextTxn \in Txns
    /\ txn' = WithState(nextTxn, "active")
    /\ nextTxn' = nextTxn + 1
    /\ UNCHANGED <<nextCommit, page, pin, saw, leftovers, crashes>>

\* A mutation in a transaction of the caller.  One that fails in the write of
\* the page or its sync does nothing or the same: no marker stops its
\* transaction, as one does in a batch.
Mutate(t, r, kind) ==
    /\ txn[t].state = "active"
    /\ Admits(r, t, kind)
    /\ page' = Mutated(r, t, kind)
    /\ saw' = [saw EXCEPT ![t][r] = OwnWrite]
    /\ UNCHANGED <<txn, nextTxn, nextCommit, pin, leftovers, crashes>>

\* A mutation in a transaction of its own, which it begins.
MutateOwned(r, kind) ==
    /\ nextTxn \in Txns
    /\ Admits(r, nextTxn, kind)
    /\ txn' = WithState(nextTxn, "active")
    /\ nextTxn' = nextTxn + 1
    /\ page' = Mutated(r, nextTxn, kind)
    /\ UNCHANGED <<nextCommit, pin, saw, leftovers, crashes>>

\* Mutant: a failed rollback goes unreported.
CompensationsSilent ==
    {[state |-> "rolled_back", unresolved |-> FALSE], [state |-> "active", unresolved |-> FALSE]}

\* A failed owned mutation rolls its transaction back; if that fails too it
\* reports the transaction (unresolved_owned_transaction) and no more: the
\* transaction stays active, and what the caller does with it, a further
\* mutation, a rollback or a commit, is accepted as for any other.
Compensations ==
    {[state |-> "rolled_back", unresolved |-> FALSE], [state |-> "active", unresolved |-> TRUE]}

\* An owned mutation that is blocked or refused, or whose page is written and
\* then not synced.  (One whose begin fails leaves nothing.)
MutateOwnedFails(r, kind) ==
    /\ nextTxn \in Txns
    /\ nextTxn' = nextTxn + 1
    /\ \E c \in Compensations :
         /\ txn' = WithState(nextTxn, c.state)
         /\ \/ UNCHANGED <<page, leftovers>>
            \/ /\ Admits(r, nextTxn, kind)
               /\ page' = Mutated(r, nextTxn, kind)
               /\ leftovers' = IF c.unresolved THEN leftovers
                               ELSE leftovers \cup {<<r, nextTxn, NewSequence(r, nextTxn)>>}
    /\ UNCHANGED <<nextCommit, pin, saw, crashes>>

Prepare(t) ==
    /\ txn[t].state = "active"
    /\ txn' = WithState(t, "prepared")
    /\ UNCHANGED <<nextTxn, nextCommit, page, pin, saw, leftovers, crashes>>

\* The end of a transaction revokes its snapshot.
EndsPin(t) ==
    /\ pin' = [pin EXCEPT ![t] = NoPin]
    /\ saw' = [saw EXCEPT ![t] = [r \in Rows |-> 0]]

\* FinalizePhysicalMgaCowTransaction: finality is in the inventory alone, no
\* page is touched.
Commit(t) ==
    /\ txn[t].state \in {"active", "prepared"}
    /\ txn' = [txn EXCEPT ![t] = [state |-> "committed", commit |-> nextCommit]]
    /\ nextCommit' = nextCommit + 1
    /\ EndsPin(t)
    /\ UNCHANGED <<nextTxn, page, leftovers, crashes>>

Rollback(t) ==
    /\ txn[t].state \in {"active", "prepared"}
    /\ txn' = WithState(t, "rolled_back")
    /\ EndsPin(t)
    /\ UNCHANGED <<nextTxn, nextCommit, page, leftovers, crashes>>

Running == {t \in Txns : txn[t].state \in {"active", "prepared"}}

\* The snapshot of a statement: the newest committed transaction as the
\* boundary, and everything that runs excluded.
PinSnapshot(t) ==
    [reader |-> t, through |-> LatestCommittedLocalTransactionId, excluded |-> Running]

\* A statement publishes and pins its snapshot ...
PublishPin(t, s) ==
    /\ txn[t].state = "active"
    /\ pin' = [pin EXCEPT ![t] = s]
    /\ saw' = [saw EXCEPT ![t] = [r \in Rows |-> ReadVersion(r, s).version]]
    /\ UNCHANGED <<txn, nextTxn, nextCommit, page, leftovers, crashes>>

\* ... and releases it.
Unpin(t) ==
    /\ pin[t] # NoPin
    /\ EndsPin(t)
    /\ UNCHANGED <<txn, nextTxn, nextCommit, page, leftovers, crashes>>

\* A crash, and the startup recovery that rolls back what was active.
Crash ==
    /\ crashes < MaxCrashes
    /\ crashes' = crashes + 1
    /\ txn' = [t \in Txns |-> IF txn[t].state = "active"
                              THEN [txn[t] EXCEPT !.state = "rolled_back"]
                              ELSE txn[t]]
    /\ pin' = [t \in Txns |-> NoPin]
    /\ saw' = [t \in Txns |-> [r \in Rows |-> 0]]
    /\ UNCHANGED <<nextTxn, nextCommit, page, leftovers>>

\* What writers do, and the end of a statement.
RowStep ==
    \/ Begin
    \/ \E r \in Rows, kind \in {"insert", "update", "delete"} :
         \/ \E t \in Txns : Mutate(t, r, kind)
         \/ MutateOwned(r, kind)
         \/ MutateOwnedFails(r, kind)
    \/ \E t \in Txns : Prepare(t) \/ Commit(t) \/ Rollback(t) \/ Unpin(t)

-----------------------------------------------------------------------------
Committed(v) == txn[v.creator].state = "committed"

\* A latest-committed read returns what the last transaction to commit a
\* write of the row left there, past any number of pending and undone
\* versions, and nothing if it left a delete marker.
LatestReadIsLastCommit ==
    \A r \in Rows :
      LET counted == {v \in VersionsOf(r) : Committed(v)}
          last == {v \in counted : \A w \in counted :
                     txn[w.creator].commit <= txn[v.creator].commit}
          left == Newest(last)
      IN  ReadVersion(r, LatestCommittedSnapshot(0)) =
            IF left = NoVersion \/ left.deleted THEN NoVersion ELSE left

\* A snapshot shows the same version of a row for as long as it is pinned,
\* unless its own transaction writes the row.
PinnedReadsAreStable ==
    \A t \in Txns, r \in Rows :
      pin[t] # NoPin /\ saw[t][r] # OwnWrite =>
        ReadVersion(r, pin[t]).version = saw[t][r]

\* What a failed owned mutation left on the page is never read, by a pinned
\* snapshot or as the latest commit, unless the mutation has reported its
\* transaction as unresolved: whatever failed in it, and whoever commits or
\* recovers what afterwards, a caller that was told of no unresolved
\* transaction never meets the version.
LeftoversStayUnread ==
    \A r \in Rows :
      \A s \in {LatestCommittedSnapshot(0)} \cup {pin[t] : t \in {u \in Txns : pin[u] # NoPin}} :
        LET v == ReadVersion(r, s)
        IN  v # NoVersion => <<r, v.creator, v.version>> \notin leftovers
=============================================================================
