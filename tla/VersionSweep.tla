----------------------------- MODULE VersionSweep -----------------------------
(***************************************************************************)
(* Removal of row versions nobody can read any more: the cleanup horizon   *)
(* (transaction_horizon_projection.hpp,                                    *)
(* transaction_cleanup_horizon_service.cpp), the choice of versions        *)
(* (row_version_cleanup_batch.cpp, transaction_cleanup.cpp) and the sweep  *)
(* of the page (row_data_physical_sweep.cpp), beside the writers and       *)
(* readers of RowVersions and readers with a stable snapshot.              *)
(*                                                                         *)
(*   stable    commit boundary of each transaction with a stable snapshot  *)
(*   evidence  versions a sweep has chosen and not yet removed             *)
(*   view      ghost: the version of each row that was the latest committed*)
(*             one when a transaction with a stable snapshot began         *)
(*                                                                         *)
(* The choice and the removal are two steps: the staged page is published  *)
(* by the caller, and between the two everything else goes on.             *)
(***************************************************************************)
EXTENDS RowVersions, FiniteSetsExt

CONSTANT ReclaimDeleteMarkers  \* reclaim_delete_markers of the request

ASSUME SweepConstants == ReclaimDeleteMarkers \in BOOLEAN

VARIABLES stable, evidence, view

sweepVars == <<rowVars, stable, evidence, view>>

NotStable == MaxTxn + 1

\* The stable boundaries and the chosen versions have their types.
SweepTypeOK ==
    /\ RowsTypeOK
    /\ stable \in [Txns -> 0 .. NotStable]
    /\ evidence \subseteq (Rows \X Txns \X VersionNumbers)
    /\ view \in [Txns -> [Rows -> 0 .. MaxVersions]]

SweepInit ==
    /\ Init
    /\ stable = [t \in Txns |-> NotStable]
    /\ evidence = {}
    /\ view = [t \in Txns |-> [r \in Rows |-> 0]]

-----------------------------------------------------------------------------
\* BeginLocalTransaction with a stable snapshot: its boundary is the last
\* commit before it.
BeginStable ==
    /\ Begin
    /\ stable' = [stable EXCEPT ![nextTxn] = nextCommit - 1]
    /\ view' = [view EXCEPT ![nextTxn] =
                  [r \in Rows |-> ReadVersion(r, LatestCommittedSnapshot(0)).version]]
    /\ UNCHANGED evidence

CommittedUpTo(b) == {t \in Txns : txn[t].state = "committed" /\ txn[t].commit <= b}
CommittedAfter(b) == {t \in Txns : txn[t].state = "committed" /\ txn[t].commit > b}

\* CreateLocalTransactionSnapshot for a reader with a stable snapshot.
StableSnapshot(t) ==
    [reader |-> t, through |-> Max({0} \cup CommittedUpTo(stable[t])),
     excluded |-> Running \cup CommittedAfter(stable[t])]

StatementSnapshot(t) ==
    IF stable[t] = NotStable THEN PinSnapshot(t) ELSE StableSnapshot(t)

PinStatement(t) ==
    /\ PublishPin(t, StatementSnapshot(t))
    /\ UNCHANGED <<stable, evidence, view>>

-----------------------------------------------------------------------------
\* SnapshotRetentionBoundary.  Everything that runs is excluded, the oldest
\* interesting transaction too.
SnapshotRetentionBoundary(s) == Min(s.excluded \cup {s.reader})

PublishedSnapshotRetentionHorizons ==
    {SnapshotRetentionBoundary(pin[t]) : t \in {u \in Txns : pin[u] # NoPin}}

Active == {t \in Txns : txn[t].state = "active"}

OldestInteresting == Min({nextTxn} \cup Running)
OldestActive == Min({nextTxn} \cup Active)

\* Mutant: readers with a stable snapshot hold nothing between statements.
StableHoldsNothing == {}

\* What readers with a stable snapshot hold back between their statements:
\* every writer that committed after the oldest of their boundaries.
StableHolds ==
    LET readers == {t \in Active : stable[t] # NotStable}
    IN  IF readers = {} THEN {}
        ELSE {OldestInteresting} \cup CommittedAfter(Min({stable[t] : t \in readers}))

\* Mutant: published snapshots are not asked.
OldestSnapshotUnpublished == Min({OldestActive} \cup StableHolds)

OldestSnapshot ==
    LET published == PublishedSnapshotRetentionHorizons
    IN  Min((IF published = {} THEN {OldestActive} ELSE {nextTxn} \cup published)
              \cup StableHolds)

\* ComputeAuthoritativeCleanupHorizon.
CleanupHorizon == Min({OldestInteresting, OldestActive, OldestSnapshot})

-----------------------------------------------------------------------------
\* StorageRowVersionHasCleanupShape and StorageRowVersionBelowCleanupHorizon.
Candidates ==
    {v \in page :
      /\ v.creator < CleanupHorizon
      /\ \/ v.deleted \/ txn[v.creator].state = "rolled_back"
         \/ (txn[v.creator].state = "committed" /\ v.next # 0)}

\* The writer of the version the next link names, if it is still there.
SuccessorOf(v) ==
    {w.creator : w \in {x \in page : x.row = v.row /\ x.version = v.next}}

\* Mutant: a successor that was undone counts as one.
SuccessorAllowsUndone(v, hold) ==
    \E t \in SuccessorOf(v) :
      t < Min({CleanupHorizon, hold}) /\ txn[t].state \in {"committed", "rolled_back"}

\* EvaluateSuccessorTransactionForCleanup.
SuccessorAllows(v, hold) ==
    \E t \in SuccessorOf(v) :
      t < Min({CleanupHorizon, hold}) /\ txn[t].state = "committed"

IsCleanupReclaimableByKind(v) ==
    IF v.deleted THEN ReclaimDeleteMarkers
    ELSE txn[v.creator].state = "rolled_back" \/ v.next # 0

\* EvaluateLocalCleanupWithRetentionHolds, then the successor, then the kind.
Reclaimable(v, hold) ==
    /\ txn[v.creator].state \in {"committed", "rolled_back"}
    /\ v.creator < Min({CleanupHorizon, hold})
    /\ txn[v.creator].state = "committed" /\ ~v.deleted /\ v.next # 0 =>
         SuccessorAllows(v, hold)
    /\ IsCleanupReclaimableByKind(v)

Identity(v) == <<v.row, v.creator, v.version>>

\* RunLocalGarbageCollectionSweep on a workset of the caller, which a budget
\* may have cut short anywhere, under any further hold.
ChooseVersions ==
    /\ evidence = {}
    /\ \E workset \in SUBSET Candidates, hold \in 1 .. nextTxn :
         evidence' = {Identity(v) : v \in {w \in workset : Reclaimable(w, hold)}}
    /\ evidence' # {}
    /\ UNCHANGED <<rowVars, stable, view>>

\* ApplyRowDataPhysicalSweep: all of the evidence or none.  The links of what
\* stays are left as they are.
SweptPage == {v \in page : Identity(v) \notin evidence}

SweepPage ==
    /\ evidence # {}
    /\ evidence \subseteq {Identity(v) : v \in page}
    /\ page' = SweptPage
    /\ evidence' = {}
    /\ leftovers' = leftovers \ evidence
    /\ UNCHANGED <<txn, nextTxn, nextCommit, pin, saw, crashes, stable, view>>

\* The boundary and the view of a reader end with it.
EndsReaders ==
    /\ stable' = [t \in Txns |-> IF txn'[t].state = "active" THEN stable[t] ELSE NotStable]
    /\ view' = [t \in Txns |-> IF txn'[t].state = "active" THEN view[t]
                                ELSE [r \in Rows |-> 0]]

SweepNext ==
    \/ BeginStable
    \/ ChooseVersions
    \/ SweepPage
    \/ \E t \in Txns : PinStatement(t)
    \/ RowStep /\ EndsReaders /\ UNCHANGED evidence
    \/ Crash /\ EndsReaders /\ evidence' = {}

SweepSpec == SweepInit /\ [][SweepNext]_sweepVars

-----------------------------------------------------------------------------
\* The snapshots through which somebody reads or may read next: the latest
\* commit, what is pinned, and a new statement of any running transaction.
Readable ==
    {LatestCommittedSnapshot(0)}
      \cup {pin[t] : t \in {u \in Txns : pin[u] # NoPin}}
      \cup {StatementSnapshot(t) : t \in Active}

\* Removing versions changes nobody's result: not that of a pinned snapshot
\* older than the sweep or published between choice and removal, not that of
\* the next statement of a stable reader, and a deleted row stays deleted.
SweepChangesNoRead ==
    [][page' = SweptPage /\ page' # page =>
         \A r \in Rows, s \in Readable : ReadVersion(r, s)' = ReadVersion(r, s)]_sweepVars

\* A stable reader sees at every statement what was committed when it began,
\* in every row it has not written itself, whatever commits, is undone, is
\* chosen and is swept in between.
StableReadersKeepTheirView ==
    \A t \in Active, r \in Rows :
      stable[t] # NotStable /\ (\A v \in VersionsOf(r) : v.creator # t) =>
        ReadVersion(r, StatementSnapshot(t)).version = view[t][r]
=============================================================================
