------------------------- MODULE TransactionSnapshot -------------------------
(***************************************************************************)
(* A reader's snapshot of the inventory (CreateLocalTransactionSnapshot in *)
(* transaction_snapshot.cpp) and the decision whether the rows a creator   *)
(* wrote are visible through it (row_version_observation.hpp).             *)
(***************************************************************************)
EXTENDS TransactionInventory, FiniteSets, FiniteSetsExt

IsActiveSnapshotExclusion(s) == s \in {"active", "read_only_active"}

IsInDoubtSnapshotExclusion(s) ==
    s \in { "created", "preparing", "prepared", "committing", "rolling_back",
            "limbo", "recovering" }

CanCreateLocalTransactionSnapshot(inv, reader) ==
    /\ ValidateLocalTransactionInventoryStructure(inv)
    /\ Found(inv, reader)
    /\ inv.entries[reader].state
         \in {"active", "read_only_active", "preparing", "prepared"}

\* Mutant: every statement moves to the newest commit.
CommitBoundaryNewest(inv, reader) == inv.nextCommit - 1

\* A stable reader keeps the boundary of its BEGIN; any other reader moves
\* to the newest assigned sequence number at every statement.
CommitBoundary(inv, reader) ==
    IF inv.entries[reader].stableSnapshot
    THEN inv.entries[reader].beginCommitSequence
    ELSE inv.nextCommit - 1

CreateLocalTransactionSnapshot(inv, reader) ==
    LET boundary == CommitBoundary(inv, reader)
        below == {t \in TransactionIds :
                    /\ Found(inv, t) /\ HasCommittedInventoryOutcome(inv.entries[t])
                    /\ inv.entries[t].commitSequence <= boundary}
    IN  [ visibleThrough |-> IF below = {} THEN 0 ELSE Max(below),
          visibleThroughCommit |-> boundary,
          activeExcluded |->
            {t \in TransactionIds :
                /\ Found(inv, t)
                /\ \/ IsActiveSnapshotExclusion(inv.entries[t].state)
                   \/ /\ HasCommittedInventoryOutcome(inv.entries[t])
                      /\ inv.entries[t].commitSequence > boundary},
          inDoubtExcluded |->
            {t \in TransactionIds :
                Found(inv, t) /\ IsInDoubtSnapshotExclusion(inv.entries[t].state)} ]

\* The committed creators a reader sees through snap when it consults the
\* inventory inv, which may be newer than the snapshot.
VisibleCreators(inv, snap) ==
    {c \in TransactionIds :
        /\ Found(inv, c) /\ HasCommittedInventoryOutcome(inv.entries[c])
        /\ c <= snap.visibleThrough
        /\ inv.entries[c].commitSequence <= snap.visibleThroughCommit
        /\ c \notin snap.activeExcluded
        /\ c \notin snap.inDoubtExcluded}
=============================================================================
