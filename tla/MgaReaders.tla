----------------------------- MODULE MgaReaders -----------------------------
(***************************************************************************)
(* MgaTransactions composed with its readers.  A statement of an active    *)
(* transaction takes a snapshot of the inventory and evaluates row         *)
(* visibility against whatever inventory is published while it runs.       *)
(* The end of a transaction revokes its snapshots, a crash drops them all. *)
(*                                                                         *)
(*   snapshots  the statement snapshot of each reader                      *)
(*   saw        ghost: the creators visible when that snapshot was made    *)
(***************************************************************************)
EXTENDS MgaTransactions, TransactionSnapshot

CONSTANT MaxSnapshots  \* bound: statements running at a time

VARIABLES snapshots, saw

readerVars == <<snapshots, saw>>
allVars == <<vars, readerVars>>

NoSnapshot == [present |-> FALSE]

TransactionSnapshots ==
    [ visibleThrough : 0 .. MaxLocalTransactionId,
      visibleThroughCommit : 0 .. MaxCommitSequence,
      activeExcluded : SUBSET TransactionIds,
      inDoubtExcluded : SUBSET TransactionIds ]

ReadersInit ==
    /\ Init
    /\ snapshots = [r \in TransactionIds |-> NoSnapshot]
    /\ saw = [r \in TransactionIds |-> {}]

TakeSnapshot(r) ==
    /\ open
    /\ CanCreateLocalTransactionSnapshot(inv, r)
    /\ Cardinality({q \in TransactionIds \ {r} : snapshots[q].present}) < MaxSnapshots
    /\ LET snap == CreateLocalTransactionSnapshot(inv, r) IN
       /\ snapshots' = [snapshots EXCEPT ![r] = [present |-> TRUE, vector |-> snap]]
       /\ saw' = [saw EXCEPT ![r] = VisibleCreators(inv, snap)]
    /\ UNCHANGED vars

RevokePublishedSnapshotVectorsForTransaction(t) ==
    /\ snapshots' = [snapshots EXCEPT ![t] = NoSnapshot]
    /\ saw' = [saw EXCEPT ![t] = {}]

ReadersNext ==
    \/ Background /\ UNCHANGED readerVars
    \/ \E t \in TransactionIds :
          /\ Commit(t) \/ Rollback(t)
          /\ RevokePublishedSnapshotVectorsForTransaction(t)
    \/ /\ Crash
       /\ snapshots' = [r \in TransactionIds |-> NoSnapshot]
       /\ saw' = [r \in TransactionIds |-> {}]
    \/ \E r \in TransactionIds : TakeSnapshot(r)

ReadersSpec == ReadersInit /\ [][ReadersNext]_allVars

-----------------------------------------------------------------------------
\* A statement keeps seeing exactly the creators it saw when its snapshot
\* was made, whatever commits, rolls back or is archived meanwhile.
\* (Compaction may remove the entry of a creator.)
SnapshotIsStable ==
    \A r \in TransactionIds : snapshots[r].present =>
        VisibleCreators(inv, snapshots[r].vector)
            = {c \in saw[r] : Found(inv, c)}

\* Two statements of one snapshot-isolation reader see the same creators:
\* a snapshot taken after any step shows what one taken before it shows.
RepeatableRead ==
    [][\A r \in TransactionIds :
         /\ inv.entries[r].stableSnapshot
         /\ CanCreateLocalTransactionSnapshot(inv, r)
         /\ CanCreateLocalTransactionSnapshot(inv', r)
         => VisibleCreators(inv', CreateLocalTransactionSnapshot(inv', r))
              = {c \in VisibleCreators(inv, CreateLocalTransactionSnapshot(inv, r)) :
                    Found(inv', c)}]_allVars
=============================================================================
