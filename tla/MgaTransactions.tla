--------------------------- MODULE MgaTransactions ---------------------------
(***************************************************************************)
(* The transaction engine as its clients drive it: every operation loads   *)
(* the selected inventory, applies a transform and publishes the result    *)
(* as one atomic, durable replacement.  (That a publication is atomic is   *)
(* the subject of InventoryPublication.)  The process may crash between    *)
(* any two publications; reopening the database runs startup recovery.     *)
(*                                                                         *)
(*   inv        the published inventory                                    *)
(*   open       a process has the database open for writing                *)
(*   candidate  a BEGIN that published its starting entry and has not yet  *)
(*              published the activation; the device's operation guard     *)
(*              keeps every other publication out meanwhile                *)
(*   guardOwner the transaction whose rollback-only marker was published   *)
(*              by the newest publication, so that its owner still holds   *)
(*              the exact publication base; 0 if there is none             *)
(*   lost       ghost: the transactions a crash found undecided            *)
(***************************************************************************)
EXTENDS TransactionRecovery

VARIABLES inv, open, candidate, guardOwner, lost

vars == <<inv, open, candidate, guardOwner, lost>>

NoCandidate == [present |-> FALSE]
Candidate(i) == [present |-> TRUE, inventory |-> i]

\* The inventory, the counters and the volatile state have their types.
TypeOK ==
    /\ inv \in LocalTransactionInventory
    /\ open \in BOOLEAN
    /\ \/ candidate = NoCandidate
       \/ candidate \in [present : {TRUE}, inventory : LocalTransactionInventory]
    /\ guardOwner \in TransactionIds \cup {0}
    /\ lost \subseteq TransactionIds

Init ==
    /\ inv = MakeEmptyLocalTransactionInventory
    /\ open = TRUE
    /\ candidate = NoCandidate
    /\ guardOwner = 0
    /\ lost = {}

\* Admission to the device: open for writing, no publication under way.
Admitted == open /\ candidate = NoCandidate

\* Publishing i makes every earlier publication base stale.
Publish(i) ==
    /\ inv' = i
    /\ guardOwner' = 0

-----------------------------------------------------------------------------
\* BEGIN, first publication: the number is allocated in the starting state.
AllocateStarting(activeState, stable) ==
    /\ Admitted
    /\ CanBeginLocalTransaction(inv)
    /\ LET begun == BeginLocalTransactionWithState(inv, activeState, stable) IN
       /\ Publish(StartingInventory(inv, begun))
       /\ candidate' = Candidate(begun)
    /\ UNCHANGED <<open, lost>>

\* BEGIN, second publication: the reserved entry becomes active.
ActivateReserved ==
    /\ open /\ candidate.present
    /\ Publish(candidate.inventory)
    /\ candidate' = NoCandidate
    /\ UNCHANGED <<open, lost>>

\* The activation could not be published: BEGIN reports the error and the
\* allocated number stays consumed.
ActivationFails ==
    /\ open /\ candidate.present
    /\ candidate' = NoCandidate
    /\ UNCHANGED <<inv, open, guardOwner, lost>>

\* Create, activation and shutdown commit a transaction of their own in one
\* publication.
CommitLifecycleTransaction ==
    /\ Admitted
    /\ CanBeginLocalTransaction(inv)
    /\ LET begun == BeginLocalTransactionWithState(inv, "active", FALSE) IN
       /\ CanCommitLocalTransaction(begun, inv.next)
       /\ Publish(CommitLocalTransaction(begun, inv.next))
    /\ UNCHANGED <<open, candidate, lost>>

Prepare(t) ==
    /\ Admitted
    /\ CanPrepareLocalTransaction(inv, t)
    /\ Publish(PrepareLocalTransactionDurable(inv, t))
    /\ UNCHANGED <<open, candidate, lost>>

Commit(t) ==
    /\ Admitted
    /\ CanCommitLocalTransaction(inv, t)
    /\ Publish(CommitLocalTransaction(inv, t))
    /\ UNCHANGED <<open, candidate, lost>>

Rollback(t) ==
    /\ Admitted
    /\ CanRollbackLocalTransaction(inv, t)
    /\ Publish(RollbackLocalTransaction(inv, t))
    /\ UNCHANGED <<open, candidate, lost>>

\* A write that spans several pages first publishes that its transaction
\* can only roll back.
BeginGuardedWrite(t) ==
    /\ Admitted
    /\ inv.entries[t].state = "active"
    /\ ~inv.entries[t].rollbackOnly
    /\ CanMarkLocalTransactionRollbackOnly(inv, t)
    /\ inv' = MarkLocalTransactionRollbackOnly(inv, t)
    /\ guardOwner' = t
    /\ UNCHANGED <<open, candidate, lost>>

\* Only the writer that still holds the exact base of its own marker may
\* release it.
CompleteGuardedWrite(t) ==
    /\ Admitted
    /\ guardOwner = t
    /\ inv.entries[t].state = "active"
    /\ inv.entries[t].rollbackOnly
    /\ Publish(WithEntry(inv, t, MarkedEntry(inv.entries[t], FALSE)))
    /\ UNCHANGED <<open, candidate, lost>>

Archive(t) ==
    /\ Admitted
    /\ CanArchiveLocalTransaction(inv, t)
    /\ Publish(ArchiveLocalTransaction(inv, t))
    /\ UNCHANGED <<open, candidate, lost>>

Compact(oldestRequired) ==
    /\ Admitted
    /\ CanCompactLocalTransactionInventory(inv)
    /\ Publish(CompactLocalTransactionInventory(inv, oldestRequired))
    /\ UNCHANGED <<open, candidate, lost>>

\* The process stops: what is not published is gone.
Crash ==
    /\ open
    /\ open' = FALSE
    /\ candidate' = NoCandidate
    /\ guardOwner' = 0
    /\ lost' = lost \cup {t \in TransactionIds :
                   inv.entries[t].state \in {"created", "active", "read_only_active"}}
    /\ UNCHANGED inv

\* Mutant: the database opens on the inventory as it was loaded.
OpenDatabaseWithoutRecovery ==
    /\ ~open
    /\ ~RecoveryFenced(inv)
    /\ open' = TRUE
    /\ UNCHANGED <<inv, candidate, guardOwner, lost>>

\* A writable open: recovery is applied and published, and the open is
\* refused when an entry must wait for a decision.
OpenDatabase ==
    /\ ~open
    /\ CanApplyLocalTransactionInventoryRecovery(inv)
    /\ ~RecoveryFenced(inv)
    /\ inv' = ApplyLocalTransactionInventoryRecovery(inv)
    /\ open' = TRUE
    /\ UNCHANGED <<candidate, guardOwner, lost>>

\* The steps that leave every reader's statement running.
Background ==
    \/ \E s \in {"active", "read_only_active"}, stable \in BOOLEAN :
          AllocateStarting(s, stable)
    \/ ActivateReserved
    \/ ActivationFails
    \/ CommitLifecycleTransaction
    \/ \E t \in TransactionIds :
          \/ Prepare(t)
          \/ BeginGuardedWrite(t)
          \/ CompleteGuardedWrite(t)
          \/ Archive(t)
    \/ \E h \in 1 .. MaxLocalTransactionId : Compact(h)
    \/ OpenDatabase

Next ==
    \/ Background
    \/ \E t \in TransactionIds : Commit(t) \/ Rollback(t)
    \/ Crash

Spec == Init /\ [][Next]_vars
-----------------------------------------------------------------------------
(***************************************************************************)
(* Properties.                                                             *)
(***************************************************************************)

\* Every publication, recovery's included, is one that evolution admission
\* accepts: numbers and sequence numbers are not reused, outcomes and begin
\* boundaries do not change, no unresolved entry disappears.
EvolutionAdmitted ==
    [][ValidateLocalTransactionInventoryEvolution(inv, inv')]_vars

\* A transaction that a crash found undecided is never committed later,
\* neither by recovery nor by a client that kept its number.
LostNeverCommits ==
    \A t \in lost : ~HasCommittedInventoryOutcome(inv.entries[t])

\* No transaction is committed while its rollback-only marker is set: an
\* unfinished guarded write never becomes visible.
RollbackOnlyNeverCommits ==
    \A t \in TransactionIds :
        inv.entries[t].rollbackOnly => ~HasCommittedInventoryOutcome(inv.entries[t])

\* After a crash a writable open is refused only because of a prepared
\* transaction whose decision is missing; anything else recovers.
ReopenWaitsOnlyForPrepared ==
    ~open /\ (\A t \in TransactionIds :
                 inv.entries[t].state = "prepared" => inv.entries[t].rollbackOnly)
    => /\ CanApplyLocalTransactionInventoryRecovery(inv)
       /\ ~RecoveryFenced(inv)
=============================================================================
