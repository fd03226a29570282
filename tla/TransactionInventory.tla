------------------------ MODULE TransactionInventory ------------------------
(***************************************************************************)
(* The local transaction inventory: the record the engine calls the only   *)
(* authority on transaction outcomes, the pure transforms that build its   *)
(* next value (transaction_inventory.cpp) and the two admission checks     *)
(* every publication runs (transaction_inventory_validation.hpp).          *)
(*                                                                         *)
(* Data abstraction.  An entry is found by its local number, so entries is *)
(* a function on numbers in which state "none" means "no entry"; the entry *)
(* vector is appended to in number order, so that order is not kept apart. *)
(* Identities (uuids) are fresh at every BEGIN and are not modelled, the   *)
(* scope is local_node, the only one a BEGIN in the repository issues, and *)
(* timestamps are dropped.  begin_visible_through_local_transaction_id is  *)
(* always the entry's number minus one and is left implicit.               *)
(***************************************************************************)
EXTENDS TransactionState, Naturals

CONSTANTS
    MaxLocalTransactionId,  \* numeric_limits<u64>::max() of the numbers
    MaxCommitSequence,      \* numeric_limits<u64>::max() of the sequence
    EvidenceBeforePrepared  \* LocalPreparePolicy's evidence requirement

ASSUME InventoryLimits ==
    /\ MaxLocalTransactionId \in Nat \ {0}
    /\ MaxCommitSequence \in Nat \ {0}
    /\ EvidenceBeforePrepared \in BOOLEAN

TransactionIds == 1 .. (MaxLocalTransactionId - 1)

TransactionInventoryEntry ==
    [ state               : TransactionStates,
      archivedFrom        : TransactionStates,
      beginCommitSequence : 0 .. MaxCommitSequence,
      commitSequence      : 0 .. MaxCommitSequence,
      evidenceWritten     : BOOLEAN,
      rollbackOnly        : BOOLEAN,
      stableSnapshot      : BOOLEAN ]

LocalTransactionInventory ==
    [ next       : 1 .. MaxLocalTransactionId,
      nextCommit : 1 .. MaxCommitSequence,
      entries    : [TransactionIds -> TransactionInventoryEntry] ]

NoEntry ==
    [ state |-> "none", archivedFrom |-> "none", beginCommitSequence |-> 0,
      commitSequence |-> 0, evidenceWritten |-> FALSE,
      rollbackOnly |-> FALSE, stableSnapshot |-> FALSE ]

MakeEmptyLocalTransactionInventory ==
    [ next |-> 1, nextCommit |-> 1,
      entries |-> [t \in TransactionIds |-> NoEntry] ]

Found(inv, t) == inv.entries[t].state # "none"

\* Mutant: archiving hides the outcome.
InventoryVisibilityStateWithoutOrigin(e) == e.state

\* The outcome readers may rely on: an archived entry keeps its origin's.
InventoryVisibilityState(e) ==
    IF e.state # "archived"
    THEN IF e.archivedFrom = "none" THEN e.state ELSE "none"
    ELSE IF e.archivedFrom \in {"committed", "rolled_back", "failed_terminal"}
         THEN e.archivedFrom ELSE "none"

HasCommittedInventoryOutcome(e) == InventoryVisibilityState(e) = "committed"

-----------------------------------------------------------------------------
(***************************************************************************)
(* Admission checks.                                                       *)
(***************************************************************************)

EntryStructureValid(inv, t) ==
    LET e == inv.entries[t] IN
    /\ e.beginCommitSequence < inv.nextCommit
    /\ IF e.state = "archived"
       THEN e.archivedFrom \in {"committed", "rolled_back", "failed_terminal"}
       ELSE e.archivedFrom = "none"
    /\ IF HasCommittedInventoryOutcome(e)
       THEN /\ e.commitSequence # 0
            /\ e.commitSequence < inv.nextCommit
            /\ e.commitSequence > e.beginCommitSequence
       ELSE e.commitSequence = 0
    /\ t < inv.next

CommitSequencesUnique(inv) ==
    \A t, u \in TransactionIds :
        /\ Found(inv, t) /\ HasCommittedInventoryOutcome(inv.entries[t])
        /\ Found(inv, u) /\ HasCommittedInventoryOutcome(inv.entries[u])
        /\ inv.entries[t].commitSequence = inv.entries[u].commitSequence
        => t = u

ValidateLocalTransactionInventoryStructure(inv) ==
    /\ inv.next # 0
    /\ inv.nextCommit # 0
    /\ \A t \in TransactionIds : Found(inv, t) => EntryStructureValid(inv, t)
    /\ CommitSequencesUnique(inv)

\* What a retained entry may become between two published inventories.
EntryEvolutionValid(before, after, t) ==
    LET old == before.entries[t]
        new == after.entries[t]
        oldOutcome == InventoryVisibilityState(old)
        newOutcome == InventoryVisibilityState(new)
    IN
    /\ old.beginCommitSequence = new.beginCommitSequence
    /\ old.stableSnapshot = new.stableSnapshot
    /\ old.evidenceWritten => new.evidenceWritten
    /\ IsTerminalTransactionState(oldOutcome) =>
          /\ oldOutcome = newOutcome
          /\ old.commitSequence = new.commitSequence
    /\ Reachable(old.state, new.state)
    /\ (new.state = "archived" /\ old.state # "archived") =>
          Reachable(old.state, newOutcome)
    /\ (~HasCommittedInventoryOutcome(old) /\ HasCommittedInventoryOutcome(new)) =>
          new.commitSequence >= before.nextCommit

ValidateLocalTransactionInventoryEvolution(before, after) ==
    /\ ValidateLocalTransactionInventoryStructure(before)
    /\ ValidateLocalTransactionInventoryStructure(after)
    /\ after.next >= before.next
    /\ after.nextCommit >= before.nextCommit
    /\ \A t \in TransactionIds :
         CASE Found(after, t) /\ Found(before, t) ->
                EntryEvolutionValid(before, after, t)
           [] Found(after, t) /\ ~Found(before, t) ->
                /\ t >= before.next
                /\ HasCommittedInventoryOutcome(after.entries[t]) =>
                      after.entries[t].commitSequence >= before.nextCommit
           [] ~Found(after, t) /\ Found(before, t) ->
                InventoryVisibilityState(before.entries[t])
                    \in {"committed", "rolled_back"}
           [] OTHER -> TRUE

-----------------------------------------------------------------------------
(***************************************************************************)
(* The transforms.  CanX is X's list of early returns, X its result; each  *)
(* writes one entry.                                                       *)
(***************************************************************************)

WithEntry(inv, t, e) ==
    [inv EXCEPT !.entries = [inv.entries EXCEPT ![t] = e]]

BegunEntry(inv, activeState, stable) ==
    [ NoEntry EXCEPT !.state = activeState,
                     !.beginCommitSequence = inv.nextCommit - 1,
                     !.stableSnapshot = stable ]

PreparedEntry(e) ==
    [ e EXCEPT !.state = "prepared",
               !.evidenceWritten = @ \/ EvidenceBeforePrepared ]

CommittedEntry(e, sequence) ==
    [ e EXCEPT !.state = "committed",
               !.commitSequence = sequence,
               !.evidenceWritten = TRUE ]

RolledBackEntry(e) == [ e EXCEPT !.state = "rolled_back", !.evidenceWritten = TRUE ]

ArchivedEntry(e) == [ e EXCEPT !.archivedFrom = e.state, !.state = "archived" ]

MarkedEntry(e, rollbackOnly) == [ e EXCEPT !.rollbackOnly = rollbackOnly ]

\* Mutant: the last number is handed out as well.
CanBeginLocalTransactionUnbounded(inv) == ValidateLocalTransactionInventoryStructure(inv)

CanBeginLocalTransaction(inv) ==
    /\ ValidateLocalTransactionInventoryStructure(inv)
    /\ inv.next # MaxLocalTransactionId

BeginLocalTransactionWithState(inv, activeState, stable) ==
    [ WithEntry(inv, inv.next, BegunEntry(inv, activeState, stable))
        EXCEPT !.next = inv.next + 1 ]

CanPrepareLocalTransaction(inv, t) ==
    /\ Found(inv, t)
    /\ CheckTransactionStateTransition(inv.entries[t].state, "preparing", FALSE)
    /\ CheckTransactionStateTransition("preparing", "prepared", FALSE)

\* transaction_prepare.cpp wraps the transform: its policy may require the
\* finality evidence flag before the prepared state is reported.
PrepareLocalTransactionDurable(inv, t) ==
    WithEntry(inv, t, PreparedEntry(inv.entries[t]))

\* Mutant: the rollback-only marker is not looked at.
CanCommitLocalTransactionUnmarked(inv, t) ==
    /\ ValidateLocalTransactionInventoryStructure(inv)
    /\ inv.nextCommit # MaxCommitSequence
    /\ inv.entries[t].state \in {"active", "read_only_active", "prepared"}

CanCommitLocalTransaction(inv, t) ==
    /\ ValidateLocalTransactionInventoryStructure(inv)
    /\ inv.nextCommit # MaxCommitSequence
    /\ Found(inv, t)
    /\ ~inv.entries[t].rollbackOnly
    /\ LET s == inv.entries[t].state IN
       /\ s = "active" =>
            /\ CheckTransactionStateTransition(s, "preparing", FALSE)
            /\ CheckTransactionStateTransition("preparing", "prepared", FALSE)
       /\ CheckTransactionStateTransition(
             IF s = "active" THEN "prepared" ELSE s, "committing", FALSE)
       /\ CheckTransactionStateTransition("committing", "committed", FALSE)

CommitLocalTransaction(inv, t) ==
    [ WithEntry(inv, t, CommittedEntry(inv.entries[t], inv.nextCommit))
        EXCEPT !.nextCommit = inv.nextCommit + 1 ]

CanRollbackLocalTransaction(inv, t) ==
    /\ Found(inv, t)
    /\ CheckTransactionStateTransition(inv.entries[t].state, "rolling_back", FALSE)
    /\ CheckTransactionStateTransition("rolling_back", "rolled_back", FALSE)

RollbackLocalTransaction(inv, t) ==
    WithEntry(inv, t, RolledBackEntry(inv.entries[t]))

CanArchiveLocalTransaction(inv, t) ==
    /\ ValidateLocalTransactionInventoryStructure(inv)
    /\ Found(inv, t)
    /\ inv.entries[t].evidenceWritten
    /\ CheckTransactionStateTransition(inv.entries[t].state, "archived", FALSE)

ArchiveLocalTransaction(inv, t) ==
    WithEntry(inv, t, ArchivedEntry(inv.entries[t]))

CanMarkLocalTransactionRollbackOnly(inv, t) ==
    /\ Found(inv, t)
    /\ inv.entries[t].state \notin {"committed", "archived"}

MarkLocalTransactionRollbackOnly(inv, t) ==
    WithEntry(inv, t, MarkedEntry(inv.entries[t], TRUE))

CanCompactLocalTransactionInventory(inv) ==
    ValidateLocalTransactionInventoryStructure(inv)

\* Mutant: only the horizon is looked at.
CompactableEntryBelowHorizon(e, t, oldestRequired) == t < oldestRequired

CompactableEntry(e, t, oldestRequired) ==
    /\ e.state = "archived"
    /\ e.archivedFrom # "failed_terminal"
    /\ t < oldestRequired

CompactLocalTransactionInventory(inv, oldestRequired) ==
    [ inv EXCEPT
        !.entries = [t \in TransactionIds |->
            IF CompactableEntry(inv.entries[t], t, oldestRequired)
            THEN NoEntry
            ELSE inv.entries[t]] ]

\* PersistLocalTransactionInventoryToOpenDevice publishes new identities in
\* the starting state before it publishes them as active.
NewlyActive(old, inv, t) ==
    /\ t >= old.next
    /\ inv.entries[t].state \in {"active", "read_only_active"}

StartingEntry(e) == [e EXCEPT !.state = "created"]

StartingInventory(old, inv) ==
    [ inv EXCEPT
        !.entries = [t \in TransactionIds |->
            IF NewlyActive(old, inv, t)
            THEN StartingEntry(inv.entries[t])
            ELSE inv.entries[t]] ]
=============================================================================
