------------------------- MODULE TransactionRecovery -------------------------
(***************************************************************************)
(* Startup recovery of the local inventory (transaction_recovery.cpp) and  *)
(* the resolution of limbo entries by an operator.  A writable open of a   *)
(* database applies recovery and refuses to open when any entry fails      *)
(* closed (database_lifecycle.cpp, the recovery block of the open path).   *)
(*                                                                         *)
(* Cluster-global entries need a provider that is not in the repository;   *)
(* entries here have local scope (see TransactionInventory).               *)
(***************************************************************************)
EXTENDS TransactionInventory, FiniteSets

\* Mutant: limbo entries do not keep the database closed.
FailClosedExceptLimbo == {"prepared_waiting_local_decision", "fail_closed_ambiguous"}

FailClosed ==
    { "prepared_waiting_local_decision", "limbo_requires_operator",
      "fail_closed_ambiguous" }

\* Mutant: the starting state of BEGIN is not among them.
RolledBackByRecoveryNotStarting == {"active", "read_only_active", "preparing", "rolling_back"}

\* The states that local recovery may roll back without a decision.
RolledBackByRecovery ==
    {"created", "active", "read_only_active", "preparing", "rolling_back"}

ClassifyLocalTransactionForRecovery(e) ==
    LET outcome == InventoryVisibilityState(e) IN
    CASE \/ e.state = "archived" /\ outcome = "none"
         \/ e.state # "archived" /\ e.archivedFrom # "none"
         \/ outcome = "failed_terminal" ->
            "fail_closed_ambiguous"
      [] OTHER ->
         CASE e.rollbackOnly /\ e.state \notin
                 {"committed", "committing", "rolled_back", "archived"} ->
                "complete_rollback"
           [] OTHER ->
              CASE e.state \in RolledBackByRecovery -> "complete_rollback"
                [] e.state = "prepared" -> "prepared_waiting_local_decision"
                [] e.state = "committing" ->
                     IF e.evidenceWritten THEN "complete_commit"
                                          ELSE "fail_closed_ambiguous"
                [] e.state \in {"committed", "rolled_back", "archived"} ->
                     "no_action"
                [] e.state \in {"limbo", "recovering"} ->
                     "limbo_requires_operator"
                [] OTHER -> "fail_closed_ambiguous"

Classification(inv, t) == ClassifyLocalTransactionForRecovery(inv.entries[t])

\* write_admission_must_remain_fenced of the classification pass.
RecoveryFenced(inv) ==
    \E t \in TransactionIds : Found(inv, t) /\ Classification(inv, t) \in FailClosed

CommitsToComplete(inv) ==
    {t \in TransactionIds : Found(inv, t) /\ Classification(inv, t) = "complete_commit"}

\* Mutant: an interrupted rollback is started once more.
RecoveryActionAllowedFromStart(e) ==
    ClassifyLocalTransactionForRecovery(e) = "complete_rollback" =>
        CheckTransactionStateTransition(e.state, "rolling_back", TRUE)

\* The transitions ApplyRecoveryAction takes from the observed state.
RecoveryActionAllowed(e) ==
    CASE ClassifyLocalTransactionForRecovery(e) = "complete_commit" ->
            CheckTransactionStateTransition(e.state, "committed", TRUE)
      [] ClassifyLocalTransactionForRecovery(e) = "complete_rollback" ->
            /\ e.state # "rolling_back" =>
                  CheckTransactionStateTransition(e.state, "rolling_back", TRUE)
            /\ CheckTransactionStateTransition("rolling_back", "rolled_back", TRUE)
      [] OTHER -> TRUE

\* The result is usable: the structure is valid, no sequence number runs
\* out and every entry's transition is legal in recovery context.
CanApplyLocalTransactionInventoryRecovery(inv) ==
    /\ ValidateLocalTransactionInventoryStructure(inv)
    /\ Cardinality(CommitsToComplete(inv)) <= MaxCommitSequence - inv.nextCommit
    /\ \A t \in TransactionIds :
          Found(inv, t) => RecoveryActionAllowed(inv.entries[t])

\* Mutant: every completed commit gets the same number.
RecoveredCommitSequenceShared(inv, t) == inv.nextCommit

\* Entries are visited in order: the k-th completed commit gets the k-th
\* sequence number from the counter.
RecoveredCommitSequence(inv, t) ==
    inv.nextCommit + Cardinality({u \in CommitsToComplete(inv) : u < t})

RecoveredEntry(inv, t) ==
    LET e == inv.entries[t] IN
    CASE Found(inv, t) /\ Classification(inv, t) = "complete_commit" ->
            CommittedEntry(e, RecoveredCommitSequence(inv, t))
      [] Found(inv, t) /\ Classification(inv, t) = "complete_rollback" ->
            RolledBackEntry(e)
      [] OTHER -> e

ApplyLocalTransactionInventoryRecovery(inv) ==
    [ inv EXCEPT
        !.nextCommit = @ + Cardinality(CommitsToComplete(inv)),
        !.entries = [t \in TransactionIds |-> RecoveredEntry(inv, t)] ]

-----------------------------------------------------------------------------
LimboOperatorDecisions == {"commit", "rollback", "fail_terminal"}

TerminalStateForLimboDecision(d) ==
    CASE d = "commit"   -> "committed"
      [] d = "rollback" -> "rolled_back"
      [] OTHER          -> "failed_terminal"

CanResolveLimbo(inv, t, d) ==
    /\ ValidateLocalTransactionInventoryStructure(inv)
    /\ d = "commit" => inv.nextCommit # MaxCommitSequence
    /\ Found(inv, t)
    /\ inv.entries[t].state = "limbo"
    /\ CheckTransactionStateTransition("limbo", "recovering", TRUE)
    /\ CheckTransactionStateTransition("recovering", TerminalStateForLimboDecision(d), TRUE)

ResolveLimboLocalTransactionWithOperatorDecision(inv, t, d) ==
    [ inv EXCEPT
        !.nextCommit = IF d = "commit" THEN @ + 1 ELSE @,
        !.entries[t].state = TerminalStateForLimboDecision(d),
        !.entries[t].evidenceWritten = TRUE,
        !.entries[t].commitSequence = IF d = "commit" THEN inv.nextCommit ELSE @ ]
=============================================================================
