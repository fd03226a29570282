---------------------------- MODULE RecoverySweep ----------------------------
(***************************************************************************)
(* Startup recovery and operator resolution over every inventory that      *)
(* structural admission lets a database load, states that the present      *)
(* engine never publishes (preparing, committing, limbo, recovering,       *)
(* failed_terminal) included: recovery must be right about an inventory    *)
(* it did not write.  The database is closed to clients throughout.        *)
(*                                                                         *)
(*   loaded  the selected inventory                                        *)
(*   opened  a writable open has succeeded and not been closed since       *)
(***************************************************************************)
EXTENDS TransactionRecovery

VARIABLES loaded, opened

sweepVars == <<loaded, opened>>

\* The entries a load admits when n is the next commit sequence number.  A
\* terminal entry has its evidence; what recovery only carries along (begin
\* boundary, snapshot class) is fixed.
LoadableEntries(n) ==
    LET Entries(states, origins, sequences, evidence) ==
            [ state : states, archivedFrom : origins, beginCommitSequence : {0},
              commitSequence : sequences, evidenceWritten : evidence,
              rollbackOnly : BOOLEAN, stableSnapshot : {FALSE} ]
        undecided == {s \in TransactionStates \ {"none"} : ~IsTerminalTransactionState(s)}
    IN  {NoEntry}
        \cup Entries(undecided, {"none"}, {0}, BOOLEAN)
        \cup Entries({"rolled_back", "failed_terminal"}, {"none"}, {0}, {TRUE})
        \cup Entries({"committed"}, {"none"}, 1 .. (n - 1), {TRUE})
        \cup Entries({"archived"}, {"rolled_back", "failed_terminal"}, {0}, {TRUE})
        \cup Entries({"archived"}, {"committed"}, 1 .. (n - 1), {TRUE})

SweepInit ==
    /\ \E n \in 1 .. MaxCommitSequence :
         \E f \in [TransactionIds -> LoadableEntries(n)] :
            loaded = [next |-> MaxLocalTransactionId, nextCommit |-> n, entries |-> f]
    /\ ValidateLocalTransactionInventoryStructure(loaded)
    /\ opened = FALSE

\* The recovery block of a writable open.
RecoverAndOpen ==
    /\ ~opened
    /\ CanApplyLocalTransactionInventoryRecovery(loaded)
    /\ ~RecoveryFenced(loaded)
    /\ loaded' = ApplyLocalTransactionInventoryRecovery(loaded)
    /\ opened' = TRUE

\* An operator's authoritative decision on one limbo entry.
ResolveLimbo(t, d) ==
    /\ ~opened
    /\ CanResolveLimbo(loaded, t, d)
    /\ loaded' = ResolveLimboLocalTransactionWithOperatorDecision(loaded, t, d)
    /\ UNCHANGED opened

Close ==
    /\ opened
    /\ opened' = FALSE
    /\ UNCHANGED loaded

SweepNext ==
    \/ RecoverAndOpen
    \/ \E t \in TransactionIds, d \in LimboOperatorDecisions : ResolveLimbo(t, d)
    \/ Close

SweepSpec == SweepInit /\ [][SweepNext]_sweepVars

-----------------------------------------------------------------------------
\* What recovery and operator resolution produce is always an inventory that
\* publication admits as a successor of the loaded one: no outcome changes,
\* completed commits get fresh sequence numbers in entry order, and no
\* sequence number is used twice.
RecoveryAdmitted ==
    [][ValidateLocalTransactionInventoryEvolution(loaded, loaded')]_sweepVars

\* One recovery settles the inventory: an open database has no unresolved
\* entry, and recovering it again changes nothing.
RecoverySettles ==
    opened =>
        /\ \A t \in TransactionIds : Found(loaded, t) =>
              InventoryVisibilityState(loaded.entries[t]) \in {"committed", "rolled_back"}
        /\ CanApplyLocalTransactionInventoryRecovery(loaded)
        /\ ~RecoveryFenced(loaded)
        /\ ApplyLocalTransactionInventoryRecovery(loaded) = loaded

\* The entries on which an open waits: a missing decision, a failure that
\* needs review, or commit work whose evidence is missing.
AwaitsDecision(e) ==
    \/ e.state = "prepared" /\ ~e.rollbackOnly
    \/ e.state \in {"limbo", "recovering"}
    \/ e.state = "committing" /\ ~e.evidenceWritten
    \/ InventoryVisibilityState(e) = "failed_terminal"

\* Recovery never gives up on an inventory without such an entry, unless the
\* commit sequence is exhausted.
OpenRefusedOnlyForDecisions ==
    /\ ~opened
    /\ \A t \in TransactionIds : ~AwaitsDecision(loaded.entries[t])
    /\ Cardinality(CommitsToComplete(loaded)) <= MaxCommitSequence - loaded.nextCommit
    => /\ CanApplyLocalTransactionInventoryRecovery(loaded)
       /\ ~RecoveryFenced(loaded)
=============================================================================
