--------------------- MODULE TransactionInventoryProofs ---------------------
(***************************************************************************)
(* Proofs about the specifications built on the transaction inventory, for *)
(* any number of transactions and commit sequence numbers:                 *)
(*                                                                         *)
(*   MgaTransactions  every publication is an admitted evolution of the    *)
(*                    one before it (Successor), crashes and recovery      *)
(*                    included;                                            *)
(*   MgaReaders       what an admitted evolution keeps is all a snapshot   *)
(*                    depends on;                                          *)
(*   RecoverySweep    recovery and operator resolution of any inventory    *)
(*                    that structural admission lets through.              *)
(***************************************************************************)
EXTENDS MgaReaders, RecoverySweep, FiniteSetTheorems, WellFoundedInduction, TLAPS

\* The states the engine publishes; the others are passed through within
\* one transform.
PublishedStates ==
    { "none", "created", "active", "read_only_active", "prepared",
      "committed", "rolled_back", "archived" }

PublishedEntry(e) ==
    /\ e.state \in PublishedStates
    /\ IF e.state = "archived" THEN e.archivedFrom \in {"committed", "rolled_back"}
                               ELSE e.archivedFrom = "none"
    /\ e.rollbackOnly => ~HasCommittedInventoryOutcome(e)

Published(i) ==
    /\ i \in LocalTransactionInventory
    /\ ValidateLocalTransactionInventoryStructure(i)
    /\ \A t \in TransactionIds : PublishedEntry(i.entries[t])
    /\ \A t \in TransactionIds : t >= i.next => i.entries[t].state = "none"

\* An entry that no operation can lead to a commit any more.
Ended(e) == InventoryVisibilityState(e) \in {"none", "rolled_back"}

\* What a crash interrupts and recovery rolls back.
Interrupted(e) == e.state \in {"created", "active", "read_only_active"}

\* What a publication does to an inventory: it is admitted as an evolution,
\* numbers stay consumed and what has ended stays ended.
Successor(i, j) ==
    /\ Published(j)
    /\ ValidateLocalTransactionInventoryEvolution(i, j)
    /\ i.next <= j.next
    /\ \A t \in TransactionIds :
          t < i.next /\ Ended(i.entries[t]) => Ended(j.entries[t])

\* The state changes between two publications: the transforms pass through
\* the states in between.
PublishedSteps ==
    { <<"created", "active">>, <<"created", "read_only_active">>,
      <<"created", "rolled_back">>, <<"active", "prepared">>,
      <<"active", "committed">>, <<"active", "rolled_back">>,
      <<"read_only_active", "committed">>, <<"read_only_active", "rolled_back">>,
      <<"prepared", "committed">>, <<"prepared", "rolled_back">>,
      <<"committed", "archived">>, <<"rolled_back", "archived">> }

\* The state changes of recovery and operator resolution.
RecoverySteps ==
    { <<"created", "rolled_back">>, <<"active", "rolled_back">>,
      <<"read_only_active", "rolled_back">>, <<"preparing", "rolled_back">>,
      <<"prepared", "rolled_back">>, <<"rolling_back", "rolled_back">>,
      <<"committing", "committed">>, <<"limbo", "committed">>,
      <<"limbo", "rolled_back">>, <<"limbo", "failed_terminal">> }

\* How a transform may change an entry; sequence is the number a commit gets.
EntryMoves(old, new, sequence) ==
    /\ new.beginCommitSequence = old.beginCommitSequence
    /\ new.stableSnapshot = old.stableSnapshot
    /\ old.evidenceWritten => new.evidenceWritten
    /\ new.state = old.state \/ <<old.state, new.state>> \in PublishedSteps
    /\ new.archivedFrom = IF new.state = "archived" /\ old.state # "archived"
                          THEN old.state ELSE old.archivedFrom
    /\ new.commitSequence = IF new.state = "committed" /\ old.state # "committed"
                            THEN sequence ELSE old.commitSequence

\* The inductive invariant.  LostNeverCommits alone is not inductive: a lost
\* entry must have ended (or be waiting for recovery) and its number must
\* stay below the counter, or a later BEGIN could take it up.
MgaInv ==
    /\ TypeOK
    /\ Published(inv)
    /\ candidate.present => open /\ Successor(inv, candidate.inventory)
    /\ \A t \in lost :
          /\ t < inv.next
          /\ Ended(inv.entries[t]) \/ (~open /\ Interrupted(inv.entries[t]))

-----------------------------------------------------------------------------
(***************************************************************************)
(* The transition table: where a transform's first transition can start.   *)
(***************************************************************************)
LEMMA TransitionSources ==
  ASSUME NEW s
  PROVE  /\ CheckTransactionStateTransition(s, "preparing", FALSE) => s = "active"
         /\ CheckTransactionStateTransition(s, "committing", FALSE) =>
               s \in {"read_only_active", "prepared"}
         /\ CheckTransactionStateTransition(s, "rolling_back", FALSE) =>
               s \in {"created", "active", "read_only_active", "preparing", "prepared"}
         /\ CheckTransactionStateTransition(s, "archived", FALSE) =>
               s \in {"committed", "rolled_back", "failed_terminal"}
  BY DEF CheckTransactionStateTransition, BuiltinTransactionStateTransitions,
         RecoveryOnlyTransitions

LEMMA ComposePair ==
  ASSUME NEW R, NEW S, NEW a, NEW b, NEW c, <<a, b>> \in R, <<b, c>> \in S
  PROVE  <<a, c>> \in Compose(R, S)
<1> DEFINE x == <<<<a, b>>, <<b, c>>>>
<1>1. x \in R \X S /\ x[1][2] = x[2][1] /\ x[1][1] = a /\ x[2][2] = c
  OBVIOUS
<1>2. x \in {y \in R \X S : y[1][2] = y[2][1]}
  BY <1>1
<1> HIDE DEF x
<1> QED
  BY <1>1, <1>2 DEF Compose

\* Composing with a reflexive relation loses nothing.
LEMMA ComposeLifts ==
  ASSUME NEW R, \A s \in TransactionStates : <<s, s>> \in R
  PROVE  /\ \A s \in TransactionStates : <<s, s>> \in Compose(R, R)
         /\ \A s \in TransactionStates : \A u : <<s, u>> \in R => <<s, u>> \in Compose(R, R)
  BY ComposePair

LEMMA ReachableSteps ==
  /\ \A s \in TransactionStates : Reachable(s, s)
  /\ \A s, u : <<s, u>> \in PublishedSteps \cup RecoverySteps => Reachable(s, u)
<1> DEFINE one == ReflexiveTransitions
           two == Compose(one, one)
           four == Compose(two, two)
           eight == Compose(four, four)
           sixteen == Compose(eight, eight)
<1>1. \A s, u : Reachable(s, u) <=> <<s, u>> \in sixteen
  BY DEF Reachable, ReachableTransitions
<1>2. \A s \in TransactionStates : <<s, s>> \in one
  BY DEF ReflexiveTransitions
<1>3. /\ <<"created", "active">> \in one /\ <<"created", "read_only_active">> \in one
      /\ <<"created", "rolling_back">> \in one /\ <<"active", "rolling_back">> \in one
      /\ <<"read_only_active", "rolling_back">> \in one
      /\ <<"prepared", "rolling_back">> \in one
      /\ <<"rolling_back", "rolled_back">> \in one
      /\ <<"active", "preparing">> \in one /\ <<"preparing", "prepared">> \in one
      /\ <<"prepared", "committing">> \in one
      /\ <<"read_only_active", "committing">> \in one
      /\ <<"committing", "committed">> \in one
      /\ <<"committed", "archived">> \in one /\ <<"rolled_back", "archived">> \in one
      /\ <<"preparing", "rolling_back">> \in one /\ <<"limbo", "recovering">> \in one
      /\ <<"recovering", "committed">> \in one /\ <<"recovering", "rolled_back">> \in one
      /\ <<"recovering", "failed_terminal">> \in one
  BY DEF ReflexiveTransitions, BuiltinTransactionStateTransitions, RecoveryOnlyTransitions
<1> HIDE DEF one
<1>4. /\ <<"created", "rolled_back">> \in two /\ <<"active", "rolled_back">> \in two
      /\ <<"read_only_active", "rolled_back">> \in two
      /\ <<"prepared", "rolled_back">> \in two /\ <<"active", "prepared">> \in two
      /\ <<"prepared", "committed">> \in two
      /\ <<"read_only_active", "committed">> \in two
      /\ <<"preparing", "rolled_back">> \in two /\ <<"limbo", "committed">> \in two
      /\ <<"limbo", "rolled_back">> \in two /\ <<"limbo", "failed_terminal">> \in two
  BY <1>3, ComposePair
<1>5. { "created", "active", "committed", "rolled_back", "prepared", "read_only_active",
        "preparing", "committing", "rolling_back", "limbo" }
         \subseteq TransactionStates
  BY DEF TransactionStates
<1>6. /\ <<"created", "active">> \in two /\ <<"created", "read_only_active">> \in two
      /\ <<"committed", "archived">> \in two /\ <<"rolled_back", "archived">> \in two
      /\ <<"rolling_back", "rolled_back">> \in two /\ <<"committing", "committed">> \in two
      /\ \A s \in TransactionStates : <<s, s>> \in two
  BY <1>2, <1>3, <1>5, ComposeLifts
<1> HIDE DEF two
<1>7. <<"active", "committed">> \in four
  BY <1>4, ComposePair
<1>8. /\ \A s \in TransactionStates : <<s, s>> \in four
      /\ \A s \in TransactionStates : \A u : <<s, u>> \in two => <<s, u>> \in four
  BY <1>6, ComposeLifts
<1> HIDE DEF four
<1>9. /\ \A s \in TransactionStates : <<s, s>> \in eight
      /\ \A s \in TransactionStates : \A u : <<s, u>> \in four => <<s, u>> \in eight
  BY <1>8, ComposeLifts
<1> HIDE DEF eight
<1>10. /\ \A s \in TransactionStates : <<s, s>> \in sixteen
       /\ \A s \in TransactionStates : \A u : <<s, u>> \in eight => <<s, u>> \in sixteen
  BY <1>9, ComposeLifts
<1> HIDE DEF sixteen
<1>11. \A s, u : <<s, u>> \in PublishedSteps \cup RecoverySteps =>
          <<s, u>> \in four /\ s \in TransactionStates
  BY <1>4, <1>5, <1>6, <1>7, <1>8 DEF PublishedSteps, RecoverySteps
<1> QED
  BY <1>1, <1>9, <1>10, <1>11

-----------------------------------------------------------------------------
(***************************************************************************)
(* Entries.                                                                *)
(***************************************************************************)
LEMMA NoEntryPublished ==
  NoEntry \in TransactionInventoryEntry /\ PublishedEntry(NoEntry) /\ Ended(NoEntry)
  BY InventoryLimits DEF NoEntry, TransactionInventoryEntry, TransactionStates,
     PublishedEntry, PublishedStates, Ended, InventoryVisibilityState,
     HasCommittedInventoryOutcome

LEMMA BegunEntryPublished ==
  ASSUME NEW i \in LocalTransactionInventory,
         NEW s \in {"active", "read_only_active"}, NEW stable \in BOOLEAN
  PROVE  LET e == BegunEntry(i, s, stable) IN
         /\ e \in TransactionInventoryEntry
         /\ PublishedEntry(e)
         /\ e.state = s
         /\ StartingEntry(e) \in TransactionInventoryEntry
         /\ PublishedEntry(StartingEntry(e))
         /\ ~e.rollbackOnly
         /\ e.beginCommitSequence = i.nextCommit - 1
         /\ e.commitSequence = 0
         /\ StartingEntry(e).state = "created"
         /\ \A n : EntryMoves(StartingEntry(e), e, n)
<1> DEFINE e == BegunEntry(i, s, stable)
<1>1. i.nextCommit - 1 \in 0 .. MaxCommitSequence
  BY InventoryLimits DEF LocalTransactionInventory
<1>2. e \in TransactionInventoryEntry
  <2>1. \A n \in 0 .. MaxCommitSequence :
          [NoEntry EXCEPT !.state = s, !.beginCommitSequence = n, !.stableSnapshot = stable]
             \in TransactionInventoryEntry
    BY NoEntryPublished DEF TransactionInventoryEntry, TransactionStates
  <2> QED
    BY <1>1, <2>1 DEF BegunEntry
<1>3. /\ e.state = s /\ e.archivedFrom = "none" /\ e.rollbackOnly = FALSE
      /\ e.beginCommitSequence = i.nextCommit - 1 /\ e.commitSequence = 0
  BY DEF BegunEntry, NoEntry
<1>4. /\ StartingEntry(e) \in TransactionInventoryEntry
      /\ StartingEntry(e).state = "created"
      /\ StartingEntry(e).archivedFrom = e.archivedFrom
      /\ StartingEntry(e).rollbackOnly = e.rollbackOnly
      /\ StartingEntry(e).beginCommitSequence = e.beginCommitSequence
      /\ StartingEntry(e).commitSequence = e.commitSequence
      /\ StartingEntry(e).evidenceWritten = e.evidenceWritten
      /\ StartingEntry(e).stableSnapshot = e.stableSnapshot
  BY <1>2 DEF StartingEntry, TransactionInventoryEntry, TransactionStates
<1> HIDE DEF e
<1>5. \A n : EntryMoves(StartingEntry(e), e, n)
  BY <1>3, <1>4 DEF EntryMoves, PublishedSteps
<1> QED
  BY <1>2, <1>3, <1>4, <1>5 DEF PublishedEntry, PublishedStates, e

LEMMA PreparedEntryPublished ==
  ASSUME NEW e \in TransactionInventoryEntry, PublishedEntry(e), e.state = "active"
  PROVE  /\ PreparedEntry(e) \in TransactionInventoryEntry
         /\ PreparedEntry(e).state = "prepared"
         /\ PublishedEntry(PreparedEntry(e))
         /\ \A n : EntryMoves(e, PreparedEntry(e), n)
<1>1. /\ PreparedEntry(e) \in TransactionInventoryEntry
      /\ PreparedEntry(e).state = "prepared"
      /\ PreparedEntry(e).archivedFrom = e.archivedFrom
      /\ PreparedEntry(e).rollbackOnly = e.rollbackOnly
      /\ PreparedEntry(e).beginCommitSequence = e.beginCommitSequence
      /\ PreparedEntry(e).stableSnapshot = e.stableSnapshot
      /\ PreparedEntry(e).commitSequence = e.commitSequence
      /\ e.evidenceWritten => PreparedEntry(e).evidenceWritten
  BY InventoryLimits DEF PreparedEntry, TransactionInventoryEntry, TransactionStates
<1>2. \A n : EntryMoves(e, PreparedEntry(e), n)
  BY <1>1 DEF EntryMoves, PublishedSteps
<1> QED
  BY <1>1, <1>2 DEF PublishedEntry, PublishedStates, HasCommittedInventoryOutcome,
     InventoryVisibilityState

LEMMA CommittedEntryPublished ==
  ASSUME NEW e \in TransactionInventoryEntry, PublishedEntry(e),
         e.state \in {"active", "read_only_active", "prepared"}, ~e.rollbackOnly,
         NEW n \in 0 .. MaxCommitSequence
  PROVE  /\ CommittedEntry(e, n) \in TransactionInventoryEntry
         /\ PublishedEntry(CommittedEntry(e, n))
         /\ EntryMoves(e, CommittedEntry(e, n), n)
<1>1. /\ CommittedEntry(e, n) \in TransactionInventoryEntry
      /\ CommittedEntry(e, n).state = "committed"
      /\ CommittedEntry(e, n).archivedFrom = e.archivedFrom
      /\ CommittedEntry(e, n).rollbackOnly = e.rollbackOnly
      /\ CommittedEntry(e, n).beginCommitSequence = e.beginCommitSequence
      /\ CommittedEntry(e, n).stableSnapshot = e.stableSnapshot
      /\ CommittedEntry(e, n).commitSequence = n
      /\ CommittedEntry(e, n).evidenceWritten
  BY DEF CommittedEntry, TransactionInventoryEntry, TransactionStates
<1>2. EntryMoves(e, CommittedEntry(e, n), n)
  BY <1>1 DEF EntryMoves, PublishedSteps
<1> QED
  BY <1>1, <1>2 DEF PublishedEntry, PublishedStates

LEMMA RolledBackEntryPublished ==
  ASSUME NEW e \in TransactionInventoryEntry, PublishedEntry(e),
         e.state \in {"created", "active", "read_only_active", "prepared"}
  PROVE  /\ RolledBackEntry(e) \in TransactionInventoryEntry
         /\ RolledBackEntry(e).state = "rolled_back"
         /\ \A n : EntryMoves(e, RolledBackEntry(e), n)
         /\ PublishedEntry(RolledBackEntry(e))
         /\ Ended(RolledBackEntry(e))
<1>1. /\ RolledBackEntry(e) \in TransactionInventoryEntry
      /\ RolledBackEntry(e).state = "rolled_back"
      /\ RolledBackEntry(e).archivedFrom = e.archivedFrom
      /\ RolledBackEntry(e).rollbackOnly = e.rollbackOnly
      /\ RolledBackEntry(e).beginCommitSequence = e.beginCommitSequence
      /\ RolledBackEntry(e).stableSnapshot = e.stableSnapshot
      /\ RolledBackEntry(e).commitSequence = e.commitSequence
      /\ RolledBackEntry(e).evidenceWritten
  BY DEF RolledBackEntry, TransactionInventoryEntry, TransactionStates
<1>2. \A n : EntryMoves(e, RolledBackEntry(e), n)
  BY <1>1 DEF EntryMoves, PublishedSteps
<1> QED
  BY <1>1, <1>2 DEF PublishedEntry, PublishedStates, HasCommittedInventoryOutcome,
     InventoryVisibilityState, Ended

LEMMA ArchivedEntryPublished ==
  ASSUME NEW e \in TransactionInventoryEntry, PublishedEntry(e),
         e.state \in {"committed", "rolled_back", "failed_terminal"}
  PROVE  /\ ArchivedEntry(e) \in TransactionInventoryEntry
         /\ ArchivedEntry(e).state = "archived"
         /\ \A n : EntryMoves(e, ArchivedEntry(e), n)
         /\ PublishedEntry(ArchivedEntry(e))
         /\ Ended(e) => Ended(ArchivedEntry(e))
<1>1. /\ ArchivedEntry(e) \in TransactionInventoryEntry
      /\ ArchivedEntry(e).state = "archived"
      /\ ArchivedEntry(e).archivedFrom = e.state
      /\ ArchivedEntry(e).rollbackOnly = e.rollbackOnly
      /\ ArchivedEntry(e).beginCommitSequence = e.beginCommitSequence
      /\ ArchivedEntry(e).stableSnapshot = e.stableSnapshot
      /\ ArchivedEntry(e).commitSequence = e.commitSequence
      /\ ArchivedEntry(e).evidenceWritten = e.evidenceWritten
  BY DEF ArchivedEntry, TransactionInventoryEntry, TransactionStates
<1>2. e.state \in {"committed", "rolled_back"}
  BY DEF PublishedEntry, PublishedStates
<1>3. \A n : EntryMoves(e, ArchivedEntry(e), n)
  BY <1>1, <1>2 DEF EntryMoves, PublishedSteps
<1> QED
  BY <1>1, <1>3 DEF PublishedEntry, PublishedStates, HasCommittedInventoryOutcome,
     InventoryVisibilityState, Ended

LEMMA MarkedEntryPublished ==
  ASSUME NEW e \in TransactionInventoryEntry, PublishedEntry(e), e.state = "active",
         NEW r \in BOOLEAN
  PROVE  /\ MarkedEntry(e, r) \in TransactionInventoryEntry
         /\ MarkedEntry(e, r).state = e.state
         /\ PublishedEntry(MarkedEntry(e, r))
         /\ \A n : EntryMoves(e, MarkedEntry(e, r), n)
<1>1. /\ MarkedEntry(e, r) \in TransactionInventoryEntry
      /\ MarkedEntry(e, r).state = e.state
      /\ MarkedEntry(e, r).archivedFrom = e.archivedFrom
      /\ MarkedEntry(e, r).beginCommitSequence = e.beginCommitSequence
      /\ MarkedEntry(e, r).stableSnapshot = e.stableSnapshot
      /\ MarkedEntry(e, r).commitSequence = e.commitSequence
      /\ MarkedEntry(e, r).evidenceWritten = e.evidenceWritten
  BY DEF MarkedEntry, TransactionInventoryEntry, TransactionStates
<1>2. \A n : EntryMoves(e, MarkedEntry(e, r), n)
  BY <1>1 DEF EntryMoves
<1> QED
  BY <1>1, <1>2 DEF PublishedEntry, PublishedStates, HasCommittedInventoryOutcome,
     InventoryVisibilityState

-----------------------------------------------------------------------------
(***************************************************************************)
(* Inventories.                                                            *)
(***************************************************************************)
LEMMA WithEntryValue ==
  ASSUME NEW i \in LocalTransactionInventory, NEW t \in TransactionIds,
         NEW e \in TransactionInventoryEntry
  PROVE  LET j == WithEntry(i, t, e) IN
         /\ j \in LocalTransactionInventory
         /\ j.next = i.next
         /\ j.nextCommit = i.nextCommit
         /\ j.entries[t] = e
         /\ \A u \in TransactionIds : u # t => j.entries[u] = i.entries[u]
  BY DEF WithEntry, LocalTransactionInventory

LEMMA CountersAreNaturals ==
  ASSUME NEW i \in LocalTransactionInventory
  PROVE  /\ i.next \in Nat \ {0} /\ i.nextCommit \in Nat \ {0}
         /\ \A t \in TransactionIds :
               /\ i.entries[t] \in TransactionInventoryEntry
               /\ i.entries[t].commitSequence \in Nat
               /\ i.entries[t].beginCommitSequence \in Nat
               /\ t \in Nat
  BY InventoryLimits DEF LocalTransactionInventory, TransactionInventoryEntry, TransactionIds

\* A published entry that moves as the transforms move it passes both
\* admission checks.
LEMMA EntryMovesValid ==
  ASSUME NEW i \in LocalTransactionInventory, NEW j \in LocalTransactionInventory,
         ValidateLocalTransactionInventoryStructure(i), NEW t \in TransactionIds,
         Found(i, t), PublishedEntry(i.entries[t]), PublishedEntry(j.entries[t]),
         EntryMoves(i.entries[t], j.entries[t], i.nextCommit),
         i.next <= j.next, i.nextCommit <= j.nextCommit,
         j.entries[t].state = "committed" /\ i.entries[t].state # "committed" =>
            i.nextCommit < j.nextCommit
  PROVE  /\ Found(j, t)
         /\ EntryStructureValid(j, t)
         /\ EntryEvolutionValid(i, j, t)
<1> DEFINE old == i.entries[t]
           new == j.entries[t]
           m == i.nextCommit
           n == j.nextCommit
<1>1. /\ old \in TransactionInventoryEntry /\ new \in TransactionInventoryEntry
      /\ old.commitSequence \in Nat /\ old.beginCommitSequence \in Nat
      /\ m \in Nat \ {0} /\ n \in Nat \ {0}
      /\ i.next \in Nat /\ j.next \in Nat /\ t \in Nat
  BY CountersAreNaturals
<1>2. old.state # "none"
  BY DEF Found
<1>3. EntryStructureValid(i, t)
  BY DEF ValidateLocalTransactionInventoryStructure
<1>4. /\ old.beginCommitSequence < m /\ t < i.next
      /\ HasCommittedInventoryOutcome(old) =>
            /\ old.commitSequence # 0 /\ old.commitSequence < m
            /\ old.commitSequence > old.beginCommitSequence
      /\ ~HasCommittedInventoryOutcome(old) => old.commitSequence = 0
  BY <1>3 DEF EntryStructureValid
<1>5. /\ new.beginCommitSequence = old.beginCommitSequence
      /\ new.stableSnapshot = old.stableSnapshot
      /\ old.evidenceWritten => new.evidenceWritten
      /\ new.state = old.state \/ <<old.state, new.state>> \in PublishedSteps
      /\ new.archivedFrom = IF new.state = "archived" /\ old.state # "archived"
                            THEN old.state ELSE old.archivedFrom
      /\ new.commitSequence = IF new.state = "committed" /\ old.state # "committed"
                              THEN m ELSE old.commitSequence
  BY DEF EntryMoves
<1>6. /\ old.state = "archived" => old.archivedFrom \in {"committed", "rolled_back"}
      /\ old.state # "archived" => old.archivedFrom = "none"
      /\ new.state = "archived" => new.archivedFrom \in {"committed", "rolled_back"}
      /\ new.state # "archived" => new.archivedFrom = "none"
  BY DEF PublishedEntry
<1>7. new.state = "committed" /\ old.state # "committed" => m < n
  OBVIOUS
<1>8. m <= n /\ i.next <= j.next
  OBVIOUS
<1>9. old.state \in TransactionStates
  BY <1>1 DEF TransactionInventoryEntry
<1>10. Found(j, t) <=> new.state # "none"
  BY DEF Found
<1>11. /\ EntryStructureValid(j, t) <=>
            /\ new.beginCommitSequence < n
            /\ IF new.state = "archived"
               THEN new.archivedFrom \in {"committed", "rolled_back", "failed_terminal"}
               ELSE new.archivedFrom = "none"
            /\ IF HasCommittedInventoryOutcome(new)
               THEN /\ new.commitSequence # 0
                    /\ new.commitSequence < n
                    /\ new.commitSequence > new.beginCommitSequence
               ELSE new.commitSequence = 0
            /\ t < j.next
  BY DEF EntryStructureValid
<1>12. EntryEvolutionValid(i, j, t) <=>
         LET oldOutcome == InventoryVisibilityState(old)
             newOutcome == InventoryVisibilityState(new)
         IN
         /\ old.beginCommitSequence = new.beginCommitSequence
         /\ old.stableSnapshot = new.stableSnapshot
         /\ old.evidenceWritten => new.evidenceWritten
         /\ IsTerminalTransactionState(oldOutcome) =>
               /\ oldOutcome = newOutcome
               /\ old.commitSequence = new.commitSequence
         /\ Reachable(old.state, new.state)
         /\ (new.state = "archived" /\ old.state # "archived") =>
               Reachable(old.state, newOutcome)
         /\ (~HasCommittedInventoryOutcome(old) /\ HasCommittedInventoryOutcome(new)) =>
               new.commitSequence >= m
  BY DEF EntryEvolutionValid
<1> HIDE DEF old, new, m, n
<1>13. new.state # "none"
  BY <1>2, <1>5 DEF PublishedSteps
<1>14. /\ HasCommittedInventoryOutcome(old) <=>
            \/ old.state = "committed"
            \/ old.state = "archived" /\ old.archivedFrom = "committed"
       /\ HasCommittedInventoryOutcome(new) <=>
            \/ new.state = "committed"
            \/ new.state = "archived" /\ new.archivedFrom = "committed"
  BY <1>6 DEF HasCommittedInventoryOutcome, InventoryVisibilityState
<1>15. HasCommittedInventoryOutcome(new) <=>
         \/ HasCommittedInventoryOutcome(old)
         \/ new.state = "committed" /\ old.state # "committed"
  BY <1>5, <1>6, <1>14 DEF PublishedSteps
<1>16. HasCommittedInventoryOutcome(old) =>
          ~(new.state = "committed" /\ old.state # "committed")
  BY <1>5, <1>14 DEF PublishedSteps
<1>17. EntryStructureValid(j, t)
  BY <1>1, <1>4, <1>5, <1>6, <1>7, <1>8, <1>11, <1>15, <1>16
<1>18. /\ IsTerminalTransactionState(InventoryVisibilityState(old)) =>
             /\ InventoryVisibilityState(old) = InventoryVisibilityState(new)
             /\ old.commitSequence = new.commitSequence
       /\ new.state = "archived" /\ old.state # "archived" =>
             InventoryVisibilityState(new) = old.state
  BY <1>5, <1>6 DEF IsTerminalTransactionState, InventoryVisibilityState, PublishedSteps
<1>19. Reachable(old.state, new.state) /\ Reachable(old.state, old.state)
  BY <1>5, <1>9, ReachableSteps
<1>20. ~HasCommittedInventoryOutcome(old) /\ HasCommittedInventoryOutcome(new) =>
          new.commitSequence >= m
  BY <1>1, <1>5, <1>15
<1>21. EntryEvolutionValid(i, j, t)
  BY <1>5, <1>12, <1>18, <1>19, <1>20
<1> QED
  BY <1>10, <1>13, <1>17, <1>21

\* What may become of the entry of t between two publications.
EntryStep(i, j, t) ==
    \/ j.entries[t] = i.entries[t]
    \/ /\ ~Found(j, t) /\ Found(i, t)
       /\ InventoryVisibilityState(i.entries[t]) \in {"committed", "rolled_back"}
    \/ /\ Found(j, t) /\ ~Found(i, t)
       /\ t >= i.next
       /\ EntryStructureValid(j, t)
       /\ HasCommittedInventoryOutcome(j.entries[t]) =>
             j.entries[t].commitSequence >= i.nextCommit
    \/ /\ Found(j, t) /\ Found(i, t)
       /\ EntryStructureValid(j, t)
       /\ EntryEvolutionValid(i, j, t)

NewlyCommitted(i, j, t) ==
    /\ Found(j, t) /\ HasCommittedInventoryOutcome(j.entries[t])
    /\ ~(Found(i, t) /\ HasCommittedInventoryOutcome(i.entries[t]))

\* If every entry takes such a step and the new commits have numbers of their
\* own, the publication is admitted.
LEMMA EvolutionFromCommits ==
  ASSUME NEW i \in LocalTransactionInventory, NEW j \in LocalTransactionInventory,
         ValidateLocalTransactionInventoryStructure(i),
         i.next <= j.next, i.nextCommit <= j.nextCommit,
         \A t \in TransactionIds : EntryStep(i, j, t),
         \A t, u \in TransactionIds :
            /\ NewlyCommitted(i, j, t) /\ NewlyCommitted(i, j, u)
            /\ j.entries[t].commitSequence = j.entries[u].commitSequence
            => t = u
  PROVE  ValidateLocalTransactionInventoryEvolution(i, j)
<1>1. /\ i.next \in Nat \ {0} /\ i.nextCommit \in Nat \ {0}
      /\ j.next \in Nat \ {0} /\ j.nextCommit \in Nat \ {0}
      /\ \A t \in TransactionIds :
            /\ i.entries[t].commitSequence \in Nat /\ j.entries[t].commitSequence \in Nat
            /\ i.entries[t].beginCommitSequence \in Nat /\ t \in Nat
            /\ i.entries[t].state \in TransactionStates
  BY CountersAreNaturals DEF TransactionInventoryEntry
<1>2. ASSUME NEW t \in TransactionIds, Found(i, t), j.entries[t] = i.entries[t]
      PROVE  EntryStructureValid(j, t) /\ EntryEvolutionValid(i, j, t)
  <2>1. EntryStructureValid(i, t)
    BY <1>2 DEF ValidateLocalTransactionInventoryStructure
  <2>2. EntryStructureValid(j, t)
    BY <1>1, <1>2, <2>1 DEF EntryStructureValid
  <2>3. Reachable(i.entries[t].state, i.entries[t].state)
    BY <1>1, ReachableSteps
  <2>4. EntryEvolutionValid(i, j, t)
    BY <1>2, <2>3 DEF EntryEvolutionValid
  <2> QED
    BY <2>2, <2>4
<1>3. ASSUME NEW t \in TransactionIds, Found(j, t), Found(i, t)
      PROVE  EntryStructureValid(j, t) /\ EntryEvolutionValid(i, j, t)
  BY <1>2, <1>3 DEF EntryStep
<1>4. ASSUME NEW t \in TransactionIds, Found(j, t), ~Found(i, t)
      PROVE  /\ t >= i.next
             /\ EntryStructureValid(j, t)
             /\ HasCommittedInventoryOutcome(j.entries[t]) =>
                   j.entries[t].commitSequence >= i.nextCommit
  BY <1>4 DEF EntryStep, Found
<1>5. ASSUME NEW t \in TransactionIds, ~Found(j, t), Found(i, t)
      PROVE  InventoryVisibilityState(i.entries[t]) \in {"committed", "rolled_back"}
  BY <1>5 DEF EntryStep, Found
<1>6. ASSUME NEW t \in TransactionIds, NewlyCommitted(i, j, t)
      PROVE  j.entries[t].commitSequence >= i.nextCommit
  <2>1. Found(j, t) /\ HasCommittedInventoryOutcome(j.entries[t])
    BY <1>6 DEF NewlyCommitted
  <2>2. CASE Found(i, t)
    <3>1. EntryEvolutionValid(i, j, t) /\ ~HasCommittedInventoryOutcome(i.entries[t])
      BY <1>3, <1>6, <2>1, <2>2 DEF NewlyCommitted
    <3> QED
      BY <2>1, <3>1 DEF EntryEvolutionValid
  <2>3. CASE ~Found(i, t)
    BY <1>4, <2>1, <2>3
  <2> QED
    BY <2>1, <2>2, <2>3
<1>7. ASSUME NEW t \in TransactionIds, Found(j, t), HasCommittedInventoryOutcome(j.entries[t]),
             ~NewlyCommitted(i, j, t)
      PROVE  /\ Found(i, t) /\ HasCommittedInventoryOutcome(i.entries[t])
             /\ j.entries[t].commitSequence = i.entries[t].commitSequence
             /\ j.entries[t].commitSequence < i.nextCommit
  <2>1. Found(i, t) /\ HasCommittedInventoryOutcome(i.entries[t])
    BY <1>7 DEF NewlyCommitted
  <2>2. EntryEvolutionValid(i, j, t) /\ EntryStructureValid(i, t)
    BY <1>3, <1>7, <2>1 DEF ValidateLocalTransactionInventoryStructure
  <2>3. IsTerminalTransactionState(InventoryVisibilityState(i.entries[t]))
    BY <2>1 DEF HasCommittedInventoryOutcome, IsTerminalTransactionState
  <2>4. j.entries[t].commitSequence = i.entries[t].commitSequence
    BY <2>2, <2>3 DEF EntryEvolutionValid
  <2>5. i.entries[t].commitSequence < i.nextCommit
    BY <2>1, <2>2 DEF EntryStructureValid
  <2> QED
    BY <2>1, <2>4, <2>5
<1>8. CommitSequencesUnique(j)
  <2> SUFFICES ASSUME NEW t \in TransactionIds, NEW u \in TransactionIds,
                      Found(j, t), HasCommittedInventoryOutcome(j.entries[t]),
                      Found(j, u), HasCommittedInventoryOutcome(j.entries[u]),
                      j.entries[t].commitSequence = j.entries[u].commitSequence
               PROVE  t = u
    BY DEF CommitSequencesUnique
  <2>1. CASE NewlyCommitted(i, j, t) /\ NewlyCommitted(i, j, u)
    BY <2>1
  <2>2. CASE ~NewlyCommitted(i, j, t) /\ ~NewlyCommitted(i, j, u)
    <3>1. CommitSequencesUnique(i)
      BY DEF ValidateLocalTransactionInventoryStructure
    <3> QED
      BY <1>7, <2>2, <3>1 DEF CommitSequencesUnique
  <2>3. CASE NewlyCommitted(i, j, t) /\ ~NewlyCommitted(i, j, u)
    BY <1>1, <1>6, <1>7, <2>3
  <2>4. CASE ~NewlyCommitted(i, j, t) /\ NewlyCommitted(i, j, u)
    BY <1>1, <1>6, <1>7, <2>4
  <2> QED
    BY <2>1, <2>2, <2>3, <2>4
<1>9. ValidateLocalTransactionInventoryStructure(j)
  BY <1>1, <1>3, <1>4, <1>8 DEF ValidateLocalTransactionInventoryStructure
<1>10. j.next >= i.next /\ j.nextCommit >= i.nextCommit
  BY <1>1
<1> QED
  BY <1>3, <1>4, <1>5, <1>9, <1>10 DEF ValidateLocalTransactionInventoryEvolution

\* The transforms of the engine commit at most one transaction.
LEMMA EvolutionFromEntries ==
  ASSUME NEW i \in LocalTransactionInventory, NEW j \in LocalTransactionInventory,
         ValidateLocalTransactionInventoryStructure(i),
         i.next <= j.next, i.nextCommit <= j.nextCommit,
         \A t \in TransactionIds : EntryStep(i, j, t),
         NEW w, \A t \in TransactionIds : NewlyCommitted(i, j, t) => t = w
  PROVE  ValidateLocalTransactionInventoryEvolution(i, j)
<1>1. \A t, u \in TransactionIds : NewlyCommitted(i, j, t) /\ NewlyCommitted(i, j, u) => t = u
  OBVIOUS
<1> QED
  BY <1>1, EvolutionFromCommits

\* A transform of one entry that does not revive it.
LEMMA ChangeSuccessor ==
  ASSUME NEW i, Published(i), NEW t \in TransactionIds, Found(i, t),
         NEW j \in LocalTransactionInventory,
         j.next = i.next, i.nextCommit <= j.nextCommit,
         \A u \in TransactionIds : u # t => j.entries[u] = i.entries[u],
         PublishedEntry(j.entries[t]),
         EntryMoves(i.entries[t], j.entries[t], i.nextCommit),
         j.entries[t].state = "committed" /\ i.entries[t].state # "committed" =>
            i.nextCommit < j.nextCommit,
         Ended(i.entries[t]) => Ended(j.entries[t])
  PROVE  Successor(i, j)
<1>1. i \in LocalTransactionInventory /\ ValidateLocalTransactionInventoryStructure(i)
  BY DEF Published
<1>2. i.next \in Nat /\ i.next <= j.next
  BY <1>1, CountersAreNaturals
<1>3. ~(t >= i.next) /\ PublishedEntry(i.entries[t])
  BY DEF Published, Found
<1>4. Found(j, t) /\ EntryStructureValid(j, t) /\ EntryEvolutionValid(i, j, t)
  BY <1>1, <1>2, <1>3, EntryMovesValid
<1>5. \A u \in TransactionIds : EntryStep(i, j, u)
  BY <1>4 DEF EntryStep
<1>6. \A u \in TransactionIds : NewlyCommitted(i, j, u) => u = t
  BY DEF NewlyCommitted, Found
<1>7. ValidateLocalTransactionInventoryEvolution(i, j)
  BY <1>1, <1>2, <1>5, <1>6, EvolutionFromEntries
<1>8. Published(j)
  BY <1>3, <1>7 DEF Published, ValidateLocalTransactionInventoryEvolution
<1>9. \A u \in TransactionIds : Ended(i.entries[u]) => Ended(j.entries[u])
  OBVIOUS
<1> QED
  BY <1>2, <1>7, <1>8, <1>9 DEF Successor

LEMMA UpdateSuccessor ==
  ASSUME NEW i, Published(i), NEW t \in TransactionIds, Found(i, t),
         NEW e \in TransactionInventoryEntry, PublishedEntry(e),
         EntryMoves(i.entries[t], e, i.nextCommit),
         e.state # "committed",
         Ended(i.entries[t]) => Ended(e)
  PROVE  Successor(i, WithEntry(i, t, e))
<1> DEFINE j == WithEntry(i, t, e)
<1>1. i \in LocalTransactionInventory /\ i.nextCommit \in Nat
  BY CountersAreNaturals DEF Published
<1>2. /\ j \in LocalTransactionInventory
      /\ j.next = i.next /\ j.nextCommit = i.nextCommit
      /\ j.entries[t] = e
      /\ \A u \in TransactionIds : u # t => j.entries[u] = i.entries[u]
  BY <1>1, WithEntryValue
<1> HIDE DEF j
<1>3. Successor(i, j)
  BY <1>1, <1>2, ChangeSuccessor
<1> QED
  BY <1>3 DEF j

\* BEGIN, and its two publications.
LEMMA BeginSuccessor ==
  ASSUME NEW i, Published(i), CanBeginLocalTransaction(i),
         NEW s \in {"active", "read_only_active"}, NEW stable \in BOOLEAN
  PROVE  LET begun == BeginLocalTransactionWithState(i, s, stable) IN
         /\ Successor(i, begun)
         /\ Successor(i, StartingInventory(i, begun))
         /\ Successor(StartingInventory(i, begun), begun)
         /\ i.next \in TransactionIds
         /\ begun.entries[i.next] = BegunEntry(i, s, stable)
         /\ begun.nextCommit = i.nextCommit
         /\ \A t \in TransactionIds : t # i.next => begun.entries[t] = i.entries[t]
<1> DEFINE begun == BeginLocalTransactionWithState(i, s, stable)
           e == BegunEntry(i, s, stable)
           start == StartingInventory(i, begun)
<1>1. i \in LocalTransactionInventory /\ i.next \in 1 .. MaxLocalTransactionId
  BY DEF Published, LocalTransactionInventory
<1>2. i.next \in TransactionIds /\ i.next + 1 \in 1 .. MaxLocalTransactionId
  BY <1>1, InventoryLimits DEF CanBeginLocalTransaction, TransactionIds
<1>3. /\ e \in TransactionInventoryEntry
      /\ PublishedEntry(e)
      /\ e.state = s
      /\ StartingEntry(e) \in TransactionInventoryEntry
      /\ PublishedEntry(StartingEntry(e))
      /\ StartingEntry(e).state = "created"
      /\ \A n : EntryMoves(StartingEntry(e), e, n)
      /\ e.beginCommitSequence = i.nextCommit - 1 /\ e.commitSequence = 0
  BY <1>1, BegunEntryPublished
<1> HIDE DEF e
<1>4. /\ begun \in LocalTransactionInventory
      /\ begun.next = i.next + 1
      /\ begun.nextCommit = i.nextCommit
      /\ begun.entries[i.next] = e
      /\ \A t \in TransactionIds : t # i.next => begun.entries[t] = i.entries[t]
  <2> DEFINE j == WithEntry(i, i.next, e)
  <2>1. /\ j \in LocalTransactionInventory
        /\ j.nextCommit = i.nextCommit
        /\ j.entries[i.next] = e
        /\ \A t \in TransactionIds : t # i.next => j.entries[t] = i.entries[t]
    BY <1>1, <1>2, <1>3, WithEntryValue
  <2>2. begun = [j EXCEPT !.next = i.next + 1]
    BY DEF BeginLocalTransactionWithState, e
  <2> HIDE DEF j, begun
  <2> QED
    BY <1>2, <2>1, <2>2 DEF LocalTransactionInventory
<1>5. \A t \in TransactionIds : NewlyActive(i, begun, t) <=> t = i.next
  BY <1>1, <1>2, <1>3, <1>4 DEF NewlyActive, Published, TransactionIds
<1> HIDE DEF begun
<1>6. /\ start \in LocalTransactionInventory
      /\ start.next = begun.next /\ start.nextCommit = begun.nextCommit
      /\ start.entries[i.next] = StartingEntry(e)
      /\ \A t \in TransactionIds : t # i.next => start.entries[t] = i.entries[t]
  <2> DEFINE f == [t \in TransactionIds |->
                      IF NewlyActive(i, begun, t) THEN StartingEntry(begun.entries[t])
                                                  ELSE begun.entries[t]]
  <2>1. start = [begun EXCEPT !.entries = f]
    BY DEF StartingInventory
  <2>2. /\ f[i.next] = StartingEntry(e)
        /\ \A t \in TransactionIds : t # i.next => f[t] = i.entries[t]
    BY <1>2, <1>4, <1>5
  <2>3. f \in [TransactionIds -> TransactionInventoryEntry]
    BY <1>1, <1>3, <2>2 DEF LocalTransactionInventory
  <2> HIDE DEF f, start
  <2> QED
    BY <1>4, <2>1, <2>2, <2>3 DEF LocalTransactionInventory
<1> HIDE DEF start
<1>7. \A t \in TransactionIds : t >= i.next + 1 => t # i.next /\ t >= i.next
  BY <1>1 DEF TransactionIds
<1>8. /\ i.next \in Nat /\ i.nextCommit \in Nat /\ i.nextCommit >= 1
      /\ ValidateLocalTransactionInventoryStructure(i)
  BY <1>1, CountersAreNaturals DEF Published
<1>9. /\ ~Found(i, i.next) /\ i.next >= i.next
      /\ i.next <= begun.next /\ i.next <= start.next /\ start.next <= begun.next
      /\ i.nextCommit <= begun.nextCommit /\ i.nextCommit <= start.nextCommit
      /\ start.nextCommit <= begun.nextCommit
      /\ i.next < begun.next /\ i.next < start.next
  BY <1>2, <1>4, <1>6, <1>8 DEF Published, Found
<1>10. /\ ~HasCommittedInventoryOutcome(e) /\ ~HasCommittedInventoryOutcome(StartingEntry(e))
       /\ e.archivedFrom = "none" /\ StartingEntry(e).archivedFrom = "none"
       /\ e.state # "archived" /\ StartingEntry(e).state # "archived"
       /\ e.state # "none" /\ StartingEntry(e).state # "none"
       /\ e.state # "committed"
  BY <1>3 DEF PublishedEntry, HasCommittedInventoryOutcome, InventoryVisibilityState
<1>11. /\ StartingEntry(e).beginCommitSequence = e.beginCommitSequence
       /\ StartingEntry(e).commitSequence = e.commitSequence
  BY <1>3, <1>10 DEF EntryMoves
<1>12. Found(begun, i.next) /\ EntryStructureValid(begun, i.next)
  BY <1>3, <1>4, <1>8, <1>9, <1>10 DEF Found, EntryStructureValid
<1>13. Found(start, i.next) /\ EntryStructureValid(start, i.next)
  BY <1>3, <1>4, <1>6, <1>8, <1>9, <1>10, <1>11 DEF Found, EntryStructureValid
<1>14. ValidateLocalTransactionInventoryEvolution(i, begun)
  <2>1. \A t \in TransactionIds : EntryStep(i, begun, t)
    BY <1>4, <1>9, <1>10, <1>12 DEF EntryStep
  <2>2. \A t \in TransactionIds : NewlyCommitted(i, begun, t) => t = i.next
    BY <1>4 DEF NewlyCommitted, Found
  <2> QED
    BY <1>1, <1>4, <1>8, <1>9, <2>1, <2>2, EvolutionFromEntries
<1>15. ValidateLocalTransactionInventoryEvolution(i, start)
  <2>1. \A t \in TransactionIds : EntryStep(i, start, t)
    BY <1>6, <1>9, <1>10, <1>13 DEF EntryStep
  <2>2. \A t \in TransactionIds : NewlyCommitted(i, start, t) => t = i.next
    BY <1>6 DEF NewlyCommitted, Found
  <2> QED
    BY <1>1, <1>6, <1>8, <1>9, <2>1, <2>2, EvolutionFromEntries
<1>16. Published(begun)
  BY <1>3, <1>4, <1>7, <1>14 DEF Published, ValidateLocalTransactionInventoryEvolution
<1>17. Published(start)
  BY <1>3, <1>4, <1>6, <1>7, <1>15 DEF Published, ValidateLocalTransactionInventoryEvolution
<1>18. \A t \in TransactionIds : t < i.next => t # i.next
  BY <1>1 DEF TransactionIds
<1>19. ~Ended(StartingEntry(e))
  BY <1>3, <1>10 DEF Ended, InventoryVisibilityState
<1>20. Successor(i, begun)
  BY <1>4, <1>9, <1>14, <1>16, <1>18 DEF Successor
<1>21. Successor(i, start)
  BY <1>6, <1>9, <1>15, <1>17, <1>18 DEF Successor
<1>22. Successor(start, begun)
  <2>1. \A u \in TransactionIds : u # i.next => begun.entries[u] = start.entries[u]
    BY <1>4, <1>6
  <2>2. EntryMoves(start.entries[i.next], begun.entries[i.next], start.nextCommit)
    BY <1>3, <1>4, <1>6
  <2> QED
    BY <1>2, <1>3, <1>4, <1>6, <1>9, <1>10, <1>13, <1>17, <1>19, <2>1, <2>2, ChangeSuccessor
<1> QED
  BY <1>2, <1>4, <1>20, <1>21, <1>22 DEF begun, start, e

\* COMMIT: the entry becomes committed and the counter advances.
LEMMA CommitSuccessor ==
  ASSUME NEW i, Published(i), NEW t \in TransactionIds, CanCommitLocalTransaction(i, t)
  PROVE  /\ Successor(i, CommitLocalTransaction(i, t))
         /\ \A u \in TransactionIds : u # t =>
               CommitLocalTransaction(i, t).entries[u] = i.entries[u]
         /\ CommitLocalTransaction(i, t).next = i.next
         /\ CommitLocalTransaction(i, t).nextCommit = i.nextCommit + 1
<1> DEFINE e == CommittedEntry(i.entries[t], i.nextCommit)
           j == WithEntry(i, t, e)
           k == CommitLocalTransaction(i, t)
<1>1. /\ i \in LocalTransactionInventory
      /\ i.entries[t] \in TransactionInventoryEntry
      /\ PublishedEntry(i.entries[t])
  BY DEF Published, LocalTransactionInventory
<1>2. /\ i.nextCommit \in 0 .. MaxCommitSequence /\ i.nextCommit + 1 \in 1 .. MaxCommitSequence
      /\ i.nextCommit \in Nat
  BY <1>1, InventoryLimits DEF CanCommitLocalTransaction, LocalTransactionInventory
<1>3. i.entries[t].state \in {"active", "read_only_active", "prepared"}
      /\ ~i.entries[t].rollbackOnly /\ Found(i, t)
  BY TransitionSources DEF CanCommitLocalTransaction
<1>4. /\ e \in TransactionInventoryEntry /\ PublishedEntry(e)
      /\ EntryMoves(i.entries[t], e, i.nextCommit)
  BY <1>1, <1>2, <1>3, CommittedEntryPublished
<1>5. ~Ended(i.entries[t])
  BY <1>1, <1>3 DEF Ended, InventoryVisibilityState, PublishedEntry
<1> HIDE DEF e
<1>6. /\ j \in LocalTransactionInventory /\ j.next = i.next
      /\ j.entries[t] = e
      /\ \A u \in TransactionIds : u # t => j.entries[u] = i.entries[u]
  BY <1>1, <1>4, WithEntryValue
<1>7. k = [j EXCEPT !.nextCommit = i.nextCommit + 1]
  BY DEF CommitLocalTransaction, e
<1> HIDE DEF j, k
<1>8. /\ k \in LocalTransactionInventory
      /\ k.next = i.next /\ k.nextCommit = i.nextCommit + 1
      /\ k.entries = j.entries
  BY <1>2, <1>6, <1>7 DEF LocalTransactionInventory
<1>9. i.nextCommit < k.nextCommit /\ i.nextCommit <= k.nextCommit
  BY <1>2, <1>8
<1>10. Successor(i, k)
  BY <1>3, <1>4, <1>5, <1>6, <1>8, <1>9, ChangeSuccessor
<1> QED
  BY <1>6, <1>8, <1>10 DEF k

\* A lifecycle transaction begins and commits in one publication.
LEMMA LifecycleSuccessor ==
  ASSUME NEW i, Published(i), CanBeginLocalTransaction(i),
         CanCommitLocalTransaction(BeginLocalTransactionWithState(i, "active", FALSE), i.next)
  PROVE  Successor(i, CommitLocalTransaction(
                         BeginLocalTransactionWithState(i, "active", FALSE), i.next))
<1> DEFINE begun == BeginLocalTransactionWithState(i, "active", FALSE)
           j == CommitLocalTransaction(begun, i.next)
<1>1. /\ Successor(i, begun) /\ i.next \in TransactionIds
      /\ begun.nextCommit = i.nextCommit
      /\ \A t \in TransactionIds : t # i.next => begun.entries[t] = i.entries[t]
  BY BeginSuccessor
<1> HIDE DEF begun
<1>2. Published(begun)
  BY <1>1 DEF Successor
<1>3. /\ Successor(begun, j) /\ j.next = begun.next /\ j.nextCommit = begun.nextCommit + 1
      /\ \A t \in TransactionIds : t # i.next => j.entries[t] = begun.entries[t]
  BY <1>1, <1>2, CommitSuccessor DEF begun
<1> HIDE DEF j
<1>4. /\ i \in LocalTransactionInventory /\ ValidateLocalTransactionInventoryStructure(i)
      /\ begun \in LocalTransactionInventory /\ Published(j)
      /\ j \in LocalTransactionInventory /\ ValidateLocalTransactionInventoryStructure(j)
  BY <1>2, <1>3 DEF Published, Successor
<1>5. /\ i.next \in Nat /\ i.nextCommit \in Nat /\ begun.nextCommit \in Nat
      /\ \A t \in TransactionIds : t \in Nat
  BY <1>4, CountersAreNaturals
<1>6. i.next <= j.next /\ i.nextCommit <= j.nextCommit
  BY <1>1, <1>3, <1>5 DEF Successor
<1>7. ~Found(i, i.next)
  BY <1>1, <1>5 DEF Published, Found
<1>8. EntryStep(i, j, i.next)
  <2>1. ASSUME Found(j, i.next), HasCommittedInventoryOutcome(j.entries[i.next])
        PROVE  j.entries[i.next].commitSequence >= i.nextCommit
    <3>1. CASE Found(begun, i.next)
      <4>1. ~HasCommittedInventoryOutcome(begun.entries[i.next])
        <5>1. begun.entries[i.next] = BegunEntry(i, "active", FALSE)
          BY BeginSuccessor DEF begun
        <5>2. BegunEntry(i, "active", FALSE).state = "active"
          BY <1>4, BegunEntryPublished
        <5> QED
          BY <5>1, <5>2 DEF HasCommittedInventoryOutcome, InventoryVisibilityState
      <4> QED
        BY <1>1, <1>3, <2>1, <3>1, <4>1
           DEF Successor, ValidateLocalTransactionInventoryEvolution, EntryEvolutionValid
    <3>2. CASE ~Found(begun, i.next)
      BY <1>1, <1>3, <2>1, <3>2 DEF Successor, ValidateLocalTransactionInventoryEvolution
    <3> QED
      BY <3>1, <3>2
  <2>2. CASE Found(j, i.next)
    BY <1>1, <1>4, <1>5, <1>7, <2>1, <2>2
       DEF EntryStep, ValidateLocalTransactionInventoryStructure
  <2>3. CASE ~Found(j, i.next)
    <3>1. begun.entries[i.next] = BegunEntry(i, "active", FALSE)
      BY BeginSuccessor DEF begun
    <3>2. BegunEntry(i, "active", FALSE).state = "active" /\ BegunEntry(i, "active", FALSE).archivedFrom = "none"
      BY <1>4, BegunEntryPublished DEF PublishedEntry
    <3>3. Found(begun, i.next) /\ InventoryVisibilityState(begun.entries[i.next]) = "active"
      BY <3>1, <3>2 DEF Found, InventoryVisibilityState
    <3> QED
      BY <1>1, <1>3, <2>3, <3>3 DEF Successor, ValidateLocalTransactionInventoryEvolution
  <2> QED
    BY <2>2, <2>3
<1>9. \A t \in TransactionIds : EntryStep(i, j, t)
  BY <1>1, <1>3, <1>8 DEF EntryStep
<1>10. \A t \in TransactionIds : NewlyCommitted(i, j, t) => t = i.next
  BY <1>1, <1>3 DEF NewlyCommitted, Found
<1>11. ValidateLocalTransactionInventoryEvolution(i, j)
  BY <1>4, <1>6, <1>9, <1>10, EvolutionFromEntries
<1>12. \A t \in TransactionIds : t < i.next /\ Ended(i.entries[t]) => Ended(j.entries[t])
  BY <1>1, <1>3, <1>5
<1> QED
  BY <1>4, <1>6, <1>11, <1>12 DEF Successor, j, begun

\* Compaction forgets entries that have been archived.
LEMMA CompactSuccessor ==
  ASSUME NEW i, Published(i), NEW h
  PROVE  Successor(i, CompactLocalTransactionInventory(i, h))
<1> DEFINE f == [t \in TransactionIds |->
                    IF CompactableEntry(i.entries[t], t, h) THEN NoEntry ELSE i.entries[t]]
           j == CompactLocalTransactionInventory(i, h)
<1>1. i \in LocalTransactionInventory /\ i.next \in Nat
  BY InventoryLimits DEF Published, LocalTransactionInventory
<1>2. \A t \in TransactionIds :
         \/ f[t] = NoEntry /\ i.entries[t].state = "archived"
         \/ f[t] = i.entries[t]
  BY DEF CompactableEntry
<1>3. f \in [TransactionIds -> TransactionInventoryEntry]
  BY <1>1, NoEntryPublished DEF LocalTransactionInventory
<1>4. j = [i EXCEPT !.entries = f]
  BY DEF CompactLocalTransactionInventory
<1> HIDE DEF f, j
<1>5. /\ j \in LocalTransactionInventory /\ j.next = i.next
      /\ j.nextCommit = i.nextCommit /\ j.entries = f
  BY <1>1, <1>3, <1>4 DEF LocalTransactionInventory
<1>6. NoEntry.state = "none"
  BY DEF NoEntry
<1>7. ValidateLocalTransactionInventoryEvolution(i, j)
  <2>1. ASSUME NEW t \in TransactionIds PROVE EntryStep(i, j, t)
    <3>1. CASE f[t] = i.entries[t]
      BY <1>5, <3>1 DEF EntryStep
    <3>2. CASE f[t] = NoEntry /\ i.entries[t].state = "archived"
      <4>1. ~Found(j, t) /\ Found(i, t)
        BY <1>5, <1>6, <3>2 DEF Found
      <4>2. InventoryVisibilityState(i.entries[t]) \in {"committed", "rolled_back"}
        BY <3>2 DEF Published, PublishedEntry, InventoryVisibilityState
      <4> QED
        BY <4>1, <4>2 DEF EntryStep
    <3> QED
      BY <1>2, <3>1, <3>2
  <2>2. \A t \in TransactionIds : ~NewlyCommitted(i, j, t)
    BY <1>2, <1>5, <1>6 DEF NewlyCommitted, Found
  <2>3. i.next <= j.next /\ i.nextCommit <= j.nextCommit
    BY <1>1, <1>5, CountersAreNaturals
  <2> QED
    BY <1>1, <1>5, <2>1, <2>2, <2>3, EvolutionFromEntries DEF Published
<1>8. Published(j)
  BY <1>2, <1>5, <1>6, <1>7, NoEntryPublished
     DEF Published, ValidateLocalTransactionInventoryEvolution
<1> QED
  BY <1>1, <1>2, <1>5, <1>7, <1>8, NoEntryPublished DEF Successor, j

\* Recovery of a published inventory: nothing is completed as a commit, and
\* what was interrupted ends.
LEMMA RecoverySuccessor ==
  ASSUME NEW i, Published(i)
  PROVE  LET j == ApplyLocalTransactionInventoryRecovery(i) IN
         /\ Successor(i, j)
         /\ \A t \in TransactionIds : Interrupted(i.entries[t]) => Ended(j.entries[t])
<1> DEFINE f == [t \in TransactionIds |-> RecoveredEntry(i, t)]
           j == ApplyLocalTransactionInventoryRecovery(i)
<1>1. i \in LocalTransactionInventory /\ i.next \in Nat /\ i.nextCommit \in Nat
  BY InventoryLimits DEF Published, LocalTransactionInventory
<1>2. \A t \in TransactionIds : Classification(i, t) # "complete_commit"
  BY DEF Published, PublishedEntry, PublishedStates, Classification,
     ClassifyLocalTransactionForRecovery, RolledBackByRecovery, InventoryVisibilityState
<1>3. CommitsToComplete(i) = {}
  BY <1>2 DEF CommitsToComplete
<1>4. Cardinality(CommitsToComplete(i)) = 0
  BY <1>3, FS_EmptySet
<1>5. ASSUME NEW t \in TransactionIds
      PROVE  /\ f[t] \in TransactionInventoryEntry
             /\ PublishedEntry(f[t])
             /\ Ended(i.entries[t]) => Ended(f[t])
             /\ Interrupted(i.entries[t]) => Ended(f[t])
             /\ i.entries[t].state = "none" => f[t].state = "none"
             /\ \/ f[t] = i.entries[t]
                \/ /\ Found(i, t) /\ f[t].state # "committed"
                   /\ \A n : EntryMoves(i.entries[t], f[t], n)
  <2> DEFINE e == i.entries[t]
  <2>1. e \in TransactionInventoryEntry /\ PublishedEntry(e)
    BY <1>1 DEF Published, LocalTransactionInventory
  <2>2. f[t] = IF Found(i, t) /\ Classification(i, t) = "complete_rollback"
               THEN RolledBackEntry(e) ELSE e
    BY <1>2 DEF RecoveredEntry
  <2>3. Found(i, t) /\ Classification(i, t) = "complete_rollback" =>
           e.state \in {"created", "active", "read_only_active", "prepared"}
    BY <2>1 DEF PublishedEntry, PublishedStates, Found, Classification,
       ClassifyLocalTransactionForRecovery, InventoryVisibilityState, RolledBackByRecovery
  <2>4. Interrupted(e) => Found(i, t) /\ Classification(i, t) = "complete_rollback"
    BY <2>1 DEF Interrupted, Found, PublishedEntry, Classification,
       ClassifyLocalTransactionForRecovery, InventoryVisibilityState, RolledBackByRecovery
  <2>5. e.state \in {"created", "active", "read_only_active", "prepared"} =>
           /\ RolledBackEntry(e) \in TransactionInventoryEntry
           /\ PublishedEntry(RolledBackEntry(e))
           /\ Ended(RolledBackEntry(e))
           /\ RolledBackEntry(e).state = "rolled_back"
           /\ \A n : EntryMoves(e, RolledBackEntry(e), n)
    BY <2>1, RolledBackEntryPublished
  <2> HIDE DEF f
  <2> QED
    BY <2>1, <2>2, <2>3, <2>4, <2>5 DEF Found
<1>6. f \in [TransactionIds -> TransactionInventoryEntry]
  BY <1>5
<1>7. j = [i EXCEPT !.nextCommit = i.nextCommit, !.entries = f]
  <2>1. i.nextCommit + Cardinality(CommitsToComplete(i)) = i.nextCommit
    BY <1>1, <1>4
  <2>2. j = [i EXCEPT !.nextCommit = i.nextCommit + Cardinality(CommitsToComplete(i)),
                      !.entries = f]
    BY DEF ApplyLocalTransactionInventoryRecovery
  <2> QED
    BY <2>1, <2>2
<1> HIDE DEF f, j
<1>8. /\ j \in LocalTransactionInventory /\ j.next = i.next
      /\ j.nextCommit = i.nextCommit /\ j.entries = f
  BY <1>1, <1>6, <1>7 DEF LocalTransactionInventory
<1>9. i.next <= j.next /\ i.nextCommit <= j.nextCommit
  BY <1>1, <1>8
<1>10. ValidateLocalTransactionInventoryEvolution(i, j)
  <2>1. ASSUME NEW t \in TransactionIds
        PROVE  EntryStep(i, j, t) /\ ~NewlyCommitted(i, j, t)
    <3>1. CASE f[t] = i.entries[t]
      BY <1>8, <3>1 DEF EntryStep, NewlyCommitted, Found
    <3>2. CASE f[t] # i.entries[t]
      <4>1. /\ Found(i, t) /\ j.entries[t].state # "committed"
            /\ EntryMoves(i.entries[t], j.entries[t], i.nextCommit)
            /\ PublishedEntry(i.entries[t]) /\ PublishedEntry(j.entries[t])
        BY <1>5, <1>8, <3>2 DEF Published
      <4>2. Found(j, t) /\ EntryStructureValid(j, t) /\ EntryEvolutionValid(i, j, t)
        BY <1>1, <1>8, <1>9, <4>1, EntryMovesValid DEF Published
      <4>3. ~NewlyCommitted(i, j, t)
        BY <4>1 DEF NewlyCommitted, HasCommittedInventoryOutcome, InventoryVisibilityState,
           EntryMoves, PublishedEntry
      <4> QED
        BY <4>1, <4>2, <4>3 DEF EntryStep
    <3> QED
      BY <3>1, <3>2
  <2> QED
    BY <1>1, <1>8, <1>9, <2>1, EvolutionFromEntries DEF Published
<1>11. Published(j)
  BY <1>5, <1>8, <1>10 DEF Published, ValidateLocalTransactionInventoryEvolution
<1> QED
  BY <1>1, <1>5, <1>8, <1>10, <1>11 DEF Successor, j

-----------------------------------------------------------------------------
(***************************************************************************)
(* The invariant is inductive: one lemma per action.                       *)
(***************************************************************************)
LEMMA InitInv == Init => MgaInv
<1> SUFFICES ASSUME Init PROVE MgaInv
  OBVIOUS
<1> DEFINE f == [t \in TransactionIds |-> NoEntry]
<1>1. f \in [TransactionIds -> TransactionInventoryEntry]
  BY NoEntryPublished
<1>2. inv = [next |-> 1, nextCommit |-> 1, entries |-> f]
  BY DEF Init, MakeEmptyLocalTransactionInventory
<1>3. \A t \in TransactionIds : f[t] = NoEntry
  OBVIOUS
<1> HIDE DEF f
<1>4. inv \in LocalTransactionInventory /\ inv.entries = f
  BY <1>1, <1>2, InventoryLimits DEF LocalTransactionInventory
<1>5. NoEntry.state = "none"
  BY DEF NoEntry
<1>6. \A t \in TransactionIds : ~Found(inv, t)
  BY <1>3, <1>4, <1>5 DEF Found
<1>7. ValidateLocalTransactionInventoryStructure(inv)
  BY <1>2, <1>6 DEF ValidateLocalTransactionInventoryStructure, CommitSequencesUnique
<1>8. Published(inv)
  BY <1>3, <1>4, <1>5, <1>7, NoEntryPublished DEF Published
<1> QED
  BY <1>4, <1>8 DEF Init, MgaInv, TypeOK, NoCandidate

\* The state components a published inventory's successor has to have.
LEMMA SuccessorFacts ==
  ASSUME NEW i, NEW j, Successor(i, j)
  PROVE  j \in LocalTransactionInventory /\ j.next \in Nat
  BY InventoryLimits DEF Successor, Published, LocalTransactionInventory

\* A step that publishes nothing.
LEMMA SuccessorReflexive ==
  ASSUME NEW i, Published(i)
  PROVE  Successor(i, i)
<1>1. /\ i \in LocalTransactionInventory /\ i.next \in Nat /\ i.nextCommit \in Nat
      /\ ValidateLocalTransactionInventoryStructure(i)
  BY CountersAreNaturals DEF Published
<1>2. i.next <= i.next /\ i.nextCommit <= i.nextCommit
  BY <1>1
<1>3. \A t \in TransactionIds : EntryStep(i, i, t) /\ ~NewlyCommitted(i, i, t)
  BY DEF EntryStep, NewlyCommitted
<1>4. ValidateLocalTransactionInventoryEvolution(i, i)
  BY <1>1, <1>2, <1>3, EvolutionFromEntries
<1> QED
  BY <1>2, <1>4 DEF Successor

\* Every operation of an open database publishes a successor.
LEMMA PublishInv ==
  ASSUME MgaInv, Admitted, inv' \in LocalTransactionInventory, Successor(inv, inv'),
         guardOwner' \in TransactionIds \cup {0},
         UNCHANGED <<open, candidate, lost>>
  PROVE  MgaInv' /\ Successor(inv, inv')
<1>1. TypeOK'
  BY DEF MgaInv, TypeOK
<1>2. Published(inv)'
  BY DEF Successor
<1>3. ~candidate'.present
  BY DEF Admitted, NoCandidate
<1>4. ASSUME NEW t \in lost'
      PROVE  t < inv'.next /\ Ended(inv'.entries[t])
  <2>1. t \in lost /\ t \in TransactionIds /\ t < inv.next /\ Ended(inv.entries[t])
    BY DEF MgaInv, TypeOK, Admitted
  <2>2. inv.next \in Nat /\ inv'.next \in Nat /\ inv.next <= inv'.next
    BY SuccessorFacts, InventoryLimits DEF Successor, MgaInv, TypeOK, LocalTransactionInventory
  <2> QED
    BY <2>1, <2>2 DEF Successor, TransactionIds
<1> QED
  BY <1>1, <1>2, <1>3, <1>4 DEF MgaInv, Ended, InventoryVisibilityState

LEMMA PrepareInv ==
  ASSUME MgaInv, NEW t \in TransactionIds, Prepare(t)
  PROVE  MgaInv' /\ Successor(inv, inv')
<1>1. inv.entries[t].state = "active" /\ Found(inv, t)
  BY TransitionSources DEF Prepare, CanPrepareLocalTransaction
<1>2. inv.entries[t] \in TransactionInventoryEntry /\ PublishedEntry(inv.entries[t])
  BY DEF MgaInv, Published, LocalTransactionInventory
<1>3. ~Ended(inv.entries[t])
  BY <1>1, <1>2 DEF Ended, InventoryVisibilityState, PublishedEntry
<1>4. Successor(inv, PrepareLocalTransactionDurable(inv, t))
  BY <1>1, <1>2, <1>3, PreparedEntryPublished, UpdateSuccessor
     DEF PrepareLocalTransactionDurable, MgaInv
<1> QED
  BY <1>4, PublishInv, SuccessorFacts DEF Prepare, Publish

LEMMA CommitInv ==
  ASSUME MgaInv, NEW t \in TransactionIds, Commit(t)
  PROVE  MgaInv' /\ Successor(inv, inv')
<1>1. Successor(inv, CommitLocalTransaction(inv, t))
  BY CommitSuccessor DEF Commit, MgaInv
<1> QED
  BY <1>1, PublishInv, SuccessorFacts DEF Commit, Publish

LEMMA RollbackInv ==
  ASSUME MgaInv, NEW t \in TransactionIds, Rollback(t)
  PROVE  MgaInv' /\ Successor(inv, inv')
<1>1. /\ inv.entries[t] \in TransactionInventoryEntry /\ PublishedEntry(inv.entries[t])
      /\ Found(inv, t)
  BY DEF MgaInv, Published, LocalTransactionInventory, Rollback, CanRollbackLocalTransaction
<1>2. inv.entries[t].state \in {"created", "active", "read_only_active", "prepared"}
  BY <1>1, TransitionSources
     DEF Rollback, CanRollbackLocalTransaction, PublishedEntry, PublishedStates
<1>3. Successor(inv, RollbackLocalTransaction(inv, t))
  BY <1>1, <1>2, RolledBackEntryPublished, UpdateSuccessor
     DEF RollbackLocalTransaction, MgaInv
<1> QED
  BY <1>3, PublishInv, SuccessorFacts DEF Rollback, Publish

LEMMA ArchiveInv ==
  ASSUME MgaInv, NEW t \in TransactionIds, Archive(t)
  PROVE  MgaInv' /\ Successor(inv, inv')
<1>1. inv.entries[t].state \in {"committed", "rolled_back", "failed_terminal"} /\ Found(inv, t)
  BY TransitionSources DEF Archive, CanArchiveLocalTransaction
<1>2. inv.entries[t] \in TransactionInventoryEntry /\ PublishedEntry(inv.entries[t])
  BY DEF MgaInv, Published, LocalTransactionInventory
<1>3. Successor(inv, ArchiveLocalTransaction(inv, t))
  BY <1>1, <1>2, ArchivedEntryPublished, UpdateSuccessor
     DEF ArchiveLocalTransaction, MgaInv
<1> QED
  BY <1>3, PublishInv, SuccessorFacts DEF Archive, Publish

\* The marker of a guarded write, set or released.
LEMMA MarkSuccessor ==
  ASSUME MgaInv, NEW t \in TransactionIds, inv.entries[t].state = "active", NEW r \in BOOLEAN
  PROVE  Successor(inv, WithEntry(inv, t, MarkedEntry(inv.entries[t], r)))
<1>1. inv.entries[t] \in TransactionInventoryEntry /\ PublishedEntry(inv.entries[t])
  BY DEF MgaInv, Published, LocalTransactionInventory
<1>2. Found(inv, t) /\ ~Ended(inv.entries[t])
  BY <1>1 DEF Found, Ended, InventoryVisibilityState, PublishedEntry
<1> QED
  BY <1>1, <1>2, MarkedEntryPublished, UpdateSuccessor DEF MgaInv

LEMMA BeginGuardedInv ==
  ASSUME MgaInv, NEW t \in TransactionIds, BeginGuardedWrite(t)
  PROVE  MgaInv' /\ Successor(inv, inv')
<1>1. inv.entries[t].state = "active" /\ inv' = WithEntry(inv, t, MarkedEntry(inv.entries[t], TRUE))
  BY DEF BeginGuardedWrite, MarkLocalTransactionRollbackOnly
<1>2. Successor(inv, inv')
  BY <1>1, MarkSuccessor
<1> QED
  BY <1>2, PublishInv, SuccessorFacts DEF BeginGuardedWrite

LEMMA CompleteGuardedInv ==
  ASSUME MgaInv, NEW t \in TransactionIds, CompleteGuardedWrite(t)
  PROVE  MgaInv' /\ Successor(inv, inv')
<1>1. inv.entries[t].state = "active" /\ inv' = WithEntry(inv, t, MarkedEntry(inv.entries[t], FALSE))
  BY DEF CompleteGuardedWrite, Publish
<1>2. Successor(inv, inv')
  BY <1>1, MarkSuccessor
<1> QED
  BY <1>2, PublishInv, SuccessorFacts DEF CompleteGuardedWrite, Publish

LEMMA CompactInv ==
  ASSUME MgaInv, NEW h \in 1 .. MaxLocalTransactionId, Compact(h)
  PROVE  MgaInv' /\ Successor(inv, inv')
<1>1. Successor(inv, CompactLocalTransactionInventory(inv, h))
  BY CompactSuccessor DEF MgaInv
<1> QED
  BY <1>1, PublishInv, SuccessorFacts DEF Compact, Publish

LEMMA LifecycleInv ==
  ASSUME MgaInv, CommitLifecycleTransaction
  PROVE  MgaInv' /\ Successor(inv, inv')
<1> DEFINE begun == BeginLocalTransactionWithState(inv, "active", FALSE)
<1>1. /\ CanBeginLocalTransaction(inv)
      /\ CanCommitLocalTransaction(begun, inv.next)
      /\ inv' = CommitLocalTransaction(begun, inv.next)
      /\ guardOwner' = 0
  BY DEF CommitLifecycleTransaction, Publish
<1>2. Successor(inv, inv')
  BY <1>1, LifecycleSuccessor DEF MgaInv
<1> QED
  BY <1>1, <1>2, PublishInv, SuccessorFacts DEF CommitLifecycleTransaction

LEMMA AllocateInv ==
  ASSUME MgaInv, NEW s \in {"active", "read_only_active"}, NEW stable \in BOOLEAN,
         AllocateStarting(s, stable)
  PROVE  MgaInv' /\ Successor(inv, inv')
<1> DEFINE begun == BeginLocalTransactionWithState(inv, s, stable)
<1>1. /\ CanBeginLocalTransaction(inv)
      /\ inv' = StartingInventory(inv, begun)
      /\ candidate' = Candidate(begun)
      /\ guardOwner' = 0
      /\ open = TRUE
      /\ UNCHANGED <<open, lost>>
  BY DEF AllocateStarting, Publish, Admitted, MgaInv, TypeOK
<1>2. Successor(inv, inv') /\ Successor(inv', begun)
  BY <1>1, BeginSuccessor DEF MgaInv
<1> HIDE DEF begun
<1>3. inv' \in LocalTransactionInventory /\ inv'.next \in Nat /\ begun \in LocalTransactionInventory
  BY <1>2, SuccessorFacts
<1>4. /\ candidate' \in [present : {TRUE}, inventory : LocalTransactionInventory]
      /\ candidate'.inventory = begun
  BY <1>1, <1>3 DEF Candidate
<1>5. TypeOK'
  BY <1>1, <1>3, <1>4 DEF MgaInv, TypeOK
<1>6. ASSUME NEW t \in lost'
      PROVE  t < inv'.next /\ Ended(inv'.entries[t])
  <2>1. t \in TransactionIds /\ t < inv.next /\ Ended(inv.entries[t])
    BY <1>1 DEF MgaInv, TypeOK
  <2>2. inv.next \in Nat /\ inv.next <= inv'.next
    BY <1>2, InventoryLimits DEF Successor, MgaInv, TypeOK, LocalTransactionInventory
  <2> QED
    BY <1>2, <1>3, <2>1, <2>2 DEF Successor, TransactionIds
<1> QED
  BY <1>1, <1>2, <1>4, <1>5, <1>6 DEF MgaInv, Successor

LEMMA ActivateInv ==
  ASSUME MgaInv, ActivateReserved
  PROVE  MgaInv' /\ Successor(inv, inv')
<1>1. /\ open /\ candidate.present
      /\ inv' = candidate.inventory
      /\ candidate' = NoCandidate
      /\ guardOwner' = 0
      /\ UNCHANGED <<open, lost>>
  BY DEF ActivateReserved, Publish
<1>2. Successor(inv, inv')
  BY <1>1 DEF MgaInv
<1>3. inv' \in LocalTransactionInventory /\ inv'.next \in Nat
  BY <1>2, SuccessorFacts
<1>4. TypeOK'
  BY <1>1, <1>3 DEF MgaInv, TypeOK
<1>5. ASSUME NEW t \in lost'
      PROVE  t < inv'.next /\ Ended(inv'.entries[t])
  <2>1. t \in TransactionIds /\ t < inv.next /\ Ended(inv.entries[t])
    BY <1>1 DEF MgaInv, TypeOK
  <2>2. inv.next \in Nat /\ inv.next <= inv'.next
    BY <1>2, InventoryLimits DEF Successor, MgaInv, TypeOK, LocalTransactionInventory
  <2> QED
    BY <1>2, <1>3, <2>1, <2>2 DEF Successor, TransactionIds
<1> QED
  BY <1>1, <1>2, <1>4, <1>5 DEF MgaInv, Successor, NoCandidate

LEMMA ActivationFailsInv ==
  ASSUME MgaInv, ActivationFails
  PROVE  MgaInv' /\ Successor(inv, inv')
<1>1. candidate' = NoCandidate /\ UNCHANGED <<inv, open, guardOwner, lost>>
  BY DEF ActivationFails
<1> QED
  BY <1>1, SuccessorReflexive DEF MgaInv, TypeOK, NoCandidate

LEMMA CrashInv ==
  ASSUME MgaInv, Crash
  PROVE  MgaInv' /\ Successor(inv, inv')
<1>1. /\ candidate' = NoCandidate /\ open' = FALSE /\ open = TRUE
      /\ guardOwner' = 0 /\ inv' = inv
      /\ lost' = lost \cup {t \in TransactionIds : Interrupted(inv.entries[t])}
  BY DEF Crash, Interrupted, MgaInv, TypeOK
<1>2. \A t \in TransactionIds : Interrupted(inv.entries[t]) => t < inv.next
  <2>1. inv.next \in Nat /\ \A t \in TransactionIds : t \in Nat
    BY InventoryLimits DEF MgaInv, TypeOK, LocalTransactionInventory, TransactionIds
  <2> QED
    BY <2>1 DEF Interrupted, MgaInv, Published
<1>3. TypeOK'
  BY <1>1 DEF MgaInv, TypeOK
<1>4. ~candidate'.present
  BY <1>1 DEF NoCandidate
<1>5. \A t \in lost' : t < inv.next /\ (Ended(inv.entries[t]) \/ Interrupted(inv.entries[t]))
  BY <1>1, <1>2 DEF MgaInv
<1> QED
  BY <1>1, <1>3, <1>4, <1>5, SuccessorReflexive DEF MgaInv

LEMMA OpenInv ==
  ASSUME MgaInv, OpenDatabase
  PROVE  MgaInv' /\ Successor(inv, inv')
<1>1. /\ open = FALSE /\ open' = TRUE
      /\ inv' = ApplyLocalTransactionInventoryRecovery(inv)
      /\ UNCHANGED <<candidate, guardOwner, lost>>
  BY DEF OpenDatabase, MgaInv, TypeOK
<1>2. /\ Successor(inv, inv')
      /\ \A t \in TransactionIds : Interrupted(inv.entries[t]) => Ended(inv'.entries[t])
  BY <1>1, RecoverySuccessor DEF MgaInv
<1>3. inv' \in LocalTransactionInventory /\ inv'.next \in Nat
  BY <1>2, SuccessorFacts
<1>4. TypeOK'
  BY <1>1, <1>3 DEF MgaInv, TypeOK
<1>5. ~candidate'.present
  BY <1>1 DEF MgaInv
<1>6. ASSUME NEW t \in lost'
      PROVE  t < inv'.next /\ Ended(inv'.entries[t])
  <2>1. /\ t \in TransactionIds /\ t < inv.next
        /\ Ended(inv.entries[t]) \/ Interrupted(inv.entries[t])
    BY <1>1 DEF MgaInv, TypeOK
  <2>2. inv.next \in Nat /\ inv.next <= inv'.next
    BY <1>2, InventoryLimits DEF Successor, MgaInv, TypeOK, LocalTransactionInventory
  <2> QED
    BY <1>2, <1>3, <2>1, <2>2 DEF Successor, TransactionIds
<1> QED
  BY <1>1, <1>2, <1>4, <1>5, <1>6 DEF MgaInv, Successor

LEMMA NextInv == MgaInv /\ [Next]_vars => MgaInv' /\ Successor(inv, inv')
<1> SUFFICES ASSUME MgaInv, [Next]_vars PROVE MgaInv' /\ Successor(inv, inv')
  OBVIOUS
<1>1. ASSUME NEW s \in {"active", "read_only_active"}, NEW stable \in BOOLEAN,
             AllocateStarting(s, stable)
      PROVE  MgaInv' /\ Successor(inv, inv')
  BY <1>1, AllocateInv
<1>2. CASE ActivateReserved
  BY <1>2, ActivateInv
<1>3. CASE ActivationFails
  BY <1>3, ActivationFailsInv
<1>4. CASE CommitLifecycleTransaction
  BY <1>4, LifecycleInv
<1>5. ASSUME NEW t \in TransactionIds, Prepare(t)
      PROVE  MgaInv' /\ Successor(inv, inv')
  BY <1>5, PrepareInv
<1>6. ASSUME NEW t \in TransactionIds, BeginGuardedWrite(t)
      PROVE  MgaInv' /\ Successor(inv, inv')
  BY <1>6, BeginGuardedInv
<1>7. ASSUME NEW t \in TransactionIds, CompleteGuardedWrite(t)
      PROVE  MgaInv' /\ Successor(inv, inv')
  BY <1>7, CompleteGuardedInv
<1>8. ASSUME NEW t \in TransactionIds, Archive(t)
      PROVE  MgaInv' /\ Successor(inv, inv')
  BY <1>8, ArchiveInv
<1>9. ASSUME NEW h \in 1 .. MaxLocalTransactionId, Compact(h)
      PROVE  MgaInv' /\ Successor(inv, inv')
  BY <1>9, CompactInv
<1>10. CASE OpenDatabase
  BY <1>10, OpenInv
<1>11. ASSUME NEW t \in TransactionIds, Commit(t)
       PROVE  MgaInv' /\ Successor(inv, inv')
  BY <1>11, CommitInv
<1>12. ASSUME NEW t \in TransactionIds, Rollback(t)
       PROVE  MgaInv' /\ Successor(inv, inv')
  BY <1>12, RollbackInv
<1>13. CASE Crash
  BY <1>13, CrashInv
<1>14. CASE UNCHANGED vars
  BY <1>14, SuccessorReflexive DEF vars, MgaInv, TypeOK
<1> QED
  BY <1>1, <1>2, <1>3, <1>4, <1>5, <1>6, <1>7, <1>8, <1>9, <1>10, <1>11, <1>12,
     <1>13, <1>14 DEF Next, Background

LEMMA InvAlways == Spec => []MgaInv
  BY InitInv, NextInv, PTL DEF Spec

-----------------------------------------------------------------------------
(***************************************************************************)
(* The theorems.                                                           *)
(***************************************************************************)

\* The inventory, the counters and the volatile state keep their types: no
\* counter passes its limit, whatever clients do and wherever the process
\* stops.
THEOREM MgaTypeCorrect == Spec => []TypeOK
<1>1. MgaInv => TypeOK
  BY DEF MgaInv
<1> QED
  BY <1>1, InvAlways, PTL

\* A transaction that a crash found undecided never commits: recovery ends
\* it, no transform revives what has ended, and its number is not reissued.
THEOREM LostStaysLost == Spec => []LostNeverCommits
<1>1. MgaInv => LostNeverCommits
  BY DEF MgaInv, LostNeverCommits, Ended, Interrupted, HasCommittedInventoryOutcome,
     InventoryVisibilityState
<1> QED
  BY <1>1, InvAlways, PTL

\* No transaction is committed while it is marked rollback-only, so an
\* unfinished guarded write never becomes visible.
THEOREM MarkedNeverCommits == Spec => []RollbackOnlyNeverCommits
<1>1. MgaInv => RollbackOnlyNeverCommits
  BY DEF MgaInv, Published, PublishedEntry, RollbackOnlyNeverCommits
<1> QED
  BY <1>1, InvAlways, PTL

\* Every publication, recovery's included, passes evolution admission: each
\* transform keeps what the checks compare, so a refused publication can only
\* come from a damaged or a foreign inventory.
THEOREM PublicationsEvolve == Spec => EvolutionAdmitted
<1>1. MgaInv /\ [Next]_vars => ValidateLocalTransactionInventoryEvolution(inv, inv')
  BY NextInv DEF Successor
<1>2. MgaInv /\ [Next]_vars => [ValidateLocalTransactionInventoryEvolution(inv, inv')]_vars
  BY <1>1
<1> QED
  BY <1>2, InvAlways, PTL DEF Spec, EvolutionAdmitted

\* After a crash only a prepared transaction without its marker keeps the
\* database closed: every other published state recovers, and by a legal
\* transition.
THEOREM OnlyPreparedKeepsClosed == Spec => []ReopenWaitsOnlyForPrepared
<1>1. ASSUME MgaInv, \A t \in TransactionIds :
                        inv.entries[t].state = "prepared" => inv.entries[t].rollbackOnly
      PROVE  CanApplyLocalTransactionInventoryRecovery(inv) /\ ~RecoveryFenced(inv)
  <2>1. Published(inv) /\ inv \in LocalTransactionInventory
    BY <1>1 DEF MgaInv, Published
  <2>2. inv.nextCommit \in 1 .. MaxCommitSequence
    BY <2>1 DEF LocalTransactionInventory
  <2>3. ASSUME NEW t \in TransactionIds, Found(inv, t)
        PROVE  /\ Classification(inv, t) \in {"complete_rollback", "no_action"}
               /\ Classification(inv, t) = "complete_rollback" =>
                     inv.entries[t].state \in {"created", "active", "read_only_active", "prepared"}
    <3> DEFINE e == inv.entries[t]
    <3>1. PublishedEntry(e) /\ e.state # "none"
      BY <2>1, <2>3 DEF Published, Found
    <3>2. e.state = "prepared" => e.rollbackOnly
      BY <1>1
    <3> HIDE DEF e
    <3>3. /\ ClassifyLocalTransactionForRecovery(e) \in {"complete_rollback", "no_action"}
          /\ ClassifyLocalTransactionForRecovery(e) = "complete_rollback" =>
                e.state \in {"created", "active", "read_only_active", "prepared"}
      BY <3>1, <3>2 DEF PublishedEntry, PublishedStates, InventoryVisibilityState,
         ClassifyLocalTransactionForRecovery, RolledBackByRecovery
    <3> QED
      BY <3>3 DEF Classification, e
  <2>4. CommitsToComplete(inv) = {}
    BY <2>3 DEF CommitsToComplete
  <2>5. Cardinality(CommitsToComplete(inv)) <= MaxCommitSequence - inv.nextCommit
    <3>1. Cardinality(CommitsToComplete(inv)) = 0
      BY <2>4, FS_EmptySet
    <3> QED
      BY <2>2, <3>1, InventoryLimits
  <2>6. \A t \in TransactionIds : Found(inv, t) => RecoveryActionAllowed(inv.entries[t])
    <3>1. /\ \A s \in {"created", "active", "read_only_active", "prepared"} :
                CheckTransactionStateTransition(s, "rolling_back", TRUE)
          /\ CheckTransactionStateTransition("rolling_back", "rolled_back", TRUE)
      BY DEF CheckTransactionStateTransition, BuiltinTransactionStateTransitions,
         RecoveryOnlyTransitions
    <3> QED
      BY <2>3, <3>1 DEF RecoveryActionAllowed, Classification
  <2>7. ~RecoveryFenced(inv)
    BY <2>3 DEF RecoveryFenced, FailClosed
  <2> QED
    BY <2>1, <2>5, <2>6, <2>7 DEF CanApplyLocalTransactionInventoryRecovery, Published
<1>2. MgaInv => ReopenWaitsOnlyForPrepared
  BY <1>1 DEF ReopenWaitsOnlyForPrepared
<1> QED
  BY <1>2, InvAlways, PTL

-----------------------------------------------------------------------------
(***************************************************************************)
(* Readers.                                                                *)
(***************************************************************************)
LEMMA LeastNatural ==
  ASSUME NEW S, S \subseteq Nat, S # {}
  PROVE  \E m \in S : \A n \in S : m <= n
<1> DEFINE less == {ss \in Nat \X Nat : ss[1] < ss[2]}
<1>1. less = OpToRel(<, Nat)
  BY DEF OpToRel
<1>2. IsWellFoundedOn(less, Nat)
  BY <1>1, NatLessThanWellFounded
<1>3. PICK m \in S : \A n \in S : <<n, m>> \notin less
  <2> HIDE DEF less
  <2> QED
    BY <1>2, WFMin
<1>4. \A n \in S : ~(n < m)
  <2> TAKE n \in S
  <2>1. <<n, m>> \in Nat \X Nat /\ <<n, m>>[1] = n /\ <<n, m>>[2] = m
    OBVIOUS
  <2> QED
    BY <1>3, <2>1
<1> HIDE DEF less
<1> QED
  BY <1>4

\* The boundary of a snapshot is a maximum, which a bounded set has.
LEMMA MaxOfBounded ==
  ASSUME NEW N \in Nat, NEW S, S \subseteq 0 .. N, S # {}
  PROVE  Max(S) \in S /\ \A x \in S : x <= Max(S)
<1> DEFINE T == {N - x : x \in S}
<1>1. \A x \in S : N - x \in Nat /\ x \in Nat
  OBVIOUS
<1>2. T \subseteq Nat /\ T # {}
  BY <1>1
<1>3. PICK m \in T : \A n \in T : m <= n
  BY <1>2, LeastNatural
<1>4. PICK x \in S : m = N - x
  BY <1>3
<1>5. \A y \in S : x >= y
  BY <1>1, <1>3, <1>4
<1>6. Max(S) \in S /\ \A y \in S : Max(S) >= y
  BY <1>5 DEF Max
<1> QED
  BY <1>6

\* What the commits up to sequence number b left in inventory i.
CommittedThrough(i, b) ==
    {c \in TransactionIds :
        /\ Found(i, c) /\ HasCommittedInventoryOutcome(i.entries[c])
        /\ i.entries[c].commitSequence <= b}

\* The number boundary and the exclusion lists of a new snapshot hide
\* nothing: it shows exactly the commits up to its sequence boundary.
LEMMA SnapshotShows ==
  ASSUME NEW i \in LocalTransactionInventory, NEW r \in TransactionIds,
         CanCreateLocalTransactionSnapshot(i, r)
  PROVE  LET snap == CreateLocalTransactionSnapshot(i, r) IN
         /\ VisibleCreators(i, snap) = CommittedThrough(i, CommitBoundary(i, r))
         /\ snap.visibleThroughCommit = CommitBoundary(i, r)
         /\ CommitBoundary(i, r) \in Nat
         /\ CommitBoundary(i, r) < i.nextCommit
<1> DEFINE snap == CreateLocalTransactionSnapshot(i, r)
           b == CommitBoundary(i, r)
           below == CommittedThrough(i, b)
<1>1. /\ i.nextCommit \in Nat \ {0} /\ i.entries[r].beginCommitSequence \in Nat
      /\ \A t \in TransactionIds : i.entries[t].commitSequence \in Nat
  BY CountersAreNaturals
<1>2. i.entries[r].beginCommitSequence < i.nextCommit
  BY DEF CanCreateLocalTransactionSnapshot, ValidateLocalTransactionInventoryStructure,
     EntryStructureValid
<1>3. b \in Nat /\ b < i.nextCommit
  BY <1>1, <1>2 DEF CommitBoundary
<1>4. /\ snap.visibleThrough = IF below = {} THEN 0 ELSE Max(below)
      /\ snap.visibleThroughCommit = b
      /\ snap.activeExcluded =
            {t \in TransactionIds :
                /\ Found(i, t)
                /\ \/ IsActiveSnapshotExclusion(i.entries[t].state)
                   \/ /\ HasCommittedInventoryOutcome(i.entries[t])
                      /\ i.entries[t].commitSequence > b}
      /\ snap.inDoubtExcluded =
            {t \in TransactionIds :
                Found(i, t) /\ IsInDoubtSnapshotExclusion(i.entries[t].state)}
  BY DEF CreateLocalTransactionSnapshot, CommittedThrough
<1> HIDE DEF b, snap
<1>5. below \subseteq 0 .. MaxLocalTransactionId /\ MaxLocalTransactionId \in Nat
  BY InventoryLimits DEF CommittedThrough, TransactionIds
<1>6. \A c \in below : c <= snap.visibleThrough
  <2> HIDE DEF below
  <2> QED
    BY <1>4, <1>5, MaxOfBounded
<1>7. \A c \in below : c \notin snap.activeExcluded /\ c \notin snap.inDoubtExcluded
  <2> SUFFICES ASSUME NEW c \in below
               PROVE  c \notin snap.activeExcluded /\ c \notin snap.inDoubtExcluded
    OBVIOUS
  <2>1. /\ c \in TransactionIds /\ HasCommittedInventoryOutcome(i.entries[c])
        /\ i.entries[c].commitSequence <= b
    BY DEF CommittedThrough
  <2>2. i.entries[c].state \in {"committed", "archived"}
    BY <2>1 DEF HasCommittedInventoryOutcome, InventoryVisibilityState
  <2>3. ~(i.entries[c].commitSequence > b)
    BY <1>1, <1>3, <2>1
  <2> QED
    BY <1>4, <2>2, <2>3 DEF IsActiveSnapshotExclusion, IsInDoubtSnapshotExclusion
<1>8. \A c : c \in VisibleCreators(i, snap) <=> c \in below
  BY <1>4, <1>6, <1>7 DEF VisibleCreators, CommittedThrough
<1> QED
  BY <1>3, <1>4, <1>8 DEF snap, b

\* An admitted publication adds no commit below the counter and changes
\* none: through one snapshot a reader sees the same creators in it, those
\* apart whose entries are gone.
LEMMA EvolutionKeepsCommits ==
  ASSUME NEW i \in LocalTransactionInventory, NEW j \in LocalTransactionInventory,
         ValidateLocalTransactionInventoryEvolution(i, j),
         NEW c \in TransactionIds, NEW b \in Nat, b < i.nextCommit
  PROVE  /\ Found(j, c) /\ HasCommittedInventoryOutcome(j.entries[c])
         /\ j.entries[c].commitSequence <= b
         <=>
         /\ Found(j, c) /\ Found(i, c) /\ HasCommittedInventoryOutcome(i.entries[c])
         /\ i.entries[c].commitSequence <= b
<1>1. /\ i.nextCommit \in Nat /\ i.entries[c].commitSequence \in Nat
      /\ j.entries[c].commitSequence \in Nat
  BY CountersAreNaturals
<1>2. Found(j, c) /\ ~Found(i, c) =>
         (HasCommittedInventoryOutcome(j.entries[c]) =>
             j.entries[c].commitSequence >= i.nextCommit)
  BY DEF ValidateLocalTransactionInventoryEvolution
<1>3. CASE Found(j, c) /\ Found(i, c)
  <2>1. EntryEvolutionValid(i, j, c)
    BY <1>3 DEF ValidateLocalTransactionInventoryEvolution
  <2>2. HasCommittedInventoryOutcome(i.entries[c]) =>
           /\ HasCommittedInventoryOutcome(j.entries[c])
           /\ i.entries[c].commitSequence = j.entries[c].commitSequence
    BY <2>1 DEF EntryEvolutionValid, HasCommittedInventoryOutcome, IsTerminalTransactionState
  <2>3. ~HasCommittedInventoryOutcome(i.entries[c]) /\ HasCommittedInventoryOutcome(j.entries[c])
           => j.entries[c].commitSequence >= i.nextCommit
    BY <2>1 DEF EntryEvolutionValid
  <2> QED
    BY <1>1, <1>3, <2>2, <2>3
<1>4. CASE ~(Found(j, c) /\ Found(i, c))
  BY <1>1, <1>2, <1>4
<1> QED
  BY <1>3, <1>4

LEMMA EvolutionKeepsReads ==
  ASSUME NEW i \in LocalTransactionInventory, NEW j \in LocalTransactionInventory,
         ValidateLocalTransactionInventoryEvolution(i, j)
  PROVE  /\ \A b \in Nat : b < i.nextCommit =>
               CommittedThrough(j, b) = {c \in CommittedThrough(i, b) : Found(j, c)}
         /\ \A s : s.visibleThroughCommit \in Nat /\ s.visibleThroughCommit < i.nextCommit =>
               VisibleCreators(j, s) = {c \in VisibleCreators(i, s) : Found(j, c)}
         /\ \A c \in TransactionIds : c < i.next /\ Found(j, c) => Found(i, c)
<1>1. ASSUME NEW b \in Nat, b < i.nextCommit
      PROVE  CommittedThrough(j, b) = {c \in CommittedThrough(i, b) : Found(j, c)}
  BY <1>1, EvolutionKeepsCommits DEF CommittedThrough
<1>2. ASSUME NEW s, s.visibleThroughCommit \in Nat, s.visibleThroughCommit < i.nextCommit
      PROVE  VisibleCreators(j, s) = {c \in VisibleCreators(i, s) : Found(j, c)}
  BY <1>2, EvolutionKeepsCommits DEF VisibleCreators
<1>3. ASSUME NEW c \in TransactionIds, c < i.next, Found(j, c)
      PROVE  Found(i, c)
  <2>1. i.next \in Nat /\ c \in Nat
    BY CountersAreNaturals
  <2>2. ~(c >= i.next)
    BY <1>3, <2>1
  <2> QED
    BY <1>3, <2>2 DEF ValidateLocalTransactionInventoryEvolution
<1> QED
  BY <1>1, <1>2, <1>3

\* A step of the composition is a step of the engine or leaves it alone.
LEMMA ReadersStepEngine == [ReadersNext]_allVars => [Next]_vars
<1>1. ASSUME NEW t \in TransactionIds, Commit(t) \/ Rollback(t) PROVE Next
  BY <1>1 DEF Next
<1> QED
  BY <1>1 DEF ReadersNext, TakeSnapshot, Next, allVars, vars, readerVars

\* What is recorded of a running statement agrees with inventory i.
Agrees(i, snapshot, seen) ==
    /\ snapshot.vector.visibleThroughCommit \in Nat
    /\ snapshot.vector.visibleThroughCommit < i.nextCommit
    /\ VisibleCreators(i, snapshot.vector) = {c \in seen : Found(i, c)}
    /\ seen \subseteq {c \in TransactionIds : c < i.next}

AllAgree(i, taken, seen) ==
    /\ DOMAIN taken = TransactionIds
    /\ DOMAIN seen = TransactionIds
    /\ \A r \in TransactionIds : taken[r].present => Agrees(i, taken[r], seen[r])

\* SnapshotIsStable alone is not inductive: it needs the boundaries below
\* the commit counter and the creators among the numbers handed out.
ReadersInv == MgaInv /\ AllAgree(inv, snapshots, saw)

LEMMA AgreesLater ==
  ASSUME NEW i \in LocalTransactionInventory, NEW j \in LocalTransactionInventory,
         ValidateLocalTransactionInventoryEvolution(i, j),
         NEW snapshot, NEW seen, Agrees(i, snapshot, seen)
  PROVE  Agrees(j, snapshot, seen)
<1>1. /\ i.nextCommit \in Nat /\ j.nextCommit \in Nat /\ i.nextCommit <= j.nextCommit
      /\ i.next \in Nat /\ j.next \in Nat /\ i.next <= j.next
      /\ \A c \in TransactionIds : c \in Nat
  BY CountersAreNaturals DEF ValidateLocalTransactionInventoryEvolution
<1>2. /\ snapshot.vector.visibleThroughCommit \in Nat
      /\ snapshot.vector.visibleThroughCommit < j.nextCommit
  BY <1>1 DEF Agrees
<1>3. seen \subseteq {c \in TransactionIds : c < j.next}
  BY <1>1 DEF Agrees
<1>4. VisibleCreators(j, snapshot.vector)
         = {c \in VisibleCreators(i, snapshot.vector) : Found(j, c)}
  BY EvolutionKeepsReads DEF Agrees
<1>5. \A c \in seen : Found(j, c) => Found(i, c)
  BY EvolutionKeepsReads DEF Agrees
<1>6. VisibleCreators(j, snapshot.vector) = {c \in seen : Found(j, c)}
  BY <1>4, <1>5 DEF Agrees
<1> QED
  BY <1>2, <1>3, <1>6 DEF Agrees

LEMMA AgreesFirst ==
  ASSUME NEW i \in LocalTransactionInventory, NEW r \in TransactionIds,
         CanCreateLocalTransactionSnapshot(i, r), NEW snapshot,
         snapshot.vector = CreateLocalTransactionSnapshot(i, r)
  PROVE  Agrees(i, snapshot, VisibleCreators(i, snapshot.vector))
<1>1. \A c \in VisibleCreators(i, snapshot.vector) :
         c \in TransactionIds /\ Found(i, c) /\ c < i.next
  BY DEF VisibleCreators, CanCreateLocalTransactionSnapshot,
     ValidateLocalTransactionInventoryStructure, EntryStructureValid
<1>2. /\ snapshot.vector.visibleThroughCommit \in Nat
      /\ snapshot.vector.visibleThroughCommit < i.nextCommit
  BY SnapshotShows
<1> QED
  BY <1>1, <1>2 DEF Agrees

LEMMA ReadersInitInv == ReadersInit => ReadersInv
  BY InitInv DEF ReadersInit, ReadersInv, AllAgree, NoSnapshot

LEMMA ReadersNextInv == ReadersInv /\ [ReadersNext]_allVars => ReadersInv'
<1> SUFFICES ASSUME ReadersInv, [ReadersNext]_allVars PROVE ReadersInv'
  OBVIOUS
<1>1. MgaInv /\ MgaInv' /\ Successor(inv, inv')
  BY ReadersStepEngine, NextInv DEF ReadersInv
<1>2. /\ inv \in LocalTransactionInventory /\ inv' \in LocalTransactionInventory
      /\ ValidateLocalTransactionInventoryEvolution(inv, inv')
  BY <1>1 DEF MgaInv, TypeOK, Successor
<1>3. AllAgree(inv', snapshots, saw)
  BY <1>2, AgreesLater DEF ReadersInv, AllAgree
<1>4. ASSUME UNCHANGED readerVars
      PROVE  AllAgree(inv', snapshots', saw')
  BY <1>3, <1>4 DEF readerVars
<1>5. ASSUME NEW t \in TransactionIds, RevokePublishedSnapshotVectorsForTransaction(t)
      PROVE  AllAgree(inv', snapshots', saw')
  BY <1>3, <1>5 DEF RevokePublishedSnapshotVectorsForTransaction, AllAgree, NoSnapshot
<1>6. ASSUME snapshots' = [r \in TransactionIds |-> NoSnapshot],
             saw' = [r \in TransactionIds |-> {}]
      PROVE  AllAgree(inv', snapshots', saw')
  BY <1>6 DEF AllAgree, NoSnapshot
<1>7. ASSUME NEW r \in TransactionIds, TakeSnapshot(r)
      PROVE  AllAgree(inv', snapshots', saw')
  <2> DEFINE snap == CreateLocalTransactionSnapshot(inv, r)
             taken == [present |-> TRUE, vector |-> snap]
  <2>1. /\ CanCreateLocalTransactionSnapshot(inv, r) /\ inv' = inv
        /\ snapshots' = [snapshots EXCEPT ![r] = taken]
        /\ saw' = [saw EXCEPT ![r] = VisibleCreators(inv, snap)]
    BY <1>7 DEF TakeSnapshot, vars
  <2>2. taken.vector = CreateLocalTransactionSnapshot(inv, r)
    OBVIOUS
  <2> HIDE DEF taken
  <2>3. Agrees(inv, taken, VisibleCreators(inv, snap))
    BY <1>2, <2>1, <2>2, AgreesFirst
  <2> HIDE DEF snap
  <2> QED
    BY <1>3, <2>1, <2>3 DEF AllAgree
<1>8. AllAgree(inv', snapshots', saw')
  BY <1>4, <1>5, <1>6, <1>7 DEF ReadersNext, allVars
<1> QED
  BY <1>1, <1>8 DEF ReadersInv

LEMMA ReadersInvAlways == ReadersSpec => []ReadersInv
  BY ReadersInitInv, ReadersNextInv, PTL DEF ReadersSpec

\* A running statement keeps seeing the creators it saw at its start,
\* whatever commits, rolls back, is archived or compacted meanwhile.
THEOREM StatementsSeeOneState == ReadersSpec => []SnapshotIsStable
<1>1. ReadersInv => SnapshotIsStable
  BY DEF ReadersInv, AllAgree, Agrees, SnapshotIsStable
<1> QED
  BY <1>1, ReadersInvAlways, PTL

\* A snapshot-isolation reader sees at every statement what its first one
\* saw: its boundary travels with its entry, and evolution admission keeps
\* both the boundary and every commit below it.
THEOREM StableReadersRepeat == ReadersSpec => RepeatableRead
<1> DEFINE Repeats ==
      \A r \in TransactionIds :
         /\ inv.entries[r].stableSnapshot
         /\ CanCreateLocalTransactionSnapshot(inv, r)
         /\ CanCreateLocalTransactionSnapshot(inv', r)
         => VisibleCreators(inv', CreateLocalTransactionSnapshot(inv', r))
              = {c \in VisibleCreators(inv, CreateLocalTransactionSnapshot(inv, r)) :
                    Found(inv', c)}
<1>1. ASSUME ReadersInv, [ReadersNext]_allVars
      PROVE  Repeats
  <2>1. MgaInv /\ MgaInv' /\ Successor(inv, inv')
    BY <1>1, ReadersStepEngine, NextInv DEF ReadersInv
  <2>2. /\ inv \in LocalTransactionInventory /\ inv' \in LocalTransactionInventory
        /\ ValidateLocalTransactionInventoryEvolution(inv, inv')
    BY <2>1 DEF MgaInv, TypeOK, Successor
  <2> SUFFICES ASSUME NEW r \in TransactionIds, inv.entries[r].stableSnapshot,
                      CanCreateLocalTransactionSnapshot(inv, r),
                      CanCreateLocalTransactionSnapshot(inv', r)
               PROVE  VisibleCreators(inv', CreateLocalTransactionSnapshot(inv', r))
                        = {c \in VisibleCreators(inv, CreateLocalTransactionSnapshot(inv, r)) :
                              Found(inv', c)}
    OBVIOUS
  <2>3. Found(inv, r) /\ Found(inv', r)
    BY DEF CanCreateLocalTransactionSnapshot
  <2>4. EntryEvolutionValid(inv, inv', r)
    BY <2>2, <2>3 DEF ValidateLocalTransactionInventoryEvolution
  <2>5. CommitBoundary(inv', r) = CommitBoundary(inv, r)
    BY <2>4 DEF EntryEvolutionValid, CommitBoundary
  <2>6. /\ VisibleCreators(inv, CreateLocalTransactionSnapshot(inv, r))
             = CommittedThrough(inv, CommitBoundary(inv, r))
        /\ VisibleCreators(inv', CreateLocalTransactionSnapshot(inv', r))
             = CommittedThrough(inv', CommitBoundary(inv', r))
        /\ CommitBoundary(inv, r) \in Nat
        /\ CommitBoundary(inv, r) < inv.nextCommit
    BY <2>2, SnapshotShows
  <2> QED
    BY <2>2, <2>5, <2>6, EvolutionKeepsReads
<1>2. ReadersInv /\ [ReadersNext]_allVars => [Repeats]_allVars
  BY <1>1
<1> HIDE DEF Repeats
<1>3. ReadersSpec => [][Repeats]_allVars
  BY <1>2, ReadersInvAlways, PTL DEF ReadersSpec
<1> QED
  BY <1>3 DEF RepeatableRead, Repeats

-----------------------------------------------------------------------------
(***************************************************************************)
(* Recovery and operator resolution of any admissible inventory.           *)
(***************************************************************************)

\* An entry with an outcome, as a clean open leaves them all.
Resolved(e) == InventoryVisibilityState(e) \in {"committed", "rolled_back"}

Settled(i) == \A t \in TransactionIds : Found(i, t) => Resolved(i.entries[t])

\* What structural admission says of one entry's origin.
OriginValid(e) ==
    IF e.state = "archived"
    THEN e.archivedFrom \in {"committed", "rolled_back", "failed_terminal"}
    ELSE e.archivedFrom = "none"

LEMMA ClassifiedEntry ==
  ASSUME NEW e, e.state \in TransactionStates \ {"none"}, OriginValid(e),
         RecoveryActionAllowed(e)
  PROVE  /\ ClassifyLocalTransactionForRecovery(e) = "complete_commit" =>
               e.state = "committing"
         /\ ClassifyLocalTransactionForRecovery(e) = "complete_rollback" =>
               <<e.state, "rolled_back">> \in RecoverySteps
         /\ ClassifyLocalTransactionForRecovery(e)
               \notin FailClosed \cup {"complete_commit", "complete_rollback"} => Resolved(e)
<1>1. \A s : CheckTransactionStateTransition(s, "rolling_back", TRUE) =>
                s \in {"created", "active", "read_only_active", "preparing", "prepared"}
  BY DEF CheckTransactionStateTransition, BuiltinTransactionStateTransitions,
     RecoveryOnlyTransitions
<1>2. ClassifyLocalTransactionForRecovery(e) = "complete_commit" => e.state = "committing"
  BY DEF ClassifyLocalTransactionForRecovery
<1>3. ClassifyLocalTransactionForRecovery(e) = "complete_rollback" =>
         \/ e.state = "rolling_back"
         \/ CheckTransactionStateTransition(e.state, "rolling_back", TRUE)
  BY DEF RecoveryActionAllowed
<1>4. ClassifyLocalTransactionForRecovery(e)
         \notin FailClosed \cup {"complete_commit", "complete_rollback"} => Resolved(e)
  BY DEF ClassifyLocalTransactionForRecovery, FailClosed, Resolved, OriginValid,
     InventoryVisibilityState, TransactionStates, RolledBackByRecovery
<1> QED
  BY <1>1, <1>2, <1>3, <1>4 DEF RecoverySteps

\* An entry with an outcome needs no recovery.
LEMMA ResolvedEntry ==
  ASSUME NEW e, OriginValid(e), Resolved(e)
  PROVE  ClassifyLocalTransactionForRecovery(e) = "no_action" /\ RecoveryActionAllowed(e)
<1>1. ClassifyLocalTransactionForRecovery(e) = "no_action"
  BY DEF ClassifyLocalTransactionForRecovery, Resolved, OriginValid, InventoryVisibilityState,
     RolledBackByRecovery
<1> QED
  BY <1>1 DEF RecoveryActionAllowed

\* An undecided entry gets its outcome: such a change is admitted.
LEMMA DecidedEntryStep ==
  ASSUME NEW i \in LocalTransactionInventory, NEW j \in LocalTransactionInventory,
         ValidateLocalTransactionInventoryStructure(i), NEW t \in TransactionIds, Found(i, t),
         i.next <= j.next, i.nextCommit <= j.nextCommit,
         <<i.entries[t].state, j.entries[t].state>> \in RecoverySteps,
         j.entries[t].beginCommitSequence = i.entries[t].beginCommitSequence,
         j.entries[t].stableSnapshot = i.entries[t].stableSnapshot,
         j.entries[t].archivedFrom = i.entries[t].archivedFrom,
         j.entries[t].evidenceWritten,
         IF j.entries[t].state = "committed"
         THEN /\ j.entries[t].commitSequence >= i.nextCommit
              /\ j.entries[t].commitSequence < j.nextCommit
         ELSE j.entries[t].commitSequence = i.entries[t].commitSequence
  PROVE  /\ EntryStep(i, j, t)
         /\ NewlyCommitted(i, j, t) => j.entries[t].state = "committed"
<1> DEFINE old == i.entries[t]
           new == j.entries[t]
<1>1. /\ old.commitSequence \in Nat /\ old.beginCommitSequence \in Nat
      /\ new.commitSequence \in Nat
      /\ i.nextCommit \in Nat \ {0} /\ j.nextCommit \in Nat \ {0}
      /\ i.next \in Nat /\ j.next \in Nat /\ t \in Nat
  BY CountersAreNaturals
<1>2. EntryStructureValid(i, t) /\ old.state # "none"
  BY DEF ValidateLocalTransactionInventoryStructure, Found
<1>3. /\ new.state \in {"committed", "rolled_back", "failed_terminal"}
      /\ old.state \notin {"committed", "rolled_back", "failed_terminal", "archived", "none"}
  BY DEF RecoverySteps
<1>4. /\ old.archivedFrom = "none" /\ old.beginCommitSequence < i.nextCommit /\ t < i.next
      /\ InventoryVisibilityState(old) = old.state /\ old.commitSequence = 0
  BY <1>2, <1>3 DEF EntryStructureValid, HasCommittedInventoryOutcome, InventoryVisibilityState
<1>5. new.archivedFrom = "none" /\ InventoryVisibilityState(new) = new.state
  BY <1>3, <1>4 DEF InventoryVisibilityState
<1>6. Reachable(old.state, new.state)
  BY ReachableSteps
<1>7. /\ new.beginCommitSequence < j.nextCommit /\ t < j.next
      /\ new.state = "committed" =>
            /\ new.commitSequence # 0 /\ new.commitSequence < j.nextCommit
            /\ new.commitSequence > new.beginCommitSequence
      /\ new.state # "committed" => new.commitSequence = 0
  BY <1>1, <1>4
<1>8. EntryStructureValid(j, t)
  BY <1>3, <1>5, <1>7 DEF EntryStructureValid, HasCommittedInventoryOutcome
<1>9. EntryEvolutionValid(i, j, t)
  BY <1>3, <1>4, <1>5, <1>6
     DEF EntryEvolutionValid, HasCommittedInventoryOutcome, IsTerminalTransactionState
<1>10. Found(j, t)
  BY <1>3 DEF Found
<1> QED
  BY <1>3, <1>5, <1>8, <1>9, <1>10 DEF EntryStep, NewlyCommitted, HasCommittedInventoryOutcome

\* The completed commits get numbers of their own from the counter on.
LEMMA RecoveredSequences ==
  ASSUME NEW i \in LocalTransactionInventory
  PROVE  /\ Cardinality(CommitsToComplete(i)) \in Nat
         /\ \A t \in CommitsToComplete(i) :
               /\ RecoveredCommitSequence(i, t) \in Nat
               /\ RecoveredCommitSequence(i, t) >= i.nextCommit
               /\ RecoveredCommitSequence(i, t)
                     < i.nextCommit + Cardinality(CommitsToComplete(i))
         /\ \A t, u \in CommitsToComplete(i) :
               RecoveredCommitSequence(i, t) = RecoveredCommitSequence(i, u) => t = u
<1> DEFINE C == CommitsToComplete(i)
           Before(t) == {u \in C : u < t}
<1>1. /\ C \subseteq TransactionIds /\ IsFiniteSet(C)
      /\ \A t \in C : t \in Nat
  <2>1. IsFiniteSet(TransactionIds)
    BY FS_Interval, InventoryLimits DEF TransactionIds
  <2>2. C \subseteq TransactionIds
    BY DEF CommitsToComplete
  <2>3. \A t \in TransactionIds : t \in Nat
    BY DEF TransactionIds
  <2> HIDE DEF C
  <2> QED
    BY <2>1, <2>2, <2>3, FS_Subset
<1>2. i.nextCommit \in Nat
  BY CountersAreNaturals
<1>3. \A t \in C : RecoveredCommitSequence(i, t) = i.nextCommit + Cardinality(Before(t))
  BY DEF RecoveredCommitSequence
<1> HIDE DEF C
<1>4. ASSUME NEW S, S \subseteq C PROVE IsFiniteSet(S) /\ Cardinality(S) \in Nat
  BY <1>1, <1>4, FS_Subset, FS_CardinalityType
<1>5. ASSUME NEW S, S \subseteq C, NEW t \in S
      PROVE  S \cap Before(t) # S /\ t \notin Before(t)
  BY <1>1, <1>5
<1>6. ASSUME NEW S, S \subseteq C, NEW t \in S, Before(t) \subseteq S
      PROVE  Cardinality(Before(t)) < Cardinality(S)
  <2>1. Before(t) \subseteq S /\ Before(t) # S
    BY <1>5, <1>6
  <2>2. IsFiniteSet(S) /\ Cardinality(S) \in Nat /\ Cardinality(Before(t)) \in Nat
    BY <1>4, <1>6
  <2>3. Cardinality(Before(t)) <= Cardinality(S) /\ Cardinality(Before(t)) # Cardinality(S)
    <3> HIDE DEF Before
    <3> QED
      BY <2>1, <2>2, FS_Subset
  <2> QED
    BY <2>2, <2>3
<1>7. \A t \in C : Cardinality(Before(t)) \in Nat /\ Cardinality(Before(t)) < Cardinality(C)
  BY <1>4, <1>6
<1>8. ASSUME NEW t \in C, NEW u \in C, t < u
      PROVE  Cardinality(Before(t)) < Cardinality(Before(u))
  <2>1. t \in Before(u) /\ Before(t) \subseteq Before(u) /\ Before(u) \subseteq C
    BY <1>1, <1>8
  <2> HIDE DEF Before
  <2> QED
    BY <1>6, <2>1
<1>9. \A t, u \in C : t # u => Cardinality(Before(t)) # Cardinality(Before(u))
  <2> SUFFICES ASSUME NEW t \in C, NEW u \in C, t # u
               PROVE  Cardinality(Before(t)) # Cardinality(Before(u))
    OBVIOUS
  <2>1. t < u \/ u < t
    BY <1>1
  <2> HIDE DEF Before
  <2> QED
    BY <1>7, <1>8, <2>1
<1> HIDE DEF Before
<1>10. Cardinality(C) \in Nat
  BY <1>4
<1>11. \A t \in C : /\ RecoveredCommitSequence(i, t) \in Nat
                    /\ RecoveredCommitSequence(i, t) >= i.nextCommit
                    /\ RecoveredCommitSequence(i, t) < i.nextCommit + Cardinality(C)
  BY <1>2, <1>3, <1>7, <1>10
<1>12. \A t, u \in C : RecoveredCommitSequence(i, t) = RecoveredCommitSequence(i, u) => t = u
  BY <1>2, <1>3, <1>7, <1>9
<1> QED
  BY <1>10, <1>11, <1>12 DEF C

\* A recovery that is not fenced is admitted and leaves no entry undecided.
LEMMA RecoverySweepSuccessor ==
  ASSUME NEW i \in LocalTransactionInventory,
         CanApplyLocalTransactionInventoryRecovery(i), ~RecoveryFenced(i)
  PROVE  LET j == ApplyLocalTransactionInventoryRecovery(i) IN
         /\ j \in LocalTransactionInventory
         /\ ValidateLocalTransactionInventoryEvolution(i, j)
         /\ Settled(j)
<1> DEFINE C == CommitsToComplete(i)
           n == i.nextCommit + Cardinality(C)
           f == [t \in TransactionIds |-> RecoveredEntry(i, t)]
           j == ApplyLocalTransactionInventoryRecovery(i)
<1>1. /\ ValidateLocalTransactionInventoryStructure(i)
      /\ Cardinality(C) <= MaxCommitSequence - i.nextCommit
      /\ \A t \in TransactionIds : Found(i, t) => RecoveryActionAllowed(i.entries[t])
      /\ \A t \in TransactionIds : Found(i, t) => Classification(i, t) \notin FailClosed
  BY DEF CanApplyLocalTransactionInventoryRecovery, RecoveryFenced
<1>2. /\ i.next \in Nat /\ i.nextCommit \in Nat \ {0} /\ i.nextCommit <= MaxCommitSequence
      /\ MaxCommitSequence \in Nat
  BY CountersAreNaturals, InventoryLimits DEF LocalTransactionInventory
<1>3. /\ Cardinality(C) \in Nat
      /\ \A t \in C : /\ RecoveredCommitSequence(i, t) \in Nat
                      /\ RecoveredCommitSequence(i, t) >= i.nextCommit
                      /\ RecoveredCommitSequence(i, t) < n
      /\ \A t, u \in C :
            RecoveredCommitSequence(i, t) = RecoveredCommitSequence(i, u) => t = u
  BY RecoveredSequences
<1>4. j = [i EXCEPT !.nextCommit = n, !.entries = f]
  BY DEF ApplyLocalTransactionInventoryRecovery
<1>5. \A t \in TransactionIds : t \in C <=> Found(i, t) /\ Classification(i, t) = "complete_commit"
  BY DEF CommitsToComplete
<1> HIDE DEF C
<1>6. n \in 1 .. MaxCommitSequence /\ i.nextCommit <= n /\ n \in Nat
  BY <1>1, <1>2, <1>3
<1>7. ASSUME NEW t \in TransactionIds
      PROVE  /\ f[t] \in TransactionInventoryEntry
             /\ Found(i, t) => \/ f[t] = i.entries[t] /\ Resolved(f[t]) /\ t \notin C
                               \/ /\ <<i.entries[t].state, f[t].state>> \in RecoverySteps
                                  /\ Resolved(f[t])
                                  /\ f[t].beginCommitSequence = i.entries[t].beginCommitSequence
                                  /\ f[t].stableSnapshot = i.entries[t].stableSnapshot
                                  /\ f[t].archivedFrom = i.entries[t].archivedFrom
                                  /\ f[t].evidenceWritten
                                  /\ f[t].state = "committed" <=> t \in C
                                  /\ f[t].commitSequence = IF t \in C
                                        THEN RecoveredCommitSequence(i, t)
                                        ELSE i.entries[t].commitSequence
             /\ ~Found(i, t) => f[t] = i.entries[t] /\ t \notin C
  <2> DEFINE e == i.entries[t]
             s == RecoveredCommitSequence(i, t)
  <2>1. e \in TransactionInventoryEntry /\ e.state \in TransactionStates
    BY CountersAreNaturals DEF TransactionInventoryEntry
  <2>2. f[t] = IF t \in C THEN CommittedEntry(e, s)
               ELSE IF Found(i, t) /\ Classification(i, t) = "complete_rollback"
                    THEN RolledBackEntry(e) ELSE e
    BY <1>5 DEF RecoveredEntry
  <2>3. t \in C => s \in 0 .. MaxCommitSequence
    <3>1. t \in C => s \in Nat /\ s < n
      BY <1>3
    <3> HIDE DEF n, s
    <3> QED
      BY <1>2, <1>6, <3>1
  <2>4. ASSUME Found(i, t)
        PROVE  /\ e.state # "none" /\ OriginValid(e) /\ RecoveryActionAllowed(e)
               /\ Classification(i, t) \notin FailClosed
    BY <1>1, <2>4 DEF Found, ValidateLocalTransactionInventoryStructure, EntryStructureValid,
       OriginValid
  <2> HIDE DEF f, s
  <2>5. ASSUME t \in C
        PROVE  /\ f[t] \in TransactionInventoryEntry /\ e.state = "committing"
               /\ f[t].state = "committed" /\ f[t].archivedFrom = e.archivedFrom
               /\ f[t].beginCommitSequence = e.beginCommitSequence
               /\ f[t].stableSnapshot = e.stableSnapshot
               /\ f[t].evidenceWritten /\ f[t].commitSequence = s
               /\ e.archivedFrom = "none"
    <3>1. f[t] = CommittedEntry(e, s) /\ s \in 0 .. MaxCommitSequence
      BY <2>2, <2>3, <2>5
    <3>2. Found(i, t) /\ Classification(i, t) = "complete_commit"
      BY <1>5, <2>5
    <3>3. e.state = "committing" /\ e.archivedFrom = "none"
      BY <2>1, <2>4, <3>2, ClassifiedEntry DEF Classification, OriginValid
    <3> QED
      BY <2>1, <3>1, <3>3 DEF CommittedEntry, TransactionInventoryEntry, TransactionStates
  <2>6. ASSUME t \notin C, Found(i, t), Classification(i, t) = "complete_rollback"
        PROVE  /\ f[t] \in TransactionInventoryEntry
               /\ <<e.state, "rolled_back">> \in RecoverySteps
               /\ f[t].state = "rolled_back" /\ f[t].archivedFrom = e.archivedFrom
               /\ f[t].beginCommitSequence = e.beginCommitSequence
               /\ f[t].stableSnapshot = e.stableSnapshot
               /\ f[t].evidenceWritten /\ f[t].commitSequence = e.commitSequence
               /\ e.archivedFrom = "none"
    <3>1. f[t] = RolledBackEntry(e)
      BY <2>2, <2>6
    <3>2. <<e.state, "rolled_back">> \in RecoverySteps
      BY <2>1, <2>4, <2>6, ClassifiedEntry DEF Classification
    <3>3. e.archivedFrom = "none"
      BY <2>4, <2>6, <3>2 DEF OriginValid, RecoverySteps
    <3> QED
      BY <2>1, <3>1, <3>2, <3>3 DEF RolledBackEntry, TransactionInventoryEntry, TransactionStates
  <2>7. ASSUME t \notin C, Found(i, t), Classification(i, t) # "complete_rollback"
        PROVE  f[t] = e /\ Resolved(e)
    <3>1. Classification(i, t) \notin FailClosed \cup {"complete_commit", "complete_rollback"}
      BY <1>5, <2>4, <2>7
    <3> QED
      BY <2>1, <2>2, <2>4, <2>7, <3>1, ClassifiedEntry DEF Classification
  <2>8. ~Found(i, t) => f[t] = e /\ t \notin C
    BY <1>5, <2>2
  <2>9. ASSUME f[t].archivedFrom = "none", f[t].state \in {"committed", "rolled_back"}
        PROVE  Resolved(f[t])
    BY <2>9 DEF Resolved, InventoryVisibilityState
  <2> HIDE DEF e
  <2> QED
    <3>1. CASE t \in C
      BY <2>5, <2>8, <2>9, <3>1 DEF RecoverySteps, e, s
    <3>2. CASE t \notin C /\ Found(i, t) /\ Classification(i, t) = "complete_rollback"
      BY <2>6, <2>9, <3>2 DEF e
    <3>3. CASE t \notin C /\ Found(i, t) /\ Classification(i, t) # "complete_rollback"
      BY <2>1, <2>7, <3>3 DEF e
    <3>4. CASE ~Found(i, t)
      BY <2>1, <2>8, <3>4 DEF e
    <3> QED
      BY <3>1, <3>2, <3>3, <3>4
<1>8. f \in [TransactionIds -> TransactionInventoryEntry]
  BY <1>7
<1> HIDE DEF f, j, n
<1>9. /\ j \in LocalTransactionInventory /\ j.next = i.next
      /\ j.nextCommit = n /\ j.entries = f
  BY <1>4, <1>6, <1>8 DEF LocalTransactionInventory
<1>10. i.next <= j.next /\ i.nextCommit <= j.nextCommit
  BY <1>2, <1>6, <1>9
<1>11. ASSUME NEW t \in TransactionIds
       PROVE  /\ EntryStep(i, j, t)
              /\ NewlyCommitted(i, j, t) =>
                    t \in C /\ j.entries[t].commitSequence = RecoveredCommitSequence(i, t)
  <2>1. CASE f[t] = i.entries[t] /\ t \notin C
    BY <1>9, <2>1 DEF EntryStep, NewlyCommitted, Found
  <2>2. CASE ~(f[t] = i.entries[t] /\ t \notin C)
    <3>1. /\ Found(i, t)
          /\ <<i.entries[t].state, j.entries[t].state>> \in RecoverySteps
          /\ j.entries[t].beginCommitSequence = i.entries[t].beginCommitSequence
          /\ j.entries[t].stableSnapshot = i.entries[t].stableSnapshot
          /\ j.entries[t].archivedFrom = i.entries[t].archivedFrom
          /\ j.entries[t].evidenceWritten
          /\ j.entries[t].state = "committed" <=> t \in C
          /\ j.entries[t].commitSequence =
                IF t \in C THEN RecoveredCommitSequence(i, t) ELSE i.entries[t].commitSequence
      BY <1>7, <1>9, <2>2
    <3>2. IF j.entries[t].state = "committed"
          THEN /\ j.entries[t].commitSequence >= i.nextCommit
               /\ j.entries[t].commitSequence < j.nextCommit
          ELSE j.entries[t].commitSequence = i.entries[t].commitSequence
      BY <1>3, <1>9, <3>1 DEF n
    <3>3. EntryStep(i, j, t) /\ (NewlyCommitted(i, j, t) => j.entries[t].state = "committed")
      BY <1>1, <1>9, <1>10, <3>1, <3>2, DecidedEntryStep
    <3> QED
      BY <3>1, <3>3
  <2> QED
    BY <2>1, <2>2
<1>12. ValidateLocalTransactionInventoryEvolution(i, j)
  <2>1. \A t, u \in TransactionIds :
           /\ NewlyCommitted(i, j, t) /\ NewlyCommitted(i, j, u)
           /\ j.entries[t].commitSequence = j.entries[u].commitSequence
           => t = u
    BY <1>3, <1>11
  <2> QED
    BY <1>1, <1>9, <1>10, <1>11, <2>1, EvolutionFromCommits
<1>13. Settled(j)
  BY <1>7, <1>9 DEF Settled, Found
<1> QED
  BY <1>9, <1>12, <1>13 DEF j

\* An operator's decision on a limbo entry is admitted too.
LEMMA ResolveSuccessor ==
  ASSUME NEW i \in LocalTransactionInventory, NEW t \in TransactionIds,
         NEW d \in LimboOperatorDecisions, CanResolveLimbo(i, t, d)
  PROVE  LET j == ResolveLimboLocalTransactionWithOperatorDecision(i, t, d) IN
         /\ j \in LocalTransactionInventory
         /\ ValidateLocalTransactionInventoryEvolution(i, j)
<1> DEFINE old == i.entries[t]
           s == TerminalStateForLimboDecision(d)
           n == IF d = "commit" THEN i.nextCommit + 1 ELSE i.nextCommit
           c == IF d = "commit" THEN i.nextCommit ELSE old.commitSequence
           new == [old EXCEPT !.state = s, !.evidenceWritten = TRUE, !.commitSequence = c]
           j == ResolveLimboLocalTransactionWithOperatorDecision(i, t, d)
<1>1. /\ ValidateLocalTransactionInventoryStructure(i) /\ Found(i, t)
      /\ old.state = "limbo" /\ (d = "commit" => i.nextCommit # MaxCommitSequence)
  BY DEF CanResolveLimbo
<1>2. /\ old \in TransactionInventoryEntry
      /\ i.next \in Nat /\ i.nextCommit \in Nat \ {0} /\ i.nextCommit <= MaxCommitSequence
      /\ MaxCommitSequence \in Nat
      /\ i.entries \in [TransactionIds -> TransactionInventoryEntry]
  BY CountersAreNaturals, InventoryLimits DEF LocalTransactionInventory
<1>3. /\ s \in {"committed", "rolled_back", "failed_terminal"}
      /\ s = "committed" <=> d = "commit"
  BY DEF TerminalStateForLimboDecision, LimboOperatorDecisions
<1>4. n \in 1 .. MaxCommitSequence /\ i.nextCommit <= n /\ (d = "commit" => i.nextCommit < n)
  BY <1>1, <1>2
<1>5. c \in 0 .. MaxCommitSequence /\ (d = "commit" => c = i.nextCommit)
      /\ (d # "commit" => c = old.commitSequence)
  BY <1>2 DEF TransactionInventoryEntry
<1>6. j = [i EXCEPT !.nextCommit = n, !.entries = [i.entries EXCEPT ![t] = new]]
  <2>1. j = [i EXCEPT !.nextCommit = n,
                      !.entries[t].state = s,
                      !.entries[t].evidenceWritten = TRUE,
                      !.entries[t].commitSequence = c]
    BY DEF ResolveLimboLocalTransactionWithOperatorDecision
  <2> HIDE DEF n, c, s, j
  <2> QED
    BY <1>2, <2>1 DEF LocalTransactionInventory, TransactionInventoryEntry
<1> HIDE DEF n, c, s, j
<1>7. /\ new \in TransactionInventoryEntry /\ new.state = s /\ new.commitSequence = c
      /\ new.beginCommitSequence = old.beginCommitSequence /\ new.evidenceWritten
      /\ new.stableSnapshot = old.stableSnapshot /\ new.archivedFrom = old.archivedFrom
  BY <1>2, <1>3, <1>5 DEF TransactionInventoryEntry, TransactionStates
<1> HIDE DEF new
<1>8. /\ j \in LocalTransactionInventory /\ j.next = i.next /\ j.nextCommit = n
      /\ j.entries[t] = new
      /\ \A u \in TransactionIds : u # t => j.entries[u] = i.entries[u]
  BY <1>2, <1>4, <1>6, <1>7 DEF LocalTransactionInventory
<1>9. i.next <= j.next /\ i.nextCommit <= j.nextCommit
  BY <1>2, <1>4, <1>8
<1>10. <<i.entries[t].state, j.entries[t].state>> \in RecoverySteps
  BY <1>1, <1>3, <1>7, <1>8 DEF RecoverySteps
<1>11. IF j.entries[t].state = "committed"
       THEN /\ j.entries[t].commitSequence >= i.nextCommit
            /\ j.entries[t].commitSequence < j.nextCommit
       ELSE j.entries[t].commitSequence = i.entries[t].commitSequence
  BY <1>2, <1>3, <1>4, <1>5, <1>7, <1>8
<1>12. EntryStep(i, j, t)
  BY <1>1, <1>7, <1>8, <1>9, <1>10, <1>11, DecidedEntryStep
<1>13. /\ \A u \in TransactionIds : EntryStep(i, j, u)
       /\ \A u \in TransactionIds : NewlyCommitted(i, j, u) => u = t
  BY <1>8, <1>12 DEF EntryStep, NewlyCommitted, Found
<1>14. ValidateLocalTransactionInventoryEvolution(i, j)
  BY <1>1, <1>8, <1>9, <1>13, EvolutionFromEntries
<1> QED
  BY <1>8, <1>14 DEF j

\* Recovering a settled inventory changes nothing.
LEMMA SettledRecovery ==
  ASSUME NEW i \in LocalTransactionInventory, ValidateLocalTransactionInventoryStructure(i),
         Settled(i)
  PROVE  /\ CanApplyLocalTransactionInventoryRecovery(i)
         /\ ~RecoveryFenced(i)
         /\ ApplyLocalTransactionInventoryRecovery(i) = i
<1> DEFINE f == [t \in TransactionIds |-> RecoveredEntry(i, t)]
<1>1. ASSUME NEW t \in TransactionIds, Found(i, t)
      PROVE  Classification(i, t) = "no_action" /\ RecoveryActionAllowed(i.entries[t])
  <2>1. OriginValid(i.entries[t]) /\ Resolved(i.entries[t])
    BY <1>1 DEF ValidateLocalTransactionInventoryStructure, EntryStructureValid, OriginValid,
       Settled
  <2> QED
    BY <2>1, ResolvedEntry DEF Classification
<1>2. CommitsToComplete(i) = {}
  BY <1>1 DEF CommitsToComplete
<1>3. Cardinality(CommitsToComplete(i)) = 0
  BY <1>2, FS_EmptySet
<1>4. /\ i.nextCommit \in 1 .. MaxCommitSequence /\ MaxCommitSequence \in Nat
      /\ i.entries \in [TransactionIds -> TransactionInventoryEntry]
      /\ i = [next |-> i.next, nextCommit |-> i.nextCommit, entries |-> i.entries]
  BY InventoryLimits DEF LocalTransactionInventory
<1>5. f = i.entries
  <2>1. \A t \in TransactionIds : RecoveredEntry(i, t) = i.entries[t]
    BY <1>1 DEF RecoveredEntry
  <2> QED
    BY <1>4, <2>1
<1>6. ApplyLocalTransactionInventoryRecovery(i)
         = [i EXCEPT !.nextCommit = i.nextCommit + 0, !.entries = i.entries]
  BY <1>3, <1>5 DEF ApplyLocalTransactionInventoryRecovery
<1>7. i.nextCommit + 0 = i.nextCommit /\ 0 <= MaxCommitSequence - i.nextCommit
  BY <1>4
<1>8. ApplyLocalTransactionInventoryRecovery(i) = i
  BY <1>4, <1>6, <1>7
<1>9. CanApplyLocalTransactionInventoryRecovery(i)
  BY <1>1, <1>3, <1>7 DEF CanApplyLocalTransactionInventoryRecovery
<1>10. ~RecoveryFenced(i)
  BY <1>1 DEF RecoveryFenced, FailClosed
<1> QED
  BY <1>8, <1>9, <1>10

\* Any inventory that structural admission lets a database load, with any
\* begin boundaries and evidence; the runs start from part of these.
AnyLoadable ==
    /\ loaded \in LocalTransactionInventory
    /\ ValidateLocalTransactionInventoryStructure(loaded)
    /\ opened = FALSE

SweepInv ==
    /\ loaded \in LocalTransactionInventory
    /\ ValidateLocalTransactionInventoryStructure(loaded)
    /\ opened \in BOOLEAN
    /\ opened => Settled(loaded)

LEMMA LoadableIsAny == SweepInit => AnyLoadable
<1> SUFFICES ASSUME SweepInit PROVE AnyLoadable
  OBVIOUS
<1>0. PICK n \in 1 .. MaxCommitSequence :
         \E f \in [TransactionIds -> LoadableEntries(n)] :
            loaded = [next |-> MaxLocalTransactionId, nextCommit |-> n, entries |-> f]
  BY DEF SweepInit
<1>1. PICK f \in [TransactionIds -> LoadableEntries(n)] :
         loaded = [next |-> MaxLocalTransactionId, nextCommit |-> n, entries |-> f]
  BY <1>0
<1>2. LoadableEntries(n) \subseteq TransactionInventoryEntry
  <2>1. /\ 1 .. (n - 1) \subseteq 0 .. MaxCommitSequence
        /\ 0 \in 0 .. MaxCommitSequence
    BY InventoryLimits
  <2> QED
    BY <2>1, NoEntryPublished
       DEF LoadableEntries, TransactionInventoryEntry, TransactionStates
<1>3. f \in [TransactionIds -> TransactionInventoryEntry]
  BY <1>2
<1> QED
  BY <1>1, <1>3, InventoryLimits DEF SweepInit, AnyLoadable, LocalTransactionInventory

LEMMA SweepNextInv ==
  SweepInv /\ [SweepNext]_sweepVars =>
     SweepInv' /\ ValidateLocalTransactionInventoryEvolution(loaded, loaded')
<1> SUFFICES ASSUME SweepInv, [SweepNext]_sweepVars
             PROVE  SweepInv' /\ ValidateLocalTransactionInventoryEvolution(loaded, loaded')
  OBVIOUS
<1>1. ASSUME loaded' = loaded
      PROVE  ValidateLocalTransactionInventoryEvolution(loaded, loaded')
  <2>1. loaded.next <= loaded.next /\ loaded.nextCommit <= loaded.nextCommit
    BY CountersAreNaturals DEF SweepInv
  <2>2. \A t \in TransactionIds : EntryStep(loaded, loaded, t) /\ ~NewlyCommitted(loaded, loaded, t)
    BY DEF EntryStep, NewlyCommitted
  <2> QED
    BY <1>1, <2>1, <2>2, EvolutionFromEntries DEF SweepInv
<1>2. CASE RecoverAndOpen
  <2>1. /\ loaded' \in LocalTransactionInventory
        /\ ValidateLocalTransactionInventoryEvolution(loaded, loaded')
        /\ Settled(loaded') /\ opened' = TRUE
    BY <1>2, RecoverySweepSuccessor DEF RecoverAndOpen, SweepInv
  <2> QED
    BY <2>1 DEF SweepInv, ValidateLocalTransactionInventoryEvolution
<1>3. ASSUME NEW t \in TransactionIds, NEW d \in LimboOperatorDecisions, ResolveLimbo(t, d)
      PROVE  SweepInv' /\ ValidateLocalTransactionInventoryEvolution(loaded, loaded')
  <2>1. /\ loaded' \in LocalTransactionInventory
        /\ ValidateLocalTransactionInventoryEvolution(loaded, loaded')
        /\ opened = FALSE /\ opened' = FALSE
    BY <1>3, ResolveSuccessor DEF ResolveLimbo, SweepInv
  <2> QED
    BY <2>1 DEF SweepInv, ValidateLocalTransactionInventoryEvolution
<1>4. CASE Close
  BY <1>1, <1>4 DEF Close, SweepInv
<1>5. CASE UNCHANGED sweepVars
  BY <1>1, <1>5 DEF sweepVars, SweepInv
<1> QED
  BY <1>2, <1>3, <1>4, <1>5 DEF SweepNext

\* Whatever admissible inventory is loaded, recovery and the operator's
\* decisions publish only what evolution admission accepts.
THEOREM RecoveryIsAdmitted == AnyLoadable /\ [][SweepNext]_sweepVars => RecoveryAdmitted
<1>1. AnyLoadable => SweepInv
  BY DEF AnyLoadable, SweepInv
<1>2. SweepInv /\ [SweepNext]_sweepVars =>
         [ValidateLocalTransactionInventoryEvolution(loaded, loaded')]_sweepVars
  BY SweepNextInv
<1> QED
  BY <1>1, <1>2, SweepNextInv, PTL DEF RecoveryAdmitted

\* One recovery settles any admissible inventory, the states the engine
\* never publishes included: every entry has an outcome, and a second
\* recovery changes nothing.
THEOREM RecoveryIsFinal == AnyLoadable /\ [][SweepNext]_sweepVars => []RecoverySettles
<1>1. AnyLoadable => SweepInv
  BY DEF AnyLoadable, SweepInv
<1>2. SweepInv => RecoverySettles
  BY SettledRecovery DEF SweepInv, RecoverySettles, Settled, Resolved
<1> QED
  BY <1>1, <1>2, SweepNextInv, PTL

\* An open is refused only for an entry that waits for a decision or a
\* review, or for want of commit sequence numbers.
THEOREM RefusedOnlyForDecisions ==
  AnyLoadable /\ [][SweepNext]_sweepVars => []OpenRefusedOnlyForDecisions
<1>1. AnyLoadable => SweepInv
  BY DEF AnyLoadable, SweepInv
<1>2. ASSUME NEW e, e.state \in TransactionStates \ {"none"}, OriginValid(e), ~AwaitsDecision(e)
      PROVE  /\ ClassifyLocalTransactionForRecovery(e) \notin FailClosed
             /\ RecoveryActionAllowed(e)
  <2>1. /\ \A s \in {"created", "active", "read_only_active", "preparing", "prepared"} :
              CheckTransactionStateTransition(s, "rolling_back", TRUE)
        /\ CheckTransactionStateTransition("rolling_back", "rolled_back", TRUE)
        /\ CheckTransactionStateTransition("committing", "committed", TRUE)
    BY DEF CheckTransactionStateTransition, BuiltinTransactionStateTransitions,
       RecoveryOnlyTransitions
  <2>2. /\ ClassifyLocalTransactionForRecovery(e) \notin FailClosed
        /\ ClassifyLocalTransactionForRecovery(e) = "complete_commit" => e.state = "committing"
        /\ ClassifyLocalTransactionForRecovery(e) = "complete_rollback" =>
              e.state \in {"created", "active", "read_only_active", "preparing", "prepared",
                           "rolling_back"}
    BY <1>2 DEF ClassifyLocalTransactionForRecovery, FailClosed, AwaitsDecision, OriginValid,
       InventoryVisibilityState, TransactionStates, RolledBackByRecovery
  <2> QED
    BY <2>1, <2>2 DEF RecoveryActionAllowed
<1>3. ASSUME SweepInv, \A t \in TransactionIds : ~AwaitsDecision(loaded.entries[t]),
             NEW t \in TransactionIds, Found(loaded, t)
      PROVE  /\ Classification(loaded, t) \notin FailClosed
             /\ RecoveryActionAllowed(loaded.entries[t])
  <2>1. OriginValid(loaded.entries[t]) /\ loaded.entries[t].state \in TransactionStates \ {"none"}
    BY <1>3, CountersAreNaturals DEF SweepInv, ValidateLocalTransactionInventoryStructure,
       EntryStructureValid, OriginValid, Found, TransactionInventoryEntry
  <2> QED
    BY <1>2, <1>3, <2>1 DEF Classification
<1>4. SweepInv => OpenRefusedOnlyForDecisions
  BY <1>3 DEF OpenRefusedOnlyForDecisions, CanApplyLocalTransactionInventoryRecovery,
     RecoveryFenced, SweepInv
<1> QED
  BY <1>1, <1>4, SweepNextInv, PTL

\* The specification the runs check starts from some of these inventories.
THEOREM RecoverySweepCorrect ==
  SweepSpec => []RecoverySettles /\ []OpenRefusedOnlyForDecisions /\ RecoveryAdmitted
  BY LoadableIsAny, RecoveryIsAdmitted, RecoveryIsFinal, RefusedOnlyForDecisions, PTL
     DEF SweepSpec
=============================================================================
