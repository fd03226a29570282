# TLA+ models of the ScratchBird transaction core

ScratchBird is a database engine with multi-generational (MGA) transactions:
writers add row versions, the *transaction inventory* says which transaction
committed, and readers decide visibility from the inventory. There is no redo
log. What keeps the data right is therefore a small set of protocols:

* how a transaction's state may change, and who may change it;
* how the inventory is replaced on disk so that a crash finds exactly one valid
  version of it, and so that two publishers cannot overwrite each other;
* how a write of several row pages is kept from becoming visible in part;
* how startup recovery settles what a crash interrupted;
* what a snapshot shows while all of this goes on;
* which row version a writer builds on, a reader gets and a sweep may remove;
* what a process may take from its cache of the inventory;
* how locks are granted and waited for, and how a savepoint is undone;
* how frames pass between a parser and the server through shared memory.

The modules here model these protocols from the source under
`src/project/src`, check them with TLC on small instances and prove nearly all
of the results with TLAPS for every instance. `PROJECT.json` maps each definition
to the lines it models and lists the hazards the properties are for.

## 1. Inventory of the system

Paths are relative to `src/project/src`.

| Component | State | Operations | Interacts with |
|---|---|---|---|
| Transaction state machine, `transaction/mga/transaction_state.*` | none; a table of 23 transitions, 4 of them for recovery only | transition check, terminal test | every transform of an inventory |
| Local transaction inventory, `transaction_inventory.*`, `transaction_inventory_validation.hpp`, `transaction_prepare.cpp` | next number, next commit sequence, one entry per transaction (state, origin of an archived entry, begin and commit sequence, evidence, rollback-only, snapshot class) | begin, prepare, commit, rollback, mark rollback-only, archive, compact; structural and evolution admission | pure: callers load, transform and publish |
| Recovery, `transaction_recovery.cpp` | none | classify, apply, resolve limbo by an operator's decision | writable open of a database |
| Snapshots and visibility, `transaction_snapshot.cpp`, `row_version_observation.hpp` | the published vectors of a transaction | create, publish, resolve, revoke; evaluate a row version | reads the inventory at another moment than the snapshot did |
| Inventory store, `storage/database/local_transaction_store.cpp` | publish journal, page chain, temporary file, cache | load, publish with compare-and-swap on a base | disk; every caller that changes the inventory |
| Guarded publication, `storage/database/identity_publication_fence.hpp`, `engine/internal_api/catalog/catalog_journal_batch.hpp` | the publication base of the marker | begin (mark), complete (release) | inventory store |
| Copy-on-write store, `storage/database/physical_mga_cow_store.cpp` | row pages | single mutation, mutation batch, finalize, reads | inventory store, disk |
| Cleanup and horizons, `transaction_cleanup*.cpp`, `transaction_horizon_projection.hpp`, `storage/page/row_version_cleanup_batch.cpp`, `row_data_physical_sweep.cpp` | none between calls; the evidence of a sweep | project horizons, choose versions, sweep a page | inventory, published snapshots, row pages |
| Database lifecycle, `storage/database/database_lifecycle.cpp` | header, catalog images, manifests | create, open, activate, shut down | recovery, inventory store |
| Engine transaction API, `engine/internal_api/transaction` | session and transaction contexts | begin, prepare, commit, rollback, savepoints, inspection | everything above |
| Transaction locks, `transaction_lock.*` | owners and mode per resource, wait records, admission policy | acquire, retry, release, release all | the engine API asks, and releases at the end of a transaction |
| Savepoints, `savepoint.*` | stack of marks, recorded mutations | create, release, record, plan and execute a rollback | an undo executor of its caller |
| Shared-memory IPC ring, `ipc/shared_memory_ipc_ring.*` | cursors, slots, payload arena and records | enqueue, dequeue, resolve and release a handle | parser and server |
| Lock wait lifecycle, status cache, isolation policy, `transaction/mga` | wait queues, cached outcomes | see section 6 | not driven by the engine, or stateless |
| Parser pool and listener, node manager, server | worker, session and process tables | acquire, recycle, drain; start, restart | the engine through its public interface |

What is hard about them, and hard to test:

* *Crashes.* A publication is about ten I/O calls, a BEGIN is two publications,
  a batch adds page writes and two more. Every gap is a state to recover from.
* *Calls that fail after they took effect.* A directory sync that reports an
  error after a rename leaves an inventory in place that nobody was told of.
* *Stale reads.* Callers load, compute and publish; another publication may
  come between. Readers evaluate an old snapshot against a new inventory.
* *Long histories.* Archival and compaction rewrite entries that later
  decisions rest on; recovery must settle states only an older or failing
  engine has left behind.
* *Order of outcomes.* Row versions are numbered when they are written and
  decided in another order; horizons compare numbers, snapshots exclude them.
* *Choice and act apart.* A sweep chooses versions and removes them later; a
  cached inventory is checked and used later; a lock is retried later.
* *Limits.* Numbers, commit sequences and generations are 64-bit counters with
  explicit exhaustion checks, and a BEGIN needs two generations.

What makes each correct: an inventory that the engine publishes is one the
engine loads; evolution never changes an outcome or reuses a number; an
acknowledged publication survives every crash; a transaction interrupted or
marked rollback-only never commits; no part of a batch is visible without the
rest; a statement's view does not move, whatever is committed, undone or swept;
an exclusive lock has one owner and nobody is overtaken on a lock that is held;
what a savepoint rollback reports undone is undone; the ring delivers each frame
once, in order; recovery settles in one pass and waits only where a decision is
really missing.

## 2. The modules

```
TransactionState ── TransactionInventory ──┬── TransactionRecovery ──┬── MgaTransactions ──┐
                                           │                         └── RecoverySweep     ├── MgaReaders
                                           └── TransactionSnapshot ──────────────────────── ┘
MgaReaders, RecoverySweep ── TransactionInventoryProofs
InventoryValues ──┬── InventoryStore
                  └── InventoryPublication ── InventoryPublicationProofs   (implements InventoryStore)
InventoryCache ── InventoryCacheProofs       (the same store, seen from one process)
CowBatch ── CowBatchProofs
RowVersions ── VersionSweep ── VersionSweepProofs
TransactionLocks ── TransactionLocksProofs
Savepoints ── SavepointsProofs
IpcQueue ── IpcRing ── IpcRingProofs         (implements IpcQueue)
```

**TransactionState.** The enumeration, the built-in transition table and
`CheckTransactionStateTransition`. `ReachableTransitions` is the closure that
evolution admission computes from the table.

**TransactionInventory.** An inventory is a record of the two counters and a
function from numbers to entries; state `"none"` stands for "no entry".
For each transform of `transaction_inventory.cpp`, `CanX` collects its early
returns and `X` is its result. `ValidateLocalTransactionInventoryStructure` and
`ValidateLocalTransactionInventoryEvolution` are the two admission checks.
UUIDs (fresh at every BEGIN), timestamps and the scope field (always the local
node in this repository) are left out. `StartingInventory` is the first of the
two publications of a BEGIN.

**TransactionRecovery.** `ClassifyLocalTransactionForRecovery` is the decision
per entry, `CanApplyLocalTransactionInventoryRecovery` and
`ApplyLocalTransactionInventoryRecovery` the pass over the inventory with the
commit sequence numbers it hands out in entry order, `RecoveryFenced` the
condition on which the open is refused, and the limbo resolution is the
operator's.

**TransactionSnapshot.** Creation of a snapshot (exclusion lists, commit
boundary, stable or per-statement) and the set of creators visible through it.

**MgaTransactions.** The engine over a published inventory: one action per
operation, each the whole load, transform and publish. `candidate` is the BEGIN
that has published its starting entry only; the device guard keeps others out
until the activation is published or fails. `guardOwner` says whether the owner
of the last rollback-only marker still holds the exact publication base, which
is what `IdentityPublicationFence` and the catalog batch need to release it.
`Crash` drops the volatile state, `OpenDatabase` is the recovery block of the
writable open.

**MgaReaders.** Adds readers. A statement takes a snapshot and keeps evaluating
it against the inventory of the moment; the end of a transaction revokes its
snapshots.

**RecoverySweep.** Recovery as a pure algorithm: its initial states are all
inventories of three entries that loading admits, including `preparing`,
`committing`, `limbo`, `recovering` and `failed_terminal`. The present engine
publishes none of these five, but its recovery code handles them, and the
inventory it opens need not be one it wrote. Operator resolution and repeated
opens (`RecoverAndOpen`) are the steps. It shares no variable with
`MgaTransactions`, so that one proof module can speak of both.

**InventoryValues, InventoryStore.** The abstract promise of publication: a
register with a visible value, the set of values a crash may leave
(`possible`), and what callers were told (`acked`). `Switch` makes a publication
visible, `Harden` makes it durable, `Fall` is a crash.

**InventoryPublication.** The protocol itself: journal "publishing" by
temporary file, file sync, rename and directory sync; the pages with one sync
or a sync each; journal "committed" the same way; then, for a BEGIN, all of it
again for the activation. Each call is an action and `Fail` may take its place.
The set of images a crash may leave is kept per file (`maybeJournal`,
`maybePages`). Entry states are reduced to the four that publication tells
apart. Callers load, hold a base, and are refused when it is stale.

**CowBatch.** The batch writer over the register of `InventoryStore`: publish
the marker, write the row pages, sync them when asked, publish the release.
Publication is one step with the outcomes `InventoryPublication` shows: done
(which syncs the device, row pages included), failed before or after that sync,
or failed with the new inventory visible and not durable. The starting state of
a BEGIN is folded into the one publication, since no batch can start from it. A
row page torn by a crash counts as not written, and pages are kept per batch:
what a batch adds are its own row versions.

**RowVersions.** The versions of rows on a page. `Mutate` is a write in a
caller's transaction, `MutateOwned` and `MutateOwnedFails` one that begins,
and on failure rolls back, a transaction of its own. When that rollback fails
too the code reports the transaction (`unresolved_owned_transaction`) and leaves
it active: it may then write, prepare, roll back or commit like any other, in the
code and in the model. What a failed mutation leaves on the page without such a
report is remembered as a ghost (`leftovers`). `BaseRow` is the version a writer builds
on, `Blocked` the wait for another writer's outcome, `ReadVersion` a read
through a snapshot with own writes and delete markers. Each operation holds the
device guard, so each is a step. The module has no next-state relation of its
own: `VersionSweep` composes it.

**VersionSweep.** Adds readers with a stable snapshot and the sweep:
`CleanupHorizon` from running transactions, published snapshots and stable
readers, `Reclaimable` for one version, `ChooseVersions` (a workset a budget may
cut anywhere, any further hold) and, as a later step, `SweepPage`. The ghost
`view` remembers what was committed last when a stable reader began.

**InventoryCache.** The process-wide cache of the inventory. Publishing threads
replace the journal twice under the device guard and may leave the cache alone,
empty it or refresh it; loading threads look at the cache, check it (quickly by
size and time, strongly by hash too) or load cold, each look and each check a
step of its own. `Revalidate` is the fence before a statement.

**TransactionLocks.** The lock table the engine uses for named locks. Every
method runs under the table's mutex and is one action; `Decision` is the answer
of `AcquireInternal`, in the order of its tests. `RemoveOwner` takes an owner
out of the vector as the code does; it is a recursive function because the
provers know nothing of `SelectSeq`.

**Savepoints.** The savepoint stack of a session and the undo it drives.
`present` is what is on the pages, so a stack that believes in an undo that did
not happen is seen. The mark of a savepoint is whatever number the caller passes
(the worker of the native parser passes 0), so marks are in no order; mutations
may come without undo evidence. `ExecuteRollbackTo` takes the set of supported kinds and the
action whose undo fails as inputs. `Without` erases savepoints from the vector
and is a recursive function for the same reason.

**IpcQueue, IpcRing.** The bounded queue the ring promises, and the ring:
cursors that count on, reused slots with generations, the walk over the active
payloads sorted by offset that finds room in the arena (`SortedBefore`,
`CursorBehind`, `RoomBefore`, `FindPayloadOffset`), handles that are resolved and
released at any time. A message of the queue carries its number, and the queue
accepts only numbers above the earlier ones of the kind.

**Proof modules.** `TransactionInventoryProofs` (the engine, its readers and
recovery), `InventoryPublicationProofs`, `InventoryCacheProofs`,
`CowBatchProofs`, `VersionSweepProofs`, `TransactionLocksProofs`,
`SavepointsProofs`, `IpcRingProofs`: section 5.

## 3. The runs

| Run | States | What it shows |
|---|---|---|
| `transactions` | 119,608 | Any order of begins, prepares, commits, rollbacks, guarded writes, archival, compaction, crashes and reopens keeps every publication admissible, and so loadable (`EvolutionAdmitted`), and every counter within its limit (`TypeOK`); a transaction lost in a crash never commits (`LostNeverCommits`), nor does one that is rollback-only (`RollbackOnlyNeverCommits`); only a prepared transaction holds a reopen (`ReopenWaitsOnlyForPrepared`). |
| `readers` | 434,546 | A running statement keeps its view (`SnapshotIsStable`); a stable reader has the same view at each statement (`RepeatableRead`). |
| `recovery` | 532,568 | From every loadable inventory: recovery produces an admissible successor (`RecoveryAdmitted`), settles in one pass (`RecoverySettles`), and is refused only for entries that await a decision (`OpenRefusedOnlyForDecisions`). |
| `publication` | 1,244,034 | With failures and crashes at each I/O call: what a crash leaves can be loaded (`AlwaysLoadable`), a committed journal has its pages (`CommittedJournalHasPages`), a generation names one inventory (`GenerationNamesInventory`), acknowledgements survive (`AckedSurvivesCrash`), numbers are not issued twice (`NumbersNeverReissued`), and as long as no call fails nothing that was read is taken back (`ReadsSurviveCrash`). |
| `publication_store` | 221,212 | The protocol implements `InventoryStore` (`ImplementsStore`), and the database is eventually opened (`EventuallyOpened`). |
| `cow_batch` | 26,703 | No part of a batch is committed without the rest (`NoCommittedPrefix`), a batch reported done is whole when its transaction is committed (`DoneBatchesCommitted`), a broken batch leaves its transaction no way but back (`BrokenBatchNeverCommits`). |
| `version_sweep` | 692,648 | A latest-committed read returns what the last commit left, whatever is pending or undone above it (`LatestReadIsLastCommit`); what a failed owned mutation left is never read unless it reported its transaction as unresolved (`LeftoversStayUnread`); a pinned snapshot keeps its view (`PinnedReadsAreStable`), and a stable reader has at each statement the versions committed last when it began (`StableReadersKeepTheirView`); with delete markers kept, a sweep changes nobody's result (`SweepChangesNoRead`). |
| `version_sweep_markers` | violation | With delete markers reclaimed, as a request does by default, `SweepChangesNoRead` fails: see below. |
| `inventory_cache` | 1,779,873 | A strong load never returns an inventory replaced before it began (`StrongLoadsAreCurrent`), a snapshot is never paired with another journal's signature (`SnapshotMatchesSignature`), and while file times tell journals apart the quick fence is as good (`LoadsAreCurrentWithDistinctTimes`). |
| `transaction_locks` | 68,811 | Exclusion through grants, upgrades and releases (`ExclusiveIsExclusive`), no wait record past its grant (`WaitersLackTheirLock`), no overtaking on a held lock (`NoOvertaking`), and an answer other than "wait" for each member of a closed, innermost deadlock that heads its queue (`HeadedDeadlocksAreFound`). |
| `savepoints` | 159,763 | What the stack calls rolled back is off the pages (`RolledBackIsUndone`), a rollback that reports success has undone everything after the savepoint and nothing before (`SuccessIsComplete`), and one that failed half way can be planned again until the session gives up a savepoint or records a mutation without undo evidence (`OnlyDiscardStrandsUndo`). |
| `ipc_ring` | 872,041 | A payload takes the lowest room that overlaps none in use and is refused only if there is none (`AllocationIsFirstFit`), a handle reads its own bytes until it is released and nothing afterwards (`HandlesResolveUntilReleased`), and the ring implements the queue, growing numbers included (`ImplementsQueue`). |

Three results deserve a word.

*A delete marker swept before what it hides.* A marker is reclaimed on the
number of its own creator (`transaction_cleanup.cpp:51`), and nothing asks
whether the version below it goes too. In the trace of `version_sweep_markers`
transaction 1 inserts the row, deletes it and commits; a workset that was cut
short holds the marker and not the version it hides; the marker is removed, and
the row is read again. It stays: the version's link names a successor that is no
longer there, and a version with an unknown successor is retained
(`transaction_cleanup.cpp:415-421`). `version_sweep` shows that with
`reclaim_delete_markers` off nothing else can go wrong. At this commit the agent
that drives the sweep supplies no evidence and so removes nothing; the defect is
in the code it would call.

*A crash with a prepared transaction.* A writable open is refused while an entry
waits for a decision, and a prepared entry waits for one that only the
transaction's own client can give, through an open database. The model shows
that this is the only such case among the inventories the engine publishes
(`ReopenWaitsOnlyForPrepared`). The code refuses deliberately, with a diagnostic
of its own, so it is recorded as a hazard and not as a defect.

*A failed directory sync.* `ReadsSurviveCrash` is conditional on no failing
call, and has to be: after a failed sync the new inventory is visible, callers
act on it, and a crash may still take it back until the next publication syncs
the directory. The engine reports the outcome of such a commit as unknown, and
`AckedSurvivesCrash`, which has no condition, shows that nothing a caller was
*told* is lost.

### Bounds

* `MaxLocalTransactionId = 4`, `MaxCommitSequence = 3` (`4` in `recovery`): the exclusive
  limits of the counters, so three transactions and two or three commits. Three
  are needed for an older writer, a reader and a newer writer; with the limits
  this low, exhaustion is reached too.
* `MaxSnapshots = 1` statement running at a time: snapshots do not interact.
* `NumPages = 2`: a first and a last page, with a crash between.
* `MaxGeneration = 7`: six publications, three BEGINs' worth, and the case where
  one generation is left and a BEGIN needs two; `12` in `publication_store`, so
  that recovery never runs out of generations (with exhaustion the database
  could indeed not be reopened).
* `MaxFailures`, `MaxCrashes` `= 2` (`1` for the liveness run): a failure
  of the attempt that follows a failure, a crash after a crash.
* `NumRowPages = MaxBatches = 2`: a batch with a proper prefix, and a batch
  after a finished one.

* `version_sweep`: one row, `MaxTxn = 3`, `MaxVersions = 4`: a deleting
  transaction with a lower number than the inserting one beside a reader, and
  versions that were undone above and below what a reader needs; one crash. Rows
  do not interact.
* `inventory_cache`: one publisher (publications exclude each other) and two
  loaders, two publications, three ticks: two journals may share a tick or not.
  One size, since a size that differs only helps the fence.
* `transaction_locks`: three transactions, two resources, both modes: upgrades
  by two owners of a shared lock, a cycle over two resources and a third party
  in a queue; `MaxSequence = 3` waits, timeouts `0` and `1` with two ticks.
* `savepoints`: two transactions, two names, two savepoints at a time with any
  marks, three mutations of two kinds, with undo evidence or without: an undo that
  stops in the middle, a name used again, marks in the wrong order.
* `ipc_ring`: two slots, used again from the third frame on; an arena of six
  bytes for payloads of two or three, so that the room may be there only in
  pieces; five frames.

Callers, loaders, lock owners, resources, savepoint names and the transactions
of `CowBatch` are symmetric; the liveness run uses no symmetry. Deadlock is not checked: with bounded counters a system that used
them up may stop, and a database that waits for a decision has no step to take.

### Fairness

Only `InventoryPublication` states fairness. A thread inside a publication runs
straight-line code and so is weakly fair, and an open that is needed is
attempted (`OpenStep`), each caller on its own. Callers need not begin or finish
anything, and failures and crashes are bounded, never required. That is what
"once failures stop, the database opens" needs and no more.

## 4. Mutants

Each property is shown to depend on the code by a mutant: a mapped definition is
replaced by a version with a plausible mistake (a sync left out, a base not
compared, a marker not looked at, one generation where two are needed, a shared
commit sequence, ...) and the property fails. They are defined next to the
definitions they replace, marked "Mutant".

## 5. What is proved

The runs check forty properties; all but one are also
theorems, for every value of the constants that satisfies the named assumptions
(three of them under a condition on delete markers, see `VersionSweepProofs`). The
assumptions give the constants their types, with limits that leave room for the
initial state; only the ring's also relate sizes, as its configuration check does.

`TransactionInventoryProofs` proves, for any limit on transaction numbers and
commit sequence numbers (`InventoryLimits`):

* `MgaTypeCorrect`: `Spec => []TypeOK`;
* `LostStaysLost`: `Spec => []LostNeverCommits`;
* `MarkedNeverCommits`: `Spec => []RollbackOnlyNeverCommits`;
* `PublicationsEvolve`: `Spec => EvolutionAdmitted`;
* `OnlyPreparedKeepsClosed`: `Spec => []ReopenWaitsOnlyForPrepared`;
* `StatementsSeeOneState`: `ReadersSpec => []SnapshotIsStable`;
* `StableReadersRepeat`: `ReadersSpec => RepeatableRead`;
* `RecoveryIsAdmitted`, `RecoveryIsFinal` and `RefusedOnlyForDecisions`:
  `RecoveryAdmitted`, `[]RecoverySettles` and `[]OpenRefusedOnlyForDecisions`
  for `AnyLoadable /\ [][SweepNext]_sweepVars`.

`LostNeverCommits` is not inductive: a lost entry may be compacted away, and
what then keeps its number from being taken up again is that the counter only
grows. The invariant `MgaInv` says that (a) the inventory passes structural
admission, only eight of the fourteen states are ever published, an archived
entry comes from a commit or a rollback, and no entry with a committed outcome
is rollback-only (`Published`); (b) every number from the counter on is free;
(c) a lost transaction lies below the counter and has *ended*, or the database
is closed and it is one that recovery will roll back; (d) a pending activation is
a *successor* of the published inventory. The argument is that each transform
yields a `Successor`: it is admitted as an evolution, the counter does not shrink
and what has ended stays ended. Evolution asks for a path in the transition
table; `PublishedSteps` lists the twelve changes the transforms make in one
publication, and each is shown to lie in the closure the admission check
computes. There is one lemma per transform on an entry, one per transform on an
inventory, and one per action. Recovery needs that a published inventory holds
no interrupted commit, so that it completes none, and that recovery of a
published inventory is refused for a prepared entry only.

For readers, `ReadersInv` adds that the commit boundary of a running statement is
below the commit counter and that what it saw was created by numbers handed out:
a later commit then lies outside the boundary, and a compacted entry drops out of
both sides.

The theorems about recovery start from any inventory that structural admission
lets a database load (`AnyLoadable`), with any begin boundaries and evidence; the
run starts from those with three entries and the fields that matter, and
`RecoverySweepCorrect` shows that its initial states are among these. The core is
what a pass makes of an entry (an entry it completes is settled, one it leaves
alone was), and that the commit sequence numbers it hands out in entry order are
distinct, new and within the limit.

`CowBatchProofs` proves, for any set of transactions, any number of pages,
batches, failures and crashes:

* `CowTypeCorrect`: `Spec => []CowTypeOK`;
* `CommittedBatchesAreWhole`: `Spec => []NoCommittedPrefix`;
* `ReportedBatchesSurvive`: `Spec => []DoneBatchesCommitted`;
* `BrokenBatchesRollBack`: `Spec => []BrokenBatchNeverCommits`.

`NoCommittedPrefix` is not inductive: it says nothing of an active transaction.
The invariant `CowInv` adds that in every inventory a crash may leave, a
transaction is *doomed* (rolled back, or active and rollback-only) unless all
its batches are *clean* (no page written, or all pages durable), and that the
batch that holds the device belongs to an active, marked transaction and has
written just the pages before its current one (`RunningBatch`). Marking makes
doomed before the first page is written; release is preceded by the sync of the
publication itself, which makes the batch clean; a crash keeps clean batches
whole. A lemma per action shows that `CowInv` is preserved; publication is
factored out (`PublishInv`, `PublishEntryInv`) because six actions end in one.
The assumption is `CowLimits`.

`InventoryPublicationProofs` proves, for any set of callers and any number of
pages, transactions, generations, failures and crashes, from
`PublicationConstants` and `ValueLimits`:

* `PublicationTypes`: `Spec => []PublicationTypeOK`;
* `InventoryAlwaysLoadable`: `Spec => []AlwaysLoadable`;
* `CommittedPagesAreDurable`: `Spec => []CommittedJournalHasPages`;
* `GenerationsNameInventories`: `Spec => []GenerationNamesInventory`;
* `ReadsSurvive`: `Spec => []ReadsSurviveCrash`;
* `AcknowledgementsSurvive`: `Spec => []AckedSurvivesCrash`;
* `NumbersAreNotReissued`: `Spec => NumbersNeverReissued`;
* `PublicationImplementsStore`: `Spec => ImplementsStore`, the refinement;
* `RegisterKeepsAcknowledgements`: `ImplementsStore => []AckedSurvivesCrash`, what a
  caller may conclude from the abstract store alone.

None of these is inductive. The observation behind the invariant `Inv` is that
*the journal alone* decides what is selected: a "publishing" journal names the
old selection and makes the pages irrelevant, and wherever a committed or absent
journal may be found the pages can have only the one image it names (`FilesOK`).
What holds between the journal, the images a crash may leave, the temporary file
and the pages is then a statement per step of the running publication (`TempOK`,
`JournalOK`, `PagesOK` under `PubInv`). Around it: every journal a crash may leave
knows of every generation ever selected, so that the next one is new
(`GenerationsKnown`, `Fresh`); all selections a crash may leave honour every
acknowledgement (`AcksOK`), which is kept because evolution composes; nobody was
told of the number of an unfinished BEGIN (`Unreported`); and as long as no call
has failed, what was read leads to everything a crash may leave (`ReadsInv`).
There is a lemma per I/O call and per caller action for each part it can
disturb. For the refinement, the rename of the committed journal is the
register's `Switch`, its directory sync `Harden`, a crash `Fall`, and every other
step is shown to stutter or to acknowledge.

`InventoryCacheProofs` proves, for any number of threads, publications, sizes and
ticks, from `CacheConstants`:

* `StrongLoads`: `Spec => []StrongLoadsAreCurrent`;
* `QuickLoads`: `Spec => []LoadsAreCurrentWithDistinctTimes`;
* `SignaturesNameInventories`: `Spec => []SnapshotMatchesSignature`.

The invariant `CacheInv` says that a hash names one inventory among all journals
written (`JournalInv`), that whoever has the database open holds the guard, so
that the journal a cold load has read is still there when its signature is read
(`GuardInv`), that every snapshot is a journal that was written (`SnapshotInv`),
and that a running load has the selected inventory among those it may return
(`SelectedInv`). Publications are reduced to `ReplaceJournalInv`, steps of a load
to `LoaderInv`; the two fences enter through `QuickFenceIsSound` and
`SignatureIsSound` only.

`VersionSweepProofs` proves, for any number of transactions, versions and crashes
and any rows, from `RowConstants` and `SweepConstants`:

* `SweepTypes`: `SweepSpec => []SweepTypeOK`;
* `LatestReadsAreLastCommits`: `SweepSpec => []LatestReadIsLastCommit`;
* `LeftoversAreNeverRead`: `SweepSpec => []LeftoversStayUnread`;
* `SweepsChangeNoRead`: `SweepSpec => SweepChangesNoRead`, if delete markers are
  kept (`~ReclaimDeleteMarkers`);
* `PinnedReadsStay`: `SweepSpec => []PinnedReadsAreStable`, likewise;
* `StableReadersKeep`: `SweepSpec => []StableReadersKeepTheirView`, likewise.

The condition on the last three is not one of convenience: without it they are
false, and the run `version_sweep_markers` shows how. The invariants build on
each other. `PageInv`: above a version whose writer runs there are only versions
of that writer and undone ones, because a writer waits for the others' pending
versions, so commits stack up on a row in the order of their numbers
(`CommitsInOrder`) whatever is removed in between. `StableInv` and `PinInv`:
whatever runs and could be seen is excluded from a pinned snapshot, and what
ended before its reader and is not excluded lies below its boundary. `EvInv`: a
version that a sweep has chosen is `Doomed`, that is, undone or below a committed
version that everybody sees now and in every snapshot a running stable reader can
still take. Doom does not go away, which is what makes choosing and removing safe
as two steps; that the horizon computed from running transactions, pins and
stable readers implies it is `HorizonFacts` and `BelowHorizonSeen`. `SawInv`
carries the view of each pin along. `ViewInv` says that the newest version among
the commits up to a stable reader's boundary is the one its view remembers: new
commits lie above the boundary, and what a sweep takes is undone or below a
version that the next statement sees. That nobody reads a leftover rests on
`LeftoversOK`: its writer has been rolled back, and that is final.

`TransactionLocksProofs` proves, for any transactions, resources, timeouts and
limits, from `LockConstants`:

* `LockTypes`: `Spec => []LocksTypeOK`;
* `ExclusiveLocks`: `Spec => []ExclusiveIsExclusive`;
* `WaitsAreOutstanding`: `Spec => []WaitersLackTheirLock`;
* `WaitersAreNotOvertaken`: `Spec => NoOvertaking`, an action property;
* `DeadlocksAreFound`: `Spec => []HeadedDeadlocksAreFound`.

The invariant `LocksInv` adds that owners are listed once and an empty list is a
lock of no mode (`LockOK`), that a wait record is its transaction's own, and that
no two have the same place in the order of waits (`WaitsOK`). What `RemoveOwner`
leaves (the other owners, each once) is shown for every list by the
least-element argument: the first position where it would fail has a predecessor
where it holds.

The deadlock search gives up beyond as many hops as locks are held, plus one, and
starts at one owner only. `SearchCloses` shows that this is deep enough: as long
as a hop leaves the set reached open, the members wait for one more held lock than
before, so at the last hop the set is closed. If it missed the requester it would
be a deadlock inside an innermost one (`MemberIsFound`). `SearchInv` adds that the
table is finite, so that there is a number of held locks to count.

`SavepointsProofs` proves, for any names, kinds, depth and number of mutations,
from `SavepointConstants`:

* `RolledBackStaysUndone`: `Spec => []RolledBackIsUndone`;
* `SuccessfulRollbackIsComplete`: `Spec => SuccessIsComplete`, an action
  property;
* `SavepointTypes`: `Spec => []SavepointsTypeOK`;
* `OnlyDiscardStrands`: `Spec => OnlyDiscardStrandsUndo`, an action property.

The invariant `UndoInv` adds to the first that the pages hold recorded mutations
only. Whether an undo stopped half way does not matter: only a complete one
marks. For the last, `StackInv` says that a transaction has one savepoint of a
name (`NamesAgree`), so that a savepoint a step has kept is found by its name
again with the mark it had; marks are in no order. A rollback that can be planned
stays so: a successful one marks everything above its mark and drops only
savepoints above it, so either the half-undone mutation is marked with the rest
or the savepoint that covers it stays and has fewer mutations to undo.

`IpcRingProofs` proves, for any number of slots, size of the arena and number of
frames, from `RingConstants`:

* `PayloadsNeverOverlap`: `Spec => []ActivePayloadsAreDisjoint`;
* `AllocatesFirstFit`: `Spec => []AllocationIsFirstFit`;
* `HandlesResolve`: `Spec => []HandlesResolveUntilReleased`;
* `RingImplementsQueue`: `Spec => ImplementsQueue`, the refinement.

The invariant `RingInv` says that the frames between the cursors are in occupied
slots, each in its own (`WindowInv`), and that the bytes of a payload in use are
its own and one no longer in use was released (`PayloadInv`). Disjointness makes
the second inductive, and a released slot lies outside the window. It also makes
the walk right: below the payload at which it stops, the cursor has passed every
payload, and each lower offset meets one of them. `GenerationInv` adds that
payload generations count the records, so that no two handles have the same and
a released one never comes back. For the refinement, a step on the ring is shown
to append to or take from the sequence of messages in the window, and the others
to leave it alone; `SequenceInv` says that every number used for a frame in the
ring or received is below the next of its kind.

Only model-checked: `EventuallyOpened`, liveness under fairness, which needs
`ENABLED`. The violation of `version_sweep_markers` is TLC's as well.

The type invariants `LocksTypeOK`, `SavepointsTypeOK` and `SweepTypeOK` are proved
and not part of a run, where each would only repeat the declarations;
`CacheTypeOK` documents the state.

## 6. Not modelled

* Page and journal encoding, checksums (a file that fails its digest is `Torn`),
  growth of the page chain.
* Torn in-place writes of a row page: the code disclaims them.
* Large values and page allocation of the copy-on-write store; what a catalog
  batch writes between marker and release.
* The authority checks around the registry of published snapshot vectors.
* The agent that drives the sweep, archive and backup holds, index cleanup.
* The lock wait lifecycle (`lock_wait_lifecycle.cpp`): only a conformance test
  constructs it.
* The visibility status cache: its entries are keyed by an epoch its callers
  pass, and what makes an entry stale is decided outside the file.
* The parser pool, listener, manager and server: separate processes and tables
  that share no state with the transaction core.
* Cluster-global transactions: the provider of this build fails closed.
* Query processing, indexes, memory, agents, parsers, wire protocol, drivers and
  tools, which are most of the repository's lines: pure computation, text
  translation or I/O around the core, with no protocol state to explore. This is
  why the map covers a small share of the repository although it covers most of
  the transaction core.

### Met while reading, not checked by a run

These are what the code does; the models keep the behaviour where they cover it.

* `transaction_lock.cpp:230`: a request queued behind an earlier waiter is not
  searched for a deadlock, and the search follows owners only. Two owners that
  want each other's lock, each behind a third party, are told to wait at every
  retry. `HeadedDeadlocksAreFound` is stated for heads of queues for this reason.
* `transaction_lock.cpp:288`: the search starts at the first owner that blocks the
  request. If that one runs, a cycle through another owner of the same shared lock
  is not found before it releases; the property speaks of deadlocks whose members
  wait for members only.
* `transaction_lock.cpp:195`: a lock whose last owner released it is granted to
  whoever asks first, past the transactions that wait for it; `NoOvertaking` is
  about locks that are held.
* `physical_mga_cow_store.cpp:1168`: an owned mutation that fails and cannot be
  rolled back is reported as unresolved and no more; its transaction may be
  committed by its number, and its version is then read. `:1101`: a mutation in a
  caller's transaction that fails after its page was written leaves no mark on the
  transaction.
* `savepoint.cpp:229`: one mutation without undo evidence after a rollback that
  failed half way makes it impossible to plan, so to finish, for good;
  `OnlyDiscardStrandsUndo` lists it among the ways to lose the undo.
* `transaction_lock.cpp:354`: `Retry` takes no time and reuses the stored
  request, so a queued wait never times out by itself.
* `savepoint.cpp:290`: support for a kind of mutation is asked inside the undo
  loop, so a rollback refused as unavailable may already have undone later
  mutations; the conformance test of this case has the unsupported one first.
* `local_transaction_store.cpp:245`: two journals of one size within a tick of
  the file clock are one to the quick fence; `LoadsAreCurrentWithDistinctTimes`
  names the condition.
* `lock_wait_lifecycle.cpp:388` and `:786`: the wait dropped for a deadlock
  victim is the first wait of that owner, and blocking grants are refreshed for
  the first wait of a resource only.
* `physical_mga_cow_store.cpp:810`: a writer builds on the latest commit, not on
  what it read; conflicts with an unseen update are left to the executor.
* `physical_mga_cow_store.cpp:560`: a page with versions of a creator that
  compaction has dropped is refused; nothing names who sweeps first.
* `transaction_cleanup.cpp:415`: a superseded version whose successor has
  already been swept is retained for ever.
* `shared_memory_ipc_ring.cpp:486`: records of released payloads are kept, so
  the table and every search of it grow with the traffic.
* `parser_pool.cpp`: stopping a worker clears its client address without
  recording the end of the session, so the client's quota is not given back.

## 7. Plan

Done: state machine, inventory, recovery, snapshots, publication with its
abstract store, the inventory cache, batch writer, row versions and sweep,
locks, savepoints, IPC ring with its abstract queue; for each of them its safety
properties as theorems, and the two refinements.

Theorems next: that the four entry states of the publication protocol are an
abstraction of the inventories of `MgaTransactions`, so that its evolution check
is theirs; `CacheTypeOK`.

Models next: the parser pool with its quotas, and a composition of `RowVersions`
with compaction of the inventory.
