------------------------------ MODULE CowBatch ------------------------------
(***************************************************************************)
(* The careful-write protocol of a copy-on-write mutation batch            *)
(* (src/project/src/storage/database/physical_mga_cow_store.cpp): before   *)
(* the first row page is written the batch publishes that its transaction  *)
(* is rollback-only, and only after the last page it publishes the release *)
(* of that marker.  No page is ever undone, so what keeps half a batch     *)
(* from becoming visible is that its transaction cannot commit.            *)
(*                                                                         *)
(*   inv, possible    the selected inventory and the ones a crash may      *)
(*                    leave: the register of InventoryStore                *)
(*   written          the row pages of each batch written so far           *)
(*   durable          those that no crash can lose                         *)
(*   batch            the batch that holds the device                      *)
(*   started          batches started by each transaction                  *)
(*   done             ghost: batches reported as successful                *)
(*   opened           startup recovery has been published                  *)
(*                                                                         *)
(* A row page that a crash tears counts as not written.  The pages of two  *)
(* batches are kept apart by batch: the new row versions are.              *)
(***************************************************************************)
EXTENDS Naturals, FiniteSets

CONSTANTS
    Txns,          \* transaction numbers
    NumRowPages,   \* row pages a batch touches
    MaxBatches,    \* bound: batches per transaction
    MaxFailures,   \* bound: failing calls
    MaxCrashes     \* bound: crashes

ASSUME CowLimits ==
    /\ NumRowPages \in Nat \ {0}
    /\ MaxBatches \in Nat
    /\ MaxFailures \in Nat
    /\ MaxCrashes \in Nat

VARIABLES inv, possible, written, durable, batch, started, done, opened,
          failures, crashes

cowVars == <<inv, possible, written, durable, batch, started, done, opened,
             failures, crashes>>

RowPages == 1 .. NumRowPages
Batches == Txns \X (1 .. MaxBatches)
Entry == [ state : {"none", "active", "committed", "rolled_back"},
           rollbackOnly : BOOLEAN ]
NoBatch == [step |-> "none"]
Batch(step, id, page, sync) ==
    [step |-> step, id |-> id, page |-> page, sync |-> sync]

\* Inventory, pages and the running batch have their types.
CowTypeOK ==
    /\ inv \in [Txns -> Entry]
    /\ inv \in possible /\ possible \subseteq [Txns -> Entry]
    /\ written \in [Batches -> SUBSET RowPages]
    /\ durable \in [Batches -> SUBSET RowPages]
    /\ \/ batch = NoBatch
       \/ batch \in [step : {"write", "sync", "release"}, id : Batches,
                     page : RowPages, sync : BOOLEAN]
    /\ started \in [Txns -> 0 .. MaxBatches]
    /\ done \subseteq Batches
    /\ opened \in BOOLEAN
    /\ failures \in 0 .. MaxFailures /\ crashes \in 0 .. MaxCrashes

Init ==
    /\ inv = [t \in Txns |-> [state |-> "none", rollbackOnly |-> FALSE]]
    /\ possible = {inv}
    /\ written = [b \in Batches |-> {}]
    /\ durable = [b \in Batches |-> {}]
    /\ batch = NoBatch
    /\ started = [t \in Txns |-> 0]
    /\ done = {}
    /\ opened = TRUE
    /\ failures = 0
    /\ crashes = 0

-----------------------------------------------------------------------------
(***************************************************************************)
(* Publication, as InventoryPublication shows it: it syncs the device      *)
(* (row pages included) before the new inventory becomes visible, and a    *)
(* failing one may stop before the sync, after it, or with the new         *)
(* inventory visible and not yet durable.                                  *)
(***************************************************************************)

\* The inventory in which t's entry has this state and this marker.
WithEntry(t, state, rollbackOnly) ==
    [inv EXCEPT ![t] = [state |-> state, rollbackOnly |-> rollbackOnly]]

\* Mutant: publication does not sync the device.
PublishOkWithoutSync(new) ==
    /\ inv' = new
    /\ possible' = {new}
    /\ UNCHANGED <<durable, failures>>

PublishOk(new) ==
    /\ inv' = new
    /\ possible' = {new}
    /\ durable' = written
    /\ UNCHANGED failures

PublishFails(new) ==
    /\ failures < MaxFailures
    /\ failures' = failures + 1
    /\ \/ UNCHANGED <<inv, possible, durable>>
       \/ /\ durable' = written
          /\ possible' = {inv}
          /\ UNCHANGED inv
       \/ /\ durable' = written
          /\ possible' = {inv, new}
          /\ inv' = new

Free == opened /\ batch = NoBatch

-----------------------------------------------------------------------------
BeginTransaction(t) ==
    /\ Free
    /\ inv[t].state = "none"
    /\ LET new == WithEntry(t, "active", FALSE) IN
       PublishOk(new) \/ PublishFails(new)
    /\ UNCHANGED <<written, batch, started, done, opened, crashes>>

\* Mutant: the marker is forgotten.
MarkedInventoryUnmarked(t) == inv

MarkedInventory(t) == WithEntry(t, "active", TRUE)

\* ValidateCopyOnWriteTransactionState, and the marker is published.
StartBatch(t, syncAfterBatch) ==
    LET id == <<t, started[t] + 1>>
        new == MarkedInventory(t)
    IN
    /\ Free
    /\ inv[t].state = "active" /\ ~inv[t].rollbackOnly
    /\ started[t] < MaxBatches
    /\ started' = [started EXCEPT ![t] = @ + 1]
    /\ \/ /\ PublishOk(new)
          /\ batch' = Batch("write", id, 1, syncAfterBatch)
       \/ PublishFails(new) /\ UNCHANGED batch
    /\ UNCHANGED <<written, done, opened, crashes>>

RowPageWritten ==
    written' = [written EXCEPT ![batch.id] = @ \cup {batch.page}]

AfterRowPage ==
    IF batch.page < NumRowPages
    THEN Batch("write", batch.id, batch.page + 1, batch.sync)
    ELSE Batch(IF batch.sync THEN "sync" ELSE "release", batch.id, batch.page, batch.sync)

WriteRowPage ==
    /\ batch.step = "write"
    /\ RowPageWritten
    /\ batch' = AfterRowPage
    /\ UNCHANGED <<inv, possible, durable, started, done, opened, failures, crashes>>

SyncRows ==
    /\ batch.step = "sync"
    /\ durable' = written
    /\ batch' = Batch("release", batch.id, batch.page, batch.sync)
    /\ UNCHANGED <<inv, possible, written, started, done, opened, failures, crashes>>

\* A failing page write, which may have written the page, or a failing sync
\* returns with the marker in place.
BatchFails ==
    /\ batch.step \in {"write", "sync"}
    /\ failures < MaxFailures
    /\ failures' = failures + 1
    /\ batch' = NoBatch
    /\ \/ UNCHANGED written
       \/ batch.step = "write" /\ RowPageWritten
    /\ UNCHANGED <<inv, possible, durable, started, done, opened, crashes>>

\* The marker is released on the base that set it.
ReleaseBatch ==
    LET t == batch.id[1]
        new == WithEntry(t, "active", FALSE)
    IN
    /\ batch.step = "release"
    /\ inv[t].state = "active" /\ inv[t].rollbackOnly
    /\ \/ PublishOk(new) /\ done' = done \cup {batch.id}
       \/ PublishFails(new) /\ UNCHANGED done
    /\ batch' = NoBatch
    /\ UNCHANGED <<written, started, opened, crashes>>

\* Mutant: the marker does not stop a commit.
FinalizeCommitUnmarked(t) ==
    LET new == WithEntry(t, "committed", inv[t].rollbackOnly) IN
    /\ Free
    /\ inv[t].state = "active"
    /\ PublishOk(new) \/ PublishFails(new)
    /\ UNCHANGED <<written, batch, started, done, opened, crashes>>

\* FinalizePhysicalMgaCowTransactionToOpenDevice.
FinalizeCommit(t) ==
    LET new == WithEntry(t, "committed", FALSE) IN
    /\ Free
    /\ inv[t].state = "active" /\ ~inv[t].rollbackOnly
    /\ PublishOk(new) \/ PublishFails(new)
    /\ UNCHANGED <<written, batch, started, done, opened, crashes>>

FinalizeRollback(t) ==
    LET new == WithEntry(t, "rolled_back", inv[t].rollbackOnly) IN
    /\ Free
    /\ inv[t].state = "active"
    /\ PublishOk(new) \/ PublishFails(new)
    /\ UNCHANGED <<written, batch, started, done, opened, crashes>>

Crash ==
    /\ crashes < MaxCrashes
    /\ crashes' = crashes + 1
    /\ inv' \in possible
    /\ possible' = {inv'}
    /\ durable' \in {f \in [Batches -> SUBSET RowPages] :
                        \A b \in Batches : durable[b] \subseteq f[b] /\ f[b] \subseteq written[b]}
    /\ written' = durable'
    /\ batch' = NoBatch
    /\ opened' = FALSE
    /\ UNCHANGED <<started, done, failures>>

\* Startup recovery rolls back what was active.
Reopen ==
    LET new == [t \in Txns |-> IF inv[t].state = "active"
                               THEN [state |-> "rolled_back", rollbackOnly |-> inv[t].rollbackOnly]
                               ELSE inv[t]]
    IN
    /\ ~opened
    /\ \/ new = inv /\ opened' = TRUE /\ UNCHANGED <<inv, possible, durable, failures>>
       \/ new # inv /\ PublishOk(new) /\ opened' = TRUE
       \/ new # inv /\ PublishFails(new) /\ UNCHANGED opened
    /\ UNCHANGED <<written, batch, started, done, crashes>>

Next ==
    \/ \E t \in Txns :
          \/ BeginTransaction(t)
          \/ \E sync \in BOOLEAN : StartBatch(t, sync)
          \/ FinalizeCommit(t) \/ FinalizeRollback(t)
    \/ WriteRowPage \/ SyncRows \/ BatchFails \/ ReleaseBatch
    \/ Crash \/ Reopen

Spec == Init /\ [][Next]_cowVars

-----------------------------------------------------------------------------
\* No surviving prefix of a batch is ever committed: wherever a crash may
\* leave a transaction committed, each of its batches is durable as a whole
\* or left no page at all.
NoCommittedPrefix ==
    \A s \in possible : \A b \in Batches :
        s[b[1]].state = "committed" =>
            /\ durable[b] \in {{}, RowPages}
            /\ written[b] = durable[b]

\* A batch that was reported as done is there when its transaction is
\* committed, whatever crashed in between.
DoneBatchesCommitted ==
    \A s \in possible : \A b \in done :
        s[b[1]].state = "committed" => durable[b] = RowPages

\* A failed or interrupted batch leaves its transaction no way but back:
\* it is never writable again and never commits.
BrokenBatchNeverCommits ==
    \A b \in Batches :
        /\ b[2] <= started[b[1]]
        /\ written[b] # {} /\ written[b] # RowPages
        /\ batch = NoBatch
        => /\ inv[b[1]].state # "committed"
           /\ inv[b[1]].state = "active" => inv[b[1]].rollbackOnly
=============================================================================
