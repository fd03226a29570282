--------------------------- MODULE CowBatchProofs ---------------------------
(***************************************************************************)
(* Proofs about CowBatch, for any set of transactions, any number of row   *)
(* pages and batches, and any number of failures and crashes.              *)
(***************************************************************************)
EXTENDS CowBatch, TLAPS

\* A batch with nothing on disk, or with all of it beyond any crash.
Clean(b) == written[b] = {} \/ RowPages \subseteq durable[b]

\* A transaction that can still end in one way only.
Doomed(e) == e.state = "rolled_back" \/ (e.state = "active" /\ e.rollbackOnly)

\* What holds between the marker and its release.
RunningBatch ==
    LET t == batch.id[1] IN
    /\ opened
    /\ possible = {inv}
    /\ inv[t].state = "active" /\ inv[t].rollbackOnly
    /\ batch.id[2] <= started[t]
    /\ \A b \in Batches : b[1] = t /\ b # batch.id => Clean(b)
    /\ batch.step = "write" => \A p \in RowPages : p < batch.page => p \in written[batch.id]
    /\ batch.step # "write" => RowPages \subseteq written[batch.id]

\* The inductive invariant.  NoCommittedPrefix alone is not inductive: it
\* says nothing of a transaction that is still active, and it is there that
\* the marker has to be in place in every inventory a crash may leave.
CowInv ==
    /\ CowTypeOK
    /\ \A b \in Batches : durable[b] \subseteq written[b]
    /\ \A b \in Batches : ~Clean(b) => \A s \in possible : Doomed(s[b[1]])
    /\ \A b \in Batches : b[2] > started[b[1]] => written[b] = {}
    /\ \A b \in done : RowPages \subseteq durable[b]
    /\ batch # NoBatch => RunningBatch

-----------------------------------------------------------------------------
\* Replacing one entry by a well-formed one.
LEMMA WithEntryValue ==
  ASSUME inv \in [Txns -> Entry], NEW t \in Txns,
         NEW s \in {"none", "active", "committed", "rolled_back"}, NEW r \in BOOLEAN
  PROVE  /\ WithEntry(t, s, r) \in [Txns -> Entry]
         /\ WithEntry(t, s, r)[t].state = s
         /\ WithEntry(t, s, r)[t].rollbackOnly = r
         /\ \A u \in Txns : u # t => WithEntry(t, s, r)[u] = inv[u]
  BY DEF WithEntry, Entry

\* The components of a batch's name.
LEMMA BatchParts == \A b \in Batches : b[1] \in Txns /\ b[2] \in 1 .. MaxBatches
  BY DEF Batches

\* A transaction that is not doomed has only clean batches.
LEMMA NotDoomedIsClean ==
  ASSUME CowInv, NEW b \in Batches, ~Doomed(inv[b[1]])
  PROVE  Clean(b)
  BY DEF CowInv, CowTypeOK

LEMMA InitInv == Init => CowInv
<1> SUFFICES ASSUME Init PROVE CowInv
  OBVIOUS
<1>1. inv \in [Txns -> Entry]
  BY DEF Init, Entry
<1>2. CowTypeOK
  BY <1>1, CowLimits DEF Init, CowTypeOK, NoBatch
<1> QED
  BY <1>2 DEF Init, CowInv, Clean

\* Publication, on its own: it keeps the invariant when the new inventory
\* dooms every transaction that has a batch in pieces, and a failure leaves
\* the old or the new inventory, never another one.
LEMMA PublishInv ==
  ASSUME CowInv,
         NEW new \in [Txns -> Entry],
         \A b \in Batches : ~Clean(b) => Doomed(new[b[1]]),
         PublishOk(new) \/ PublishFails(new),
         batch' = NoBatch, written' = written, crashes' = crashes,
         opened' \in BOOLEAN,
         started' \in [Txns -> 0 .. MaxBatches],
         \A t \in Txns : started[t] <= started'[t],
         done' \subseteq Batches,
         \A b \in done' : b \in done \/ RowPages \subseteq durable'[b]
  PROVE  CowInv'
<1>1. CowTypeOK'
  BY CowLimits DEF CowInv, CowTypeOK, PublishOk, PublishFails, NoBatch
<1>2. \A b \in Batches : durable[b] \subseteq durable'[b] /\ durable'[b] \subseteq written'[b]
  BY DEF CowInv, PublishOk, PublishFails
<1>3. \A b \in Batches : Clean(b) => Clean(b)'
  BY <1>2 DEF Clean, RowPages
<1>4. (\A b \in Batches : ~Clean(b) => \A s \in possible : Doomed(s[b[1]]))'
  <2> SUFFICES ASSUME NEW b \in Batches', ~Clean(b)', NEW s \in possible'
               PROVE  Doomed(s[b[1]])'
    OBVIOUS
  <2>0. b \in Batches
    BY DEF Batches
  <2>1. ~Clean(b)
    BY <1>3, <2>0
  <2>2. s \in possible \/ s = new \/ s = inv
    BY DEF PublishOk, PublishFails
  <2>3. inv \in possible
    BY DEF CowInv, CowTypeOK
  <2>4. Doomed(s[b[1]])
    BY <2>0, <2>1, <2>2, <2>3 DEF CowInv
  <2> QED
    BY <2>4 DEF Doomed
<1>5. \A b \in Batches : b[2] > started'[b[1]] => written'[b] = {}
  <2> SUFFICES ASSUME NEW b \in Batches, b[2] > started'[b[1]] PROVE written[b] = {}
    OBVIOUS
  <2>1. b[1] \in Txns /\ b[2] \in 1 .. MaxBatches
    BY BatchParts
  <2>2. started[b[1]] \in Nat /\ started'[b[1]] \in Nat /\ started[b[1]] <= started'[b[1]]
    BY <2>1, CowLimits DEF CowInv, CowTypeOK
  <2>3. b[2] > started[b[1]]
    BY <2>1, <2>2, CowLimits
  <2> QED
    BY <2>3 DEF CowInv
<1>6. \A b \in done' : RowPages \subseteq durable'[b]
  BY <1>2 DEF CowInv
<1> QED
  BY <1>1, <1>2, <1>4, <1>5, <1>6 DEF CowInv, Batches, RowPages

\* A publication that gives one transaction, of which no batch is in
\* pieces, another entry.
LEMMA PublishEntryInv ==
  ASSUME CowInv, NEW t \in Txns,
         NEW s \in {"active", "committed", "rolled_back"}, NEW r \in BOOLEAN,
         Doomed([state |-> s, rollbackOnly |-> r]) \/ \A b \in Batches : b[1] = t => Clean(b),
         PublishOk(WithEntry(t, s, r)) \/ PublishFails(WithEntry(t, s, r)),
         batch' = NoBatch, opened' = opened, written' = written, crashes' = crashes,
         started' \in [Txns -> 0 .. MaxBatches],
         \A u \in Txns : started[u] <= started'[u],
         done' \subseteq Batches,
         \A b \in done' : b \in done \/ RowPages \subseteq durable'[b]
  PROVE  CowInv'
<1> DEFINE new == WithEntry(t, s, r)
<1>1. inv \in [Txns -> Entry] /\ opened \in BOOLEAN /\ inv \in possible
  BY DEF CowInv, CowTypeOK
<1>2. /\ new \in [Txns -> Entry]
      /\ new[t].state = s /\ new[t].rollbackOnly = r
      /\ \A u \in Txns : u # t => new[u] = inv[u]
  BY <1>1, WithEntryValue
<1>3. ASSUME NEW b \in Batches, ~Clean(b) PROVE Doomed(new[b[1]])
  <2>1. b[1] \in Txns
    BY BatchParts
  <2>2. CASE b[1] = t
    BY <1>2, <1>3, <2>2 DEF Doomed
  <2>3. CASE b[1] # t
    <3>1. Doomed(inv[b[1]])
      BY <1>1, <1>3 DEF CowInv
    <3> QED
      BY <1>2, <2>1, <2>3, <3>1
  <2> QED
    BY <2>2, <2>3
<1> HIDE DEF new
<1> QED
  BY <1>1, <1>2, <1>3, PublishInv DEF new

-----------------------------------------------------------------------------
(***************************************************************************)
(* One lemma per action.                                                   *)
(***************************************************************************)

LEMMA BeginInv ==
  ASSUME CowInv, NEW t \in Txns, BeginTransaction(t)
  PROVE  CowInv'
<1>1. \A b \in Batches : b[1] = t => Clean(b)
  BY NotDoomedIsClean DEF BeginTransaction, Doomed
<1>2. started \in [Txns -> 0 .. MaxBatches] /\ done \subseteq Batches
  BY DEF CowInv, CowTypeOK
<1>3. \A u \in Txns : started[u] <= started[u]
  BY <1>2, CowLimits
<1> QED
  BY <1>1, <1>2, <1>3, PublishEntryInv DEF BeginTransaction, Free

LEMMA CommitInv ==
  ASSUME CowInv, NEW t \in Txns, FinalizeCommit(t)
  PROVE  CowInv'
<1>1. \A b \in Batches : b[1] = t => Clean(b)
  BY NotDoomedIsClean DEF FinalizeCommit, Doomed
<1>2. started \in [Txns -> 0 .. MaxBatches] /\ done \subseteq Batches
  BY DEF CowInv, CowTypeOK
<1>3. \A u \in Txns : started[u] <= started[u]
  BY <1>2, CowLimits
<1> QED
  BY <1>1, <1>2, <1>3, PublishEntryInv DEF FinalizeCommit, Free

LEMMA RollbackInv ==
  ASSUME CowInv, NEW t \in Txns, FinalizeRollback(t)
  PROVE  CowInv'
<1>1. Doomed([state |-> "rolled_back", rollbackOnly |-> inv[t].rollbackOnly])
  BY DEF Doomed
<1>2. /\ started \in [Txns -> 0 .. MaxBatches] /\ done \subseteq Batches
      /\ inv[t].rollbackOnly \in BOOLEAN
  BY DEF CowInv, CowTypeOK, Entry
<1>3. \A u \in Txns : started[u] <= started[u]
  BY <1>2, CowLimits
<1> QED
  BY <1>1, <1>2, <1>3, PublishEntryInv DEF FinalizeRollback, Free

LEMMA StartInv ==
  ASSUME CowInv, NEW t \in Txns, NEW sync \in BOOLEAN, StartBatch(t, sync)
  PROVE  CowInv'
<1> DEFINE id == <<t, started[t] + 1>>
           new == MarkedInventory(t)
<1>1. /\ started \in [Txns -> 0 .. MaxBatches] /\ done \subseteq Batches
      /\ inv \in [Txns -> Entry] /\ opened
  BY DEF CowInv, CowTypeOK, StartBatch, Free
<1>2. /\ started' \in [Txns -> 0 .. MaxBatches]
      /\ \A u \in Txns : started[u] <= started'[u]
      /\ id \in Batches /\ started'[t] = started[t] + 1
  BY <1>1, CowLimits DEF StartBatch, Batches
<1>3. \A b \in Batches : b[1] = t => Clean(b)
  BY NotDoomedIsClean DEF StartBatch, Doomed
<1>4. CASE PublishFails(new) /\ UNCHANGED batch
  BY <1>1, <1>2, <1>3, <1>4, PublishEntryInv DEF StartBatch, MarkedInventory, Free
<1>5. CASE PublishOk(new) /\ batch' = Batch("write", id, 1, sync)
  <2>1. /\ new \in [Txns -> Entry]
        /\ new[t].state = "active" /\ new[t].rollbackOnly
        /\ \A u \in Txns : u # t => new[u] = inv[u]
    BY <1>1, WithEntryValue DEF MarkedInventory
  <2> HIDE DEF new
  <2>2. CowTypeOK'
    BY <1>1, <1>2, <1>5, <2>1, CowLimits
       DEF StartBatch, PublishOk, CowInv, CowTypeOK, Batch, RowPages
  <2>3. written' = written /\ durable' = written /\ possible' = {new} /\ inv' = new
    BY <1>5 DEF StartBatch, PublishOk
  <2>4. \A b \in Batches : Clean(b) => Clean(b)'
    BY <2>3 DEF CowInv, Clean, RowPages
  <2>5. (\A b \in Batches : ~Clean(b) => \A s \in possible : Doomed(s[b[1]]))'
    <3> SUFFICES ASSUME NEW b \in Batches', ~Clean(b)', NEW s \in possible'
                 PROVE  Doomed(s[b[1]])'
      OBVIOUS
    <3>1. b \in Batches /\ b[1] \in Txns
      BY BatchParts DEF Batches
    <3>2. ~Clean(b) /\ b[1] # t
      BY <1>3, <2>4, <3>1
    <3>3. Doomed(inv[b[1]]) /\ new[b[1]] = inv[b[1]]
      BY <2>1, <3>1, <3>2, NotDoomedIsClean
    <3>4. s = new
      BY <2>3
    <3> QED
      BY <3>3, <3>4 DEF Doomed
  <2>6. \A b \in Batches : b[2] > started'[b[1]] => written'[b] = {}
    <3> SUFFICES ASSUME NEW b \in Batches, b[2] > started'[b[1]] PROVE written[b] = {}
      BY <2>3
    <3>1. b[1] \in Txns /\ b[2] \in 1 .. MaxBatches
      BY BatchParts
    <3>2. b[2] > started[b[1]]
      BY <1>1, <1>2, <3>1, CowLimits
    <3> QED
      BY <3>2 DEF CowInv
  <2>7. \A b \in done' : RowPages \subseteq durable'[b]
    BY <1>1, <2>3 DEF CowInv, StartBatch
  <2>8. RunningBatch'
    <3>1. batch'.id = id /\ batch'.step = "write" /\ batch'.page = 1 /\ batch'.id[1] = t /\ batch'.id[2] = started'[t]
      BY <1>2, <1>5 DEF Batch
    <3>2. \A b \in Batches : b[1] = t => Clean(b)'
      BY <1>3, <2>4
    <3>3. \A p \in RowPages : ~(p < 1)
      BY CowLimits DEF RowPages
    <3>4. opened' /\ possible' = {inv'} /\ inv'[t].state = "active" /\ inv'[t].rollbackOnly
      BY <1>1, <2>1, <2>3 DEF StartBatch
    <3>5. batch'.id[2] <= started'[t]
      BY <1>1, <1>2, <3>1, CowLimits
    <3> QED
      BY <3>1, <3>2, <3>3, <3>4, <3>5 DEF RunningBatch, Batches, RowPages
  <2> QED
    BY <2>2, <2>3, <2>5, <2>6, <2>7, <2>8 DEF CowInv, Batches, RowPages
<1> QED
  BY <1>4, <1>5 DEF StartBatch

\* A page of the running batch is written: its transaction is doomed, and
\* nothing changes for the other batches.
LEMMA PageInv ==
  ASSUME CowInv, batch.step = "write", RowPageWritten,
         UNCHANGED <<inv, possible, durable, started>>
  PROVE  /\ written' \in [Batches -> SUBSET RowPages]
         /\ written'[batch.id] = written[batch.id] \cup {batch.page}
         /\ \A b \in Batches : durable'[b] \subseteq written'[b]
         /\ \A b \in Batches : b # batch.id /\ Clean(b) => Clean(b)'
         /\ (\A b \in Batches : ~Clean(b) => \A s \in possible : Doomed(s[b[1]]))'
         /\ \A b \in Batches : b[2] > started'[b[1]] => written'[b] = {}
<1> DEFINE id == batch.id
           t == batch.id[1]
<1>1. /\ batch # NoBatch /\ RunningBatch
      /\ batch \in [step : {"write", "sync", "release"}, id : Batches,
                    page : RowPages, sync : BOOLEAN]
  BY DEF CowInv, CowTypeOK, NoBatch
<1>2. id \in Batches /\ batch.page \in RowPages /\ t \in Txns
  BY <1>1, BatchParts
<1>3. /\ written' \in [Batches -> SUBSET RowPages]
      /\ written'[id] = written[id] \cup {batch.page}
      /\ \A b \in Batches : b # id => written'[b] = written[b]
  BY <1>2 DEF CowInv, CowTypeOK, RowPageWritten
<1>4. \A b \in Batches : b # id /\ Clean(b) => Clean(b)'
  BY <1>3 DEF Clean, RowPages
<1>5. \A b \in Batches : durable'[b] \subseteq written'[b]
  BY <1>3 DEF CowInv
<1>6. (\A b \in Batches : ~Clean(b) => \A s \in possible : Doomed(s[b[1]]))'
  <2> SUFFICES ASSUME NEW b \in Batches', ~Clean(b)', NEW s \in possible'
               PROVE  Doomed(s[b[1]])'
    OBVIOUS
  <2>1. b \in Batches
    BY DEF Batches
  <2>2. CASE b = id
    BY <1>1, <2>2 DEF RunningBatch, Doomed
  <2>3. CASE b # id
    BY <1>4, <2>1, <2>3 DEF CowInv, Doomed
  <2> QED
    BY <2>2, <2>3
<1>7. \A b \in Batches : b[2] > started'[b[1]] => written'[b] = {}
  <2> SUFFICES ASSUME NEW b \in Batches, b[2] > started[b[1]] PROVE written'[b] = {}
    OBVIOUS
  <2>1. started[t] \in Nat /\ id[2] \in Nat /\ id[2] <= started[t]
    BY <1>1, <1>2, BatchParts, CowLimits DEF RunningBatch, CowInv, CowTypeOK
  <2>2. b # id
    BY <2>1
  <2> QED
    BY <1>3, <2>2 DEF CowInv
<1> QED
  BY <1>3, <1>4, <1>5, <1>6, <1>7

LEMMA WriteInv ==
  ASSUME CowInv, WriteRowPage
  PROVE  CowInv'
<1> DEFINE id == batch.id
           t == batch.id[1]
<1>1. /\ batch # NoBatch /\ RunningBatch
      /\ batch \in [step : {"write", "sync", "release"}, id : Batches,
                    page : RowPages, sync : BOOLEAN]
  BY DEF CowInv, CowTypeOK, WriteRowPage, NoBatch
<1>2. id \in Batches /\ batch.page \in RowPages /\ t \in Txns
  BY <1>1, BatchParts
<1>3. /\ written' \in [Batches -> SUBSET RowPages]
      /\ written'[id] = written[id] \cup {batch.page}
      /\ \A b \in Batches : durable'[b] \subseteq written'[b]
      /\ \A b \in Batches : b # id /\ Clean(b) => Clean(b)'
      /\ (\A b \in Batches : ~Clean(b) => \A s \in possible : Doomed(s[b[1]]))'
      /\ \A b \in Batches : b[2] > started'[b[1]] => written'[b] = {}
  BY PageInv DEF WriteRowPage
<1>4. durable' = durable /\ possible' = possible /\ inv' = inv /\ started' = started
  BY DEF WriteRowPage
<1>5. /\ batch' \in [step : {"write", "sync", "release"}, id : Batches,
                     page : RowPages, sync : BOOLEAN]
      /\ batch'.id = id
      /\ \/ batch'.step = "write" /\ batch'.page = batch.page + 1
         \/ batch'.step # "write" /\ batch.page = NumRowPages
  BY <1>1, <1>2, CowLimits DEF WriteRowPage, AfterRowPage, Batch, RowPages
<1>6. CowTypeOK'
  BY <1>3, <1>4, <1>5 DEF CowInv, CowTypeOK, WriteRowPage
<1>7. RunningBatch'
  <2>1. \A b \in Batches : b[1] = t /\ b # id => Clean(b)'
    BY <1>1, <1>3 DEF RunningBatch
  <2>2. \A p \in RowPages : p < batch.page => p \in written[id]
    BY <1>1 DEF RunningBatch, WriteRowPage
  <2>3. \A p \in RowPages : p < batch.page + 1 => p \in written'[id]
    BY <1>2, <1>3, <2>2, CowLimits DEF RowPages
  <2>4. batch'.step = "write" => \A p \in RowPages : p < batch'.page => p \in written'[id]
    BY <1>5, <2>3
  <2>5. batch'.step # "write" => RowPages \subseteq written'[id]
    BY <1>5, <2>3, CowLimits DEF RowPages
  <2> QED
    BY <1>1, <1>4, <1>5, <2>1, <2>4, <2>5 DEF RunningBatch, WriteRowPage, Batches, RowPages
<1> QED
  BY <1>3, <1>4, <1>6, <1>7 DEF CowInv, WriteRowPage, Batches, RowPages

LEMMA SyncInv ==
  ASSUME CowInv, SyncRows
  PROVE  CowInv'
<1> DEFINE id == batch.id
           t == batch.id[1]
<1>1. /\ batch # NoBatch /\ RunningBatch
      /\ batch \in [step : {"write", "sync", "release"}, id : Batches,
                    page : RowPages, sync : BOOLEAN]
  BY DEF CowInv, CowTypeOK, SyncRows, NoBatch
<1>2. /\ batch' \in [step : {"write", "sync", "release"}, id : Batches,
                     page : RowPages, sync : BOOLEAN]
      /\ batch'.id = id /\ batch'.step = "release"
  BY <1>1 DEF SyncRows, Batch
<1>3. /\ durable' = written /\ written' = written /\ possible' = possible
      /\ inv' = inv /\ started' = started /\ done' = done /\ opened' = opened
  BY DEF SyncRows
<1>4. \A b \in Batches : Clean(b) => Clean(b)'
  BY <1>3 DEF CowInv, Clean, RowPages
<1>5. CowTypeOK'
  BY <1>2, <1>3 DEF CowInv, CowTypeOK, SyncRows
<1>6. (\A b \in Batches : ~Clean(b) => \A s \in possible : Doomed(s[b[1]]))'
  <2> SUFFICES ASSUME NEW b \in Batches', ~Clean(b)', NEW s \in possible'
               PROVE  Doomed(s[b[1]])'
    OBVIOUS
  <2>1. b \in Batches
    BY DEF Batches
  <2> QED
    BY <1>3, <1>4, <2>1 DEF CowInv, Doomed
<1>7. RunningBatch'
  <2>1. \A b \in Batches : b[1] = t /\ b # id => Clean(b)'
    BY <1>1, <1>4 DEF RunningBatch
  <2>2. RowPages \subseteq written'[id]
    BY <1>1, <1>3 DEF RunningBatch, SyncRows
  <2> QED
    BY <1>1, <1>2, <1>3, <2>1, <2>2 DEF RunningBatch, Batches, RowPages
<1>8. \A b \in done' : RowPages \subseteq durable'[b]
  BY <1>3 DEF CowInv, CowTypeOK
<1> QED
  BY <1>3, <1>5, <1>6, <1>7, <1>8 DEF CowInv, Batches, RowPages

\* The marker stays behind: that the batch is not running any more weakens
\* what is asked of the state.
LEMMA FailInv ==
  ASSUME CowInv, BatchFails
  PROVE  CowInv'
<1>1. /\ UNCHANGED <<inv, possible, durable, started, done>> /\ batch' = NoBatch
      /\ UNCHANGED written \/ (batch.step = "write" /\ RowPageWritten)
  BY DEF BatchFails
<1>2. CASE UNCHANGED written
  <2>1. CowTypeOK'
    BY <1>2, CowLimits DEF CowInv, CowTypeOK, BatchFails
  <2>2. (\A b \in Batches : ~Clean(b) => \A s \in possible : Doomed(s[b[1]]))'
    BY <1>1, <1>2 DEF CowInv, Clean, Doomed, Batches, RowPages
  <2> QED
    BY <1>1, <1>2, <2>1, <2>2 DEF CowInv, Batches, RowPages
<1>3. CASE batch.step = "write" /\ RowPageWritten
  <2>1. /\ written' \in [Batches -> SUBSET RowPages]
        /\ \A b \in Batches : durable'[b] \subseteq written'[b]
        /\ (\A b \in Batches : ~Clean(b) => \A s \in possible : Doomed(s[b[1]]))'
        /\ \A b \in Batches : b[2] > started'[b[1]] => written'[b] = {}
    BY <1>1, <1>3, PageInv
  <2>2. CowTypeOK'
    BY <2>1, CowLimits DEF CowInv, CowTypeOK, BatchFails
  <2> QED
    BY <1>1, <2>1, <2>2 DEF CowInv, Batches, RowPages
<1> QED
  BY <1>1, <1>2, <1>3

\* The released transaction has no batch in pieces: publication hardened
\* the pages of this one.
LEMMA ReleaseInv ==
  ASSUME CowInv, ReleaseBatch
  PROVE  CowInv'
<1> DEFINE id == batch.id
           t == batch.id[1]
           new == WithEntry(t, "active", FALSE)
<1>1. /\ batch # NoBatch /\ RunningBatch
      /\ batch \in [step : {"write", "sync", "release"}, id : Batches,
                    page : RowPages, sync : BOOLEAN]
  BY DEF CowInv, CowTypeOK, ReleaseBatch, NoBatch
<1>2. id \in Batches /\ t \in Txns /\ RowPages \subseteq written[id]
  BY <1>1, BatchParts DEF RunningBatch, ReleaseBatch
<1>3. /\ CowTypeOK /\ inv \in possible /\ possible = {inv}
      /\ inv \in [Txns -> Entry] /\ started \in [Txns -> 0 .. MaxBatches]
  BY <1>1 DEF CowInv, CowTypeOK, RunningBatch
<1>4. \A b \in Batches : b[1] = t /\ b # id => Clean(b)
  BY <1>1 DEF RunningBatch
<1>5. CASE PublishFails(new) /\ UNCHANGED <<inv, possible, durable>> /\ UNCHANGED done
  \* The publication stopped before its device sync.
  <2>1. CowTypeOK'
    BY <1>5, CowLimits DEF CowInv, CowTypeOK, ReleaseBatch, PublishFails
  <2>2. (\A b \in Batches : ~Clean(b) => \A s \in possible : Doomed(s[b[1]]))'
    BY <1>5 DEF CowInv, ReleaseBatch, Clean, Doomed, Batches, RowPages
  <2> QED
    BY <1>5, <2>1, <2>2 DEF CowInv, ReleaseBatch, Batches, RowPages
<1>6. CASE /\ durable' = written
           /\ PublishOk(new) \/ PublishFails(new)
           /\ done' \in {done, done \cup {id}}
  <2>1. written' = written /\ batch' = NoBatch /\ started' = started /\ opened' = opened
    BY DEF ReleaseBatch
  <2>2. \A b \in Batches : Clean(b) => Clean(b)'
    BY <1>6, <2>1 DEF CowInv, Clean, RowPages
  <2>3. \A b \in Batches : b[1] = t => Clean(b)'
    <3> SUFFICES ASSUME NEW b \in Batches, b[1] = t PROVE Clean(b)'
      OBVIOUS
    <3>1. CASE b = id
      BY <1>2, <1>6, <3>1 DEF Clean, RowPages
    <3>2. CASE b # id
      BY <1>4, <2>2, <3>2
    <3> QED
      BY <3>1, <3>2
  <2>4. /\ new \in [Txns -> Entry]
        /\ \A u \in Txns : u # t => new[u] = inv[u]
    BY <1>2, <1>3, WithEntryValue
  <2> HIDE DEF new
  <2>5. \A s \in possible' : s = inv \/ s = new
    BY <1>3, <1>6 DEF PublishOk, PublishFails
  <2>6. inv' \in possible'
    BY <1>3, <1>6 DEF PublishOk, PublishFails
  <2>7. CowTypeOK'
    <3>1. possible' \subseteq [Txns -> Entry]
      BY <1>3, <2>4, <2>5
    <3>2. failures' \in 0 .. MaxFailures
      BY <1>3, <1>6, CowLimits DEF CowTypeOK, PublishOk, PublishFails
    <3>3. done' \subseteq Batches
      BY <1>2, <1>3, <1>6 DEF CowTypeOK
    <3> QED
      BY <1>3, <1>6, <2>1, <2>6, <3>1, <3>2, <3>3 DEF CowTypeOK, ReleaseBatch
  <2>8. (\A b \in Batches : ~Clean(b) => \A s \in possible : Doomed(s[b[1]]))'
    <3> SUFFICES ASSUME NEW b \in Batches', ~Clean(b)', NEW s \in possible'
                 PROVE  Doomed(s[b[1]])'
      OBVIOUS
    <3>1. b \in Batches /\ b[1] \in Txns /\ b[1] # t
      BY <2>3, BatchParts DEF Batches
    <3>2. s[b[1]] = inv[b[1]]
      BY <2>4, <2>5, <3>1
    <3>3. Doomed(inv[b[1]])
      BY <2>2, <3>1, NotDoomedIsClean
    <3> QED
      BY <3>2, <3>3 DEF Doomed
  <2>9. \A b \in done' : RowPages \subseteq durable'[b]
    <3>1. \A b \in done : RowPages \subseteq written[b]
      BY <1>3 DEF CowInv, CowTypeOK
    <3> QED
      BY <1>2, <1>6, <3>1
  <2> QED
    BY <1>6, <2>1, <2>7, <2>8, <2>9 DEF CowInv, Batches, RowPages
<1>7. \/ PublishOk(new) /\ done' = done \cup {id}
      \/ PublishFails(new) /\ UNCHANGED done
  BY DEF ReleaseBatch
<1>8. PublishOk(new) => durable' = written
  BY DEF PublishOk
<1>9. PublishFails(new) => durable' = written \/ UNCHANGED <<inv, possible, durable>>
  BY DEF PublishFails
<1> HIDE DEF new
<1> QED
  BY <1>5, <1>6, <1>7, <1>8, <1>9

LEMMA CrashInv ==
  ASSUME CowInv, Crash
  PROVE  CowInv'
<1>1. /\ durable' \in [Batches -> SUBSET RowPages] /\ written' = durable'
      /\ \A b \in Batches : durable[b] \subseteq durable'[b] /\ durable'[b] \subseteq written[b]
  BY DEF Crash
<1>2. \A b \in Batches : Clean(b) => Clean(b)'
  BY <1>1 DEF Clean, RowPages
<1>3. CowTypeOK'
  <2>1. inv' \in [Txns -> Entry] /\ inv' \in possible' /\ possible' \subseteq [Txns -> Entry]
    BY DEF CowInv, CowTypeOK, Crash
  <2>2. crashes' \in 0 .. MaxCrashes /\ failures' \in 0 .. MaxFailures
    BY CowLimits DEF CowInv, CowTypeOK, Crash
  <2>3. /\ started' \in [Txns -> 0 .. MaxBatches] /\ done' \subseteq Batches
        /\ opened' \in BOOLEAN /\ batch' = NoBatch
    BY DEF CowInv, CowTypeOK, Crash
  <2> QED
    BY <1>1, <2>1, <2>2, <2>3 DEF CowTypeOK, Batches, RowPages, NoBatch, Entry
<1>4. (\A b \in Batches : ~Clean(b) => \A s \in possible : Doomed(s[b[1]]))'
  <2> SUFFICES ASSUME NEW b \in Batches', ~Clean(b)', NEW s \in possible'
               PROVE  Doomed(s[b[1]])'
    OBVIOUS
  <2>1. b \in Batches /\ s \in possible
    BY DEF Batches, Crash
  <2> QED
    BY <1>2, <2>1 DEF CowInv, Doomed
<1>5. \A b \in Batches : b[2] > started'[b[1]] => written'[b] = {}
  BY <1>1 DEF CowInv, Crash
<1>6. \A b \in done' : RowPages \subseteq durable'[b]
  BY <1>1 DEF CowInv, CowTypeOK, Crash
<1>7. batch' = NoBatch
  BY DEF Crash
<1> QED
  BY <1>1, <1>3, <1>4, <1>5, <1>6, <1>7 DEF CowInv, Batches, RowPages

\* Recovery turns a doomed transaction into a rolled-back one.
LEMMA ReopenInv ==
  ASSUME CowInv, Reopen
  PROVE  CowInv'
<1> DEFINE new == [u \in Txns |->
                     IF inv[u].state = "active"
                     THEN [state |-> "rolled_back", rollbackOnly |-> inv[u].rollbackOnly]
                     ELSE inv[u]]
<1>1. /\ inv \in [Txns -> Entry] /\ opened \in BOOLEAN /\ done \subseteq Batches
      /\ started \in [Txns -> 0 .. MaxBatches]
  BY DEF CowInv, CowTypeOK
<1>2. batch = NoBatch
  BY DEF CowInv, RunningBatch, Reopen
<1>3. new \in [Txns -> Entry]
  BY <1>1 DEF Entry
<1>4. \A u \in Txns : Doomed(inv[u]) => Doomed(new[u])
  BY <1>1 DEF Doomed
<1>5. \A b \in Batches : ~Clean(b) => Doomed(new[b[1]])
  BY <1>4, NotDoomedIsClean, BatchParts
<1>6. /\ UNCHANGED <<written, batch, started, done, crashes>>
      /\ \/ opened' = TRUE /\ UNCHANGED <<inv, possible, durable, failures>>
         \/ PublishOk(new) /\ opened' = TRUE
         \/ PublishFails(new) /\ UNCHANGED opened
  BY DEF Reopen
<1> HIDE DEF new
<1>7. CASE opened' = TRUE /\ UNCHANGED <<inv, possible, durable, failures>>
  <2>1. CowTypeOK'
    BY <1>6, <1>7 DEF CowInv, CowTypeOK
  <2>2. (\A b \in Batches : ~Clean(b) => \A s \in possible : Doomed(s[b[1]]))'
    BY <1>6, <1>7 DEF CowInv, Clean, Doomed, Batches, RowPages
  <2> QED
    BY <1>2, <1>6, <1>7, <2>1, <2>2 DEF CowInv, Batches, RowPages
<1>8. CASE PublishOk(new) \/ PublishFails(new)
  <2>1. \A u \in Txns : started[u] <= started[u]
    BY <1>1, CowLimits
  <2>2. opened' \in BOOLEAN
    BY <1>1, <1>6
  <2> QED
    BY <1>1, <1>2, <1>3, <1>5, <1>6, <1>8, <2>1, <2>2, PublishInv
<1> QED
  BY <1>6, <1>7, <1>8

-----------------------------------------------------------------------------
\* What the invariant says of the three properties of CowBatch.
LEMMA InvImplies ==
  CowInv => CowTypeOK /\ NoCommittedPrefix /\ DoneBatchesCommitted /\ BrokenBatchNeverCommits
<1> SUFFICES ASSUME CowInv
             PROVE  CowTypeOK /\ NoCommittedPrefix /\ DoneBatchesCommitted
                    /\ BrokenBatchNeverCommits
  OBVIOUS
<1>1. /\ CowTypeOK /\ inv \in possible
      /\ \A b \in Batches : durable[b] \subseteq written[b] /\ written[b] \subseteq RowPages
  BY DEF CowInv, CowTypeOK
<1>2. ASSUME NEW s \in possible, NEW b \in Batches, s[b[1]].state = "committed"
      PROVE  Clean(b)
  BY <1>2 DEF CowInv, Doomed
<1>3. \A b \in Batches : Clean(b) =>
         durable[b] \in {{}, RowPages} /\ written[b] = durable[b]
  BY <1>1 DEF Clean
<1>4. NoCommittedPrefix
  BY <1>2, <1>3 DEF NoCommittedPrefix
<1>5. DoneBatchesCommitted
  <2> SUFFICES ASSUME NEW b \in done PROVE durable[b] = RowPages
    BY DEF DoneBatchesCommitted
  <2>1. b \in Batches /\ RowPages \subseteq durable[b]
    BY DEF CowInv, CowTypeOK
  <2> QED
    BY <1>1, <2>1
<1>6. \A b \in Batches : Clean(b) => written[b] \in {{}, RowPages}
  BY <1>3
<1>7. BrokenBatchNeverCommits
  <2> SUFFICES ASSUME NEW b \in Batches, written[b] # {} /\ written[b] # RowPages
               PROVE  /\ inv[b[1]].state # "committed"
                      /\ inv[b[1]].state = "active" => inv[b[1]].rollbackOnly
    BY DEF BrokenBatchNeverCommits
  <2>1. ~Clean(b)
    BY <1>6
  <2>2. Doomed(inv[b[1]])
    BY <1>1, <2>1 DEF CowInv
  <2> QED
    BY <2>2 DEF Doomed
<1> QED
  BY <1>1, <1>4, <1>5, <1>7

LEMMA NextInv == CowInv /\ [Next]_cowVars => CowInv'
<1> SUFFICES ASSUME CowInv, [Next]_cowVars PROVE CowInv'
  OBVIOUS
<1>1. CASE UNCHANGED cowVars
  <2>1. CowTypeOK'
    BY <1>1 DEF CowInv, CowTypeOK, cowVars
  <2>2. (\A b \in Batches : ~Clean(b) => \A s \in possible : Doomed(s[b[1]]))'
    BY <1>1 DEF CowInv, Clean, Doomed, Batches, RowPages, cowVars
  <2>3. (batch # NoBatch => RunningBatch)'
    BY <1>1 DEF CowInv, RunningBatch, Clean, Batches, RowPages, cowVars
  <2> QED
    BY <1>1, <2>1, <2>2, <2>3 DEF CowInv, Batches, RowPages, cowVars
<1>2. ASSUME NEW t \in Txns, BeginTransaction(t) PROVE CowInv'
  BY <1>2, BeginInv
<1>3. ASSUME NEW t \in Txns, NEW sync \in BOOLEAN, StartBatch(t, sync) PROVE CowInv'
  BY <1>3, StartInv
<1>4. ASSUME NEW t \in Txns, FinalizeCommit(t) PROVE CowInv'
  BY <1>4, CommitInv
<1>5. ASSUME NEW t \in Txns, FinalizeRollback(t) PROVE CowInv'
  BY <1>5, RollbackInv
<1> QED
  BY <1>1, <1>2, <1>3, <1>4, <1>5, WriteInv, SyncInv, FailInv, ReleaseInv, CrashInv, ReopenInv
     DEF Next

-----------------------------------------------------------------------------
\* The variables of the copy-on-write protocol keep their types.
THEOREM CowTypeCorrect == Spec => []CowTypeOK
<1>1. Init => CowInv
  BY InitInv
<1>2. CowInv /\ [Next]_cowVars => CowInv'
  BY NextInv
<1>3. CowInv => CowTypeOK
  BY InvImplies
<1> QED
  BY <1>1, <1>2, <1>3, PTL DEF Spec

\* A committed transaction never shows a part of a batch
\* (PersistPhysicalMgaCowBatch...: the marker is published before the first
\* page and released after the last), whatever fails or crashes.
THEOREM CommittedBatchesAreWhole == Spec => []NoCommittedPrefix
<1>1. Init => CowInv
  BY InitInv
<1>2. CowInv /\ [Next]_cowVars => CowInv'
  BY NextInv
<1>3. CowInv => NoCommittedPrefix
  BY InvImplies
<1> QED
  BY <1>1, <1>2, <1>3, PTL DEF Spec

\* A batch reported as successful is durable as a whole wherever its
\* transaction is committed.
THEOREM ReportedBatchesSurvive == Spec => []DoneBatchesCommitted
<1>1. Init => CowInv
  BY InitInv
<1>2. CowInv /\ [Next]_cowVars => CowInv'
  BY NextInv
<1>3. CowInv => DoneBatchesCommitted
  BY InvImplies
<1> QED
  BY <1>1, <1>2, <1>3, PTL DEF Spec

\* A transaction with a batch in pieces can only roll back.
THEOREM BrokenBatchesRollBack == Spec => []BrokenBatchNeverCommits
<1>1. Init => CowInv
  BY InitInv
<1>2. CowInv /\ [Next]_cowVars => CowInv'
  BY NextInv
<1>3. CowInv => BrokenBatchNeverCommits
  BY InvImplies
<1> QED
  BY <1>1, <1>2, <1>3, PTL DEF Spec
=============================================================================
