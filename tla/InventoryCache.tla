--------------------------- MODULE InventoryCache ---------------------------
(***************************************************************************)
(* The process-wide cache of the transaction inventory                     *)
(* (src/project/src/storage/database/local_transaction_store.cpp).         *)
(* Loads take the cached inventory when the publish journal looks as it    *)
(* did when the entry was made: by size and modification time (the quick   *)
(* fence), or by a hash of the bytes too (the strong check).               *)
(*                                                                         *)
(*   journal   the publish journal: selected inventory, size, time, hash   *)
(*   clock     the clock that file times are taken from                    *)
(*   guard     the thread that has the database file open                  *)
(*   cache     the cached snapshot, under its own mutex                    *)
(*   pub       the publications in progress                                *)
(*   load      the loads in progress or done                               *)
(*   written   ghost: all journals there have been                         *)
(*   selected  ghost: the inventories selected while a load runs           *)
(*                                                                         *)
(* A publication replaces the journal twice, first naming the old          *)
(* inventory and then the new one; the protocol around it is in            *)
(* InventoryPublication.  An open device holds the guard of its path until *)
(* it is closed, and other processes are kept out by the owner lock.       *)
(***************************************************************************)
EXTENDS Naturals

CONSTANTS
    Publishers,       \* threads that publish
    Loaders,          \* threads that load
    Sizes,            \* sizes of a journal
    MaxPublications,  \* bound: publications
    MaxClock          \* bound: ticks of the clock

ASSUME CacheConstants ==
    /\ Publishers \cap Loaders = {}
    /\ "free" \notin Publishers \cup Loaders
    /\ Sizes # {}
    /\ MaxPublications \in Nat
    /\ MaxClock \in Nat \ {0}

VARIABLES journal, clock, guard, cache, pub, load, written, selected

cacheVars == <<journal, clock, guard, cache, pub, load, written, selected>>

Inventories == 0 .. MaxPublications
Hashes == 0 .. 2 * MaxPublications
Snapshot ==
    [inv : Inventories, size : Sizes, time : 1 .. MaxClock, hash : Hashes]
NoSnapshot == [hash |-> Hashes]
Free == "free"

Idle == [pc |-> "idle", refresh |-> FALSE]
Resting == [pc |-> "idle", strong |-> FALSE, snapshot |-> NoSnapshot]

\* Journal, cache and threads have their types, and a load that is done has
\* a snapshot.
CacheTypeOK ==
    /\ journal \in Snapshot
    /\ clock \in 1 .. MaxClock
    /\ guard \in Publishers \cup Loaders \cup {Free}
    /\ cache \in Snapshot \cup {NoSnapshot}
    /\ pub \in [Publishers ->
         [pc : {"idle", "opening", "open", "publishing", "published", "failed"},
          refresh : BOOLEAN]]
    /\ load \in [Loaders ->
         [pc : {"idle", "fence", "lookup", "check", "opening", "open",
                "loaded", "done"},
          strong : BOOLEAN, snapshot : Snapshot \cup {NoSnapshot}]]
    /\ written \subseteq Snapshot
    /\ selected \in [Loaders -> SUBSET Inventories]
    /\ \A l \in Loaders : load[l].pc = "done" => load[l].snapshot # NoSnapshot

Init ==
    /\ \E size \in Sizes :
         journal = [inv |-> 0, size |-> size, time |-> 1, hash |-> 0]
    /\ clock = 1
    /\ guard = Free
    /\ cache = NoSnapshot
    /\ pub = [p \in Publishers |-> Idle]
    /\ load = [l \in Loaders |-> Resting]
    /\ written = {journal}
    /\ selected = [l \in Loaders |-> {}]

-----------------------------------------------------------------------------
Running(l) == load[l].pc \notin {"idle", "done"}

\* The rename of a new journal over the old one.
ReplaceJournal(inv, size) ==
    LET new == [inv |-> inv, size |-> size, time |-> clock,
                hash |-> journal.hash + 1]
    IN  /\ journal' = new
        /\ written' = written \cup {new}
        /\ selected' = [l \in Loaders |->
                          IF Running(l) THEN selected[l] \cup {inv}
                          ELSE selected[l]]

\* PersistLocalTransactionInventoryToDatabase drops the cached snapshot and
\* makes a new one at its end; PersistLocalTransactionInventoryToOpenDevice,
\* called by the row store and by the open, leaves the cache alone.
StartPersist(p, refresh) ==
    /\ pub[p].pc = "idle"
    /\ pub' = [pub EXCEPT ![p] = [pc |-> "opening", refresh |-> refresh]]
    /\ cache' = IF refresh THEN NoSnapshot ELSE cache
    /\ UNCHANGED <<journal, clock, guard, load, written, selected>>

PublisherOpens(p) ==
    /\ pub[p].pc = "opening"
    /\ guard = Free
    /\ guard' = p
    /\ pub' = [pub EXCEPT ![p].pc = "open"]
    /\ UNCHANGED <<journal, clock, cache, load, written, selected>>

PublishIntent(p, size) ==
    /\ pub[p].pc = "open"
    /\ journal.hash + 2 \in Hashes
    /\ journal.inv < MaxPublications
    /\ ReplaceJournal(journal.inv, size)
    /\ pub' = [pub EXCEPT ![p].pc = "publishing"]
    /\ UNCHANGED <<clock, guard, cache, load>>

PublishCommitted(p, size) ==
    /\ pub[p].pc = "publishing"
    /\ ReplaceJournal(journal.inv + 1, size)
    /\ pub' = [pub EXCEPT ![p].pc = "published"]
    /\ UNCHANGED <<clock, guard, cache, load>>

\* A publication may fail with the journal already replaced.
PublicationFails(p) ==
    /\ pub[p].pc \in {"open", "publishing", "published"}
    /\ pub' = [pub EXCEPT ![p].pc = "failed"]
    /\ UNCHANGED <<journal, clock, guard, cache, load, written, selected>>

\* The database cannot be opened or its header not read.
PersistOpenFails(p) ==
    /\ pub[p].pc \in {"opening", "open"}
    /\ pub' = [pub EXCEPT ![p] = Idle]
    /\ guard' = IF guard = p THEN Free ELSE guard
    /\ UNCHANGED <<journal, clock, cache, load, written, selected>>

\* RefreshTransactionInventoryCache, while the device is still open.
Refreshed == journal

\* At its end a publication leaves its result in the cache, or nothing when
\* it failed or the memory for the snapshot is not there.
PersistReturns(p) ==
    /\ pub[p].pc \in {"published", "failed"}
    /\ \/ ~pub[p].refresh /\ UNCHANGED cache
       \/ pub[p].refresh /\ cache' = NoSnapshot
       \/ pub[p].refresh /\ pub[p].pc = "published" /\ cache' = Refreshed
    /\ guard' = Free
    /\ pub' = [pub EXCEPT ![p] = Idle]
    /\ UNCHANGED <<journal, clock, load, written, selected>>

-----------------------------------------------------------------------------
\* Mutant: sizes are compared, times are not.
QuickFenceBySize(s) == s # NoSnapshot /\ s.size = journal.size

SameTransactionInventoryQuickFence(s) ==
    s # NoSnapshot /\ s.size = journal.size /\ s.time = journal.time

\* Mutant: the strong check is the quick one.
SameSignatureQuick(s) ==
    s # NoSnapshot /\ s.size = journal.size /\ s.time = journal.time

SameTransactionInventoryCacheSignature(s) ==
    /\ s # NoSnapshot /\ s.size = journal.size /\ s.time = journal.time
    /\ s.hash = journal.hash

Moves(l, pc, snapshot) ==
    load' = [load EXCEPT ![l].pc = pc, ![l].snapshot = snapshot]

\* A load starts by looking at the cache; a strong one does so again.
StartLoad(l, strong) ==
    /\ ~Running(l)
    /\ load' = [load EXCEPT ![l] = [pc |-> IF strong THEN "lookup" ELSE "fence",
                                    strong |-> strong, snapshot |-> cache]]
    /\ selected' = [selected EXCEPT ![l] = {journal.inv}]
    /\ UNCHANGED <<journal, clock, guard, cache, pub, written>>

\* TryLoadCachedTransactionInventory, after its look at the cache.
TryLoadCached(l) ==
    /\ load[l].pc = "fence"
    /\ \/ /\ SameTransactionInventoryQuickFence(load[l].snapshot)
          /\ Moves(l, "done", load[l].snapshot)
       \/ /\ ~SameTransactionInventoryQuickFence(load[l].snapshot)
          /\ Moves(l, "lookup", NoSnapshot)
    /\ UNCHANGED <<journal, clock, guard, cache, pub, written, selected>>

\* AcquireStrongLocalTransactionInventorySnapshot, look at the cache.
StrongLookup(l) ==
    /\ load[l].pc = "lookup"
    /\ Moves(l, IF cache = NoSnapshot THEN "opening" ELSE "check", cache)
    /\ UNCHANGED <<journal, clock, guard, cache, pub, written, selected>>

StrongCheck(l) ==
    /\ load[l].pc = "check"
    /\ \/ /\ SameTransactionInventoryCacheSignature(load[l].snapshot)
          /\ Moves(l, "done", load[l].snapshot)
          /\ UNCHANGED cache
       \/ /\ ~SameTransactionInventoryCacheSignature(load[l].snapshot)
          /\ Moves(l, "opening", NoSnapshot)
          /\ cache' = NoSnapshot
    /\ UNCHANGED <<journal, clock, guard, pub, written, selected>>

LoaderOpens(l) ==
    /\ load[l].pc = "opening"
    /\ guard = Free
    /\ guard' = l
    /\ Moves(l, "open", NoSnapshot)
    /\ UNCHANGED <<journal, clock, cache, pub, written, selected>>

\* Mutant: the device is closed before the signature is read.
ColdLoadAndClose(l) ==
    /\ load[l].pc = "open"
    /\ Moves(l, "loaded", journal)
    /\ guard' = Free
    /\ UNCHANGED <<journal, clock, cache, pub, written, selected>>

ColdLoad(l) ==
    /\ load[l].pc = "open"
    /\ Moves(l, "loaded", journal)
    /\ UNCHANGED <<journal, clock, guard, cache, pub, written, selected>>

\* The signature is read after the load and stored with what was loaded.
ColdSignature(l) ==
    LET signed == [journal EXCEPT !.inv = load[l].snapshot.inv]
    IN  /\ load[l].pc = "loaded"
        /\ cache' = signed
        /\ Moves(l, "done", signed)
        /\ guard' = IF guard = l THEN Free ELSE guard
        /\ UNCHANGED <<journal, clock, pub, written, selected>>

\* A database that does not open, or whose header cannot be read, leaves the
\* cache as it is; a failed load or signature, and a served device that is
\* refused during the check, empty it.
LoadFails(l) ==
    /\ \/ load[l].pc \in {"opening", "open"} /\ UNCHANGED cache
       \/ load[l].pc \in {"check", "open", "loaded"} /\ cache' = NoSnapshot
    /\ load' = [load EXCEPT ![l] = Resting]
    /\ guard' = IF guard = l THEN Free ELSE guard
    /\ selected' = [selected EXCEPT ![l] = {}]
    /\ UNCHANGED <<journal, clock, pub, written>>

\* RevalidateLocalTransactionInventorySnapshot: the fence a statement puts
\* before its work, on the snapshot it was given.
Revalidate(l) ==
    /\ load[l].pc = "done"
    /\ \/ /\ SameTransactionInventoryQuickFence(load[l].snapshot)
          /\ load' = [load EXCEPT ![l].strong = FALSE]
          /\ selected' = [selected EXCEPT ![l] = {journal.inv}]
       \/ /\ ~SameTransactionInventoryQuickFence(load[l].snapshot)
          /\ load' = [load EXCEPT ![l] = Resting]
          /\ selected' = [selected EXCEPT ![l] = {}]
    /\ UNCHANGED <<journal, clock, guard, cache, pub, written>>

Tick ==
    /\ clock < MaxClock
    /\ clock' = clock + 1
    /\ UNCHANGED <<journal, guard, cache, pub, load, written, selected>>

Next ==
    \/ \E p \in Publishers :
         \/ \E refresh \in BOOLEAN : StartPersist(p, refresh)
         \/ PublisherOpens(p)
         \/ \E size \in Sizes : PublishIntent(p, size) \/ PublishCommitted(p, size)
         \/ PublicationFails(p)
         \/ PersistOpenFails(p)
         \/ PersistReturns(p)
    \/ \E l \in Loaders :
         \/ \E strong \in BOOLEAN : StartLoad(l, strong)
         \/ TryLoadCached(l)
         \/ StrongLookup(l)
         \/ StrongCheck(l)
         \/ LoaderOpens(l)
         \/ ColdLoad(l)
         \/ ColdSignature(l)
         \/ LoadFails(l)
         \/ Revalidate(l)
    \/ Tick

Spec == Init /\ [][Next]_cacheVars

-----------------------------------------------------------------------------
\* A strong load returns an inventory that was selected while it ran,
\* whatever the times and sizes of the journals were: neither the check of a
\* cached snapshot, which takes no lock, nor a cold load that races with
\* publications hands out an inventory that had already been replaced.
StrongLoadsAreCurrent ==
    \A l \in Loaders :
      load[l].pc = "done" /\ load[l].strong =>
        load[l].snapshot.inv \in selected[l]

\* What is cached under the hash of a journal is the inventory this journal
\* selects; a snapshot paired with the signature of a later journal would
\* pass every check until the next publication.
SnapshotMatchesSignature ==
    \A s \in {cache} \cup {load[l].snapshot : l \in Loaders} :
      \A j \in written : s # NoSnapshot /\ s.hash = j.hash => s.inv = j.inv

Ambiguous ==
    \E a, b \in written : a.size = b.size /\ a.time = b.time /\ a.inv # b.inv

\* As long as two journals with different inventories differ in size or
\* time, the quick fence is as good as the strong check, for a load and for
\* the revalidation of what an earlier load returned.
LoadsAreCurrentWithDistinctTimes ==
    Ambiguous \/ \A l \in Loaders :
      load[l].pc = "done" => load[l].snapshot.inv \in selected[l]
=============================================================================
