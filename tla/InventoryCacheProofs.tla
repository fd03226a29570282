------------------------ MODULE InventoryCacheProofs ------------------------
(***************************************************************************)
(* Proofs about the cache of the inventory, for any number of threads,     *)
(* publications, sizes of a journal and ticks of the clock.                *)
(***************************************************************************)
EXTENDS InventoryCache, TLAPS

Journal == [inv : Nat, size : Sizes, time : Nat, hash : Nat]
PubState ==
    [pc : {"idle", "opening", "open", "publishing", "published", "failed"},
     refresh : BOOLEAN]
LoadState ==
    [pc : {"idle", "fence", "lookup", "check", "opening", "open", "loaded", "done"},
     strong : BOOLEAN, snapshot : Journal \cup {NoSnapshot}]

\* The hash of a journal names the inventory it selects.
JournalInv ==
    /\ clock \in Nat
    /\ written \subseteq Journal
    /\ journal \in written
    /\ \A j \in written : j.hash <= journal.hash
    /\ \A i, j \in written : i.hash = j.hash => i.inv = j.inv

\* Whoever has the database open holds the guard, so the journal a cold load
\* reads stays until its signature is read.
GuardInv ==
    /\ pub \in [Publishers -> PubState]
    /\ load \in [Loaders -> LoadState]
    /\ \A p \in Publishers :
         pub[p].pc \in {"open", "publishing", "published", "failed"} => guard = p
    /\ \A l \in Loaders :
         /\ load[l].pc \in {"open", "loaded"} => guard = l
         /\ load[l].pc = "loaded" => load[l].snapshot = journal
         /\ load[l].pc = "fence" => ~load[l].strong

\* Snapshots are taken of journals that were written.
SnapshotInv ==
    /\ cache \in written \cup {NoSnapshot}
    /\ \A l \in Loaders : load[l].snapshot \in written \cup {NoSnapshot}

\* A load knows what was selected since it began.
SelectedInv ==
    /\ selected \in [Loaders -> SUBSET Nat]
    /\ \A l \in Loaders : Running(l) => journal.inv \in selected[l]

\* The inductive invariant.
CacheInv ==
    /\ JournalInv
    /\ GuardInv
    /\ SnapshotInv
    /\ SelectedInv
    /\ StrongLoadsAreCurrent
    /\ LoadsAreCurrentWithDistinctTimes

-----------------------------------------------------------------------------
LEMMA CacheInitial == Init => CacheInv
<1> SUFFICES ASSUME Init PROVE CacheInv
  OBVIOUS
<1>1. JournalInv
  BY DEF Init, JournalInv, Journal
<1>2. GuardInv
  BY DEF Init, GuardInv, PubState, LoadState, Idle, Resting
<1>3. SnapshotInv
  BY DEF Init, SnapshotInv, Resting
<1>4. SelectedInv
  BY DEF Init, SelectedInv, Running, Resting
<1>5. StrongLoadsAreCurrent /\ LoadsAreCurrentWithDistinctTimes
  BY DEF Init, StrongLoadsAreCurrent, LoadsAreCurrentWithDistinctTimes, Resting
<1> QED
  BY <1>1, <1>2, <1>3, <1>4, <1>5 DEF CacheInv

\* A new journal has a hash of its own.
LEMMA ReplaceJournalInv ==
  ASSUME CacheInv, NEW inv \in Nat, NEW size \in Sizes, ReplaceJournal(inv, size),
         clock' = clock, load' = load, cache' = cache
  PROVE  /\ JournalInv' /\ SnapshotInv' /\ SelectedInv'
         /\ StrongLoadsAreCurrent' /\ LoadsAreCurrentWithDistinctTimes'
<1> DEFINE new == [inv |-> inv, size |-> size, time |-> clock,
                   hash |-> journal.hash + 1]
<1>1. journal' = new /\ written' = written \cup {new}
  BY DEF ReplaceJournal
<1>2. journal \in Journal /\ clock \in Nat
  BY DEF CacheInv, JournalInv
<1>3. new \in Journal
  BY <1>2 DEF Journal
<1>4. \A j \in written : j.hash \in Nat /\ j.hash < new.hash
  BY <1>2 DEF CacheInv, JournalInv, Journal
<1>5. JournalInv'
  <2>1. written' \subseteq Journal /\ journal' \in written' /\ clock' \in Nat
    BY <1>1, <1>2, <1>3 DEF CacheInv, JournalInv
  <2>2. \A j \in written' : j.hash <= journal'.hash
    BY <1>1, <1>3, <1>4 DEF Journal
  <2>3. \A i, j \in written' : i.hash = j.hash => i.inv = j.inv
    BY <1>1, <1>3, <1>4 DEF CacheInv, JournalInv, Journal
  <2> QED
    BY <2>1, <2>2, <2>3 DEF JournalInv
<1>6. SnapshotInv'
  BY <1>1 DEF CacheInv, SnapshotInv
<1>7. \A l \in Loaders :
        selected'[l] = IF Running(l) THEN selected[l] \cup {inv} ELSE selected[l]
  BY DEF ReplaceJournal
<1>8. SelectedInv'
  <2>1. selected' \in [Loaders -> SUBSET Nat]
    BY DEF ReplaceJournal, CacheInv, SelectedInv
  <2>2. \A l \in Loaders : Running(l)' => journal'.inv \in selected'[l]
    BY <1>1, <1>7 DEF Running
  <2> QED
    BY <2>1, <2>2 DEF SelectedInv
<1>9. \A l \in Loaders : selected[l] \subseteq selected'[l]
  BY <1>7
<1>10. StrongLoadsAreCurrent'
  BY <1>9 DEF CacheInv, StrongLoadsAreCurrent
<1>11. LoadsAreCurrentWithDistinctTimes'
  BY <1>1, <1>9 DEF CacheInv, LoadsAreCurrentWithDistinctTimes, Ambiguous
<1> QED
  BY <1>5, <1>6, <1>8, <1>10, <1>11

\* Steps of a publication that do not touch the journal.
LEMMA PublisherInv ==
  ASSUME CacheInv, UNCHANGED <<journal, clock, load, written, selected>>,
         cache' \in {cache, NoSnapshot, journal}, GuardInv'
  PROVE  CacheInv'
<1>1. JournalInv' /\ SelectedInv'
  BY DEF CacheInv, JournalInv, SelectedInv, Running
<1>2. SnapshotInv'
  BY DEF CacheInv, SnapshotInv, JournalInv
<1>3. StrongLoadsAreCurrent' /\ LoadsAreCurrentWithDistinctTimes'
  BY DEF CacheInv, StrongLoadsAreCurrent, LoadsAreCurrentWithDistinctTimes, Ambiguous
<1> QED
  BY <1>1, <1>2, <1>3 DEF CacheInv

LEMMA StartPersistInv ==
  ASSUME CacheInv, NEW p \in Publishers, NEW refresh \in BOOLEAN,
         StartPersist(p, refresh)
  PROVE  CacheInv'
<1>1. GuardInv'
  BY DEF CacheInv, GuardInv, StartPersist, PubState
<1> QED
  BY <1>1, PublisherInv DEF StartPersist

LEMMA PublisherOpensInv ==
  ASSUME CacheInv, NEW p \in Publishers, PublisherOpens(p)
  PROVE  CacheInv'
<1>1. guard = "free" /\ "free" \notin Publishers \cup Loaders
  BY CacheConstants DEF PublisherOpens, Free
<1>2. /\ \A q \in Publishers :
           pub[q].pc \notin {"open", "publishing", "published", "failed"}
      /\ \A l \in Loaders : load[l].pc \notin {"open", "loaded"}
  BY <1>1 DEF CacheInv, GuardInv
<1>3. GuardInv'
  BY <1>2 DEF CacheInv, GuardInv, PublisherOpens, PubState
<1> QED
  BY <1>3, PublisherInv DEF PublisherOpens

LEMMA PublicationFailsInv ==
  ASSUME CacheInv, NEW p \in Publishers, PublicationFails(p)
  PROVE  CacheInv'
<1>1. GuardInv'
  BY DEF CacheInv, GuardInv, PublicationFails, PubState
<1> QED
  BY <1>1, PublisherInv DEF PublicationFails

LEMMA PersistOpenFailsInv ==
  ASSUME CacheInv, NEW p \in Publishers, PersistOpenFails(p)
  PROVE  CacheInv'
<1>1. \A l \in Loaders : l # p
  BY CacheConstants
<1>2. GuardInv'
  BY <1>1 DEF CacheInv, GuardInv, PersistOpenFails, PubState, Idle
<1> QED
  BY <1>2, PublisherInv DEF PersistOpenFails

LEMMA PersistReturnsInv ==
  ASSUME CacheInv, NEW p \in Publishers, PersistReturns(p)
  PROVE  CacheInv'
<1>1. guard = p
  BY DEF CacheInv, GuardInv, PersistReturns
<1>2. \A l \in Loaders : l # p
  BY CacheConstants
<1>3. GuardInv'
  BY <1>1, <1>2 DEF CacheInv, GuardInv, PersistReturns, PubState, Idle
<1>4. cache' \in {cache, NoSnapshot, journal}
  BY DEF PersistReturns, Refreshed
<1> QED
  BY <1>3, <1>4, PublisherInv DEF PersistReturns

\* A thread that replaces the journal has the guard, so no cold load is under
\* way.
LEMMA PublishGuard ==
  ASSUME CacheInv, NEW p \in Publishers, pub[p].pc \in {"open", "publishing"},
         NEW pc \in {"publishing", "published"},
         pub' = [pub EXCEPT ![p].pc = pc], UNCHANGED <<guard, load>>
  PROVE  GuardInv'
<1>1. guard = p
  BY DEF CacheInv, GuardInv
<1>2. \A l \in Loaders : load[l].pc \notin {"open", "loaded"}
  BY <1>1, CacheConstants DEF CacheInv, GuardInv
<1> QED
  BY <1>1, <1>2 DEF CacheInv, GuardInv, PubState

LEMMA PublishIntentInv ==
  ASSUME CacheInv, NEW p \in Publishers, NEW size \in Sizes, PublishIntent(p, size)
  PROVE  CacheInv'
<1>1. journal.inv \in Nat
  BY DEF CacheInv, JournalInv, Journal
<1>2. GuardInv'
  BY PublishGuard DEF PublishIntent
<1> QED
  BY <1>1, <1>2, ReplaceJournalInv DEF PublishIntent, CacheInv

LEMMA PublishCommittedInv ==
  ASSUME CacheInv, NEW p \in Publishers, NEW size \in Sizes, PublishCommitted(p, size)
  PROVE  CacheInv'
<1>1. journal.inv + 1 \in Nat
  BY DEF CacheInv, JournalInv, Journal
<1>2. GuardInv'
  BY PublishGuard DEF PublishCommitted
<1> QED
  BY <1>1, <1>2, ReplaceJournalInv DEF PublishCommitted, CacheInv

-----------------------------------------------------------------------------
\* A load that is done may hand out snapshot s, given what was selected.
MayReturn(s, strong, sel) ==
    /\ strong => s.inv \in sel
    /\ Ambiguous \/ s.inv \in sel

\* A step of one load: what it may do to its own state, to the guard, to the
\* cache and to what it knows to have been selected.
LEMMA LoaderInv ==
  ASSUME CacheInv, NEW l \in Loaders, NEW new \in LoadState, NEW sel \in SUBSET Nat,
         UNCHANGED <<journal, clock, pub, written>>,
         load' = [load EXCEPT ![l] = new],
         selected' = [selected EXCEPT ![l] = sel],
         cache' \in written \cup {NoSnapshot},
         new.snapshot \in written \cup {NoSnapshot},
         \A q \in Publishers \cup Loaders : q # l /\ guard = q => guard' = q,
         new.pc \in {"open", "loaded"} => guard' = l,
         new.pc = "loaded" => new.snapshot = journal,
         new.pc = "fence" => ~new.strong,
         new.pc \notin {"idle", "done"} => journal.inv \in sel,
         new.pc = "done" => MayReturn(new.snapshot, new.strong, sel)
  PROVE  CacheInv'
<1>1. /\ load \in [Loaders -> LoadState]
      /\ selected \in [Loaders -> SUBSET Nat]
  BY DEF CacheInv, GuardInv, SelectedInv
<1>2. /\ load'[l] = new /\ selected'[l] = sel
      /\ \A m \in Loaders \ {l} : load'[m] = load[m] /\ selected'[m] = selected[m]
      /\ load' \in [Loaders -> LoadState]
      /\ selected' \in [Loaders -> SUBSET Nat]
  BY <1>1
<1>3. JournalInv'
  BY DEF CacheInv, JournalInv
<1>4. GuardInv'
  <2>1. \A p \in Publishers :
          pub'[p].pc \in {"open", "publishing", "published", "failed"} => guard' = p
    BY CacheConstants DEF CacheInv, GuardInv
  <2>2. \A m \in Loaders \ {l} :
          /\ load'[m].pc \in {"open", "loaded"} => guard' = m
          /\ load'[m].pc = "loaded" => load'[m].snapshot = journal'
          /\ load'[m].pc = "fence" => ~load'[m].strong
    BY <1>2 DEF CacheInv, GuardInv
  <2>3. /\ load'[l].pc \in {"open", "loaded"} => guard' = l
        /\ load'[l].pc = "loaded" => load'[l].snapshot = journal'
        /\ load'[l].pc = "fence" => ~load'[l].strong
    BY <1>2
  <2>4. pub' \in [Publishers -> PubState]
    BY DEF CacheInv, GuardInv
  <2> QED
    BY <1>2, <2>1, <2>2, <2>3, <2>4 DEF GuardInv
<1>5. SnapshotInv'
  BY <1>2 DEF CacheInv, SnapshotInv
<1>6. SelectedInv'
  <2>1. \A m \in Loaders \ {l} : Running(m)' => journal'.inv \in selected'[m]
    BY <1>2 DEF CacheInv, SelectedInv, Running
  <2>2. Running(l)' => journal'.inv \in selected'[l]
    BY <1>2 DEF Running
  <2> QED
    BY <1>2, <2>1, <2>2 DEF SelectedInv
<1>7. StrongLoadsAreCurrent'
  <2>1. \A m \in Loaders \ {l} :
          load'[m].pc = "done" /\ load'[m].strong => load'[m].snapshot.inv \in selected'[m]
    BY <1>2 DEF CacheInv, StrongLoadsAreCurrent
  <2>2. load'[l].pc = "done" /\ load'[l].strong => load'[l].snapshot.inv \in selected'[l]
    BY <1>2 DEF MayReturn
  <2> QED
    BY <2>1, <2>2 DEF StrongLoadsAreCurrent
<1>8. LoadsAreCurrentWithDistinctTimes'
  <2>1. Ambiguous' <=> Ambiguous
    BY DEF Ambiguous
  <2>2. \A m \in Loaders \ {l} :
          load'[m].pc = "done" => Ambiguous \/ load'[m].snapshot.inv \in selected'[m]
    BY <1>2 DEF CacheInv, LoadsAreCurrentWithDistinctTimes
  <2>3. load'[l].pc = "done" => Ambiguous \/ load'[l].snapshot.inv \in selected'[l]
    BY <1>2 DEF MayReturn
  <2> QED
    BY <2>1, <2>2, <2>3 DEF LoadsAreCurrentWithDistinctTimes
<1> QED
  BY <1>3, <1>4, <1>5, <1>6, <1>7, <1>8 DEF CacheInv

\* What a load that is under way can rely on.
LEMMA LoaderFacts ==
  ASSUME CacheInv, NEW l \in Loaders
  PROVE  /\ load[l] \in LoadState
         /\ load[l].snapshot \in written \cup {NoSnapshot}
         /\ cache \in written \cup {NoSnapshot}
         /\ selected[l] \in SUBSET Nat
         /\ selected = [selected EXCEPT ![l] = selected[l]]
         /\ journal \in written
         /\ written \subseteq Journal
         /\ Running(l) => journal.inv \in selected[l]
  BY DEF CacheInv, GuardInv, SnapshotInv, SelectedInv, JournalInv

\* A snapshot with the size and time of the journal is of its inventory,
\* unless two journals of different inventories share both.
LEMMA QuickFenceIsSound ==
  ASSUME CacheInv, NEW s \in written \cup {NoSnapshot},
         SameTransactionInventoryQuickFence(s)
  PROVE  Ambiguous \/ s.inv = journal.inv
  BY DEF CacheInv, JournalInv, SameTransactionInventoryQuickFence, Ambiguous

\* A snapshot with the hash of the journal is of its inventory.
LEMMA SignatureIsSound ==
  ASSUME CacheInv, NEW s \in written \cup {NoSnapshot},
         SameTransactionInventoryCacheSignature(s)
  PROVE  s.inv = journal.inv
  BY DEF CacheInv, JournalInv, SameTransactionInventoryCacheSignature

\* The state of a load that Moves leaves.
LEMMA MovedState ==
  ASSUME CacheInv, NEW l \in Loaders, NEW s \in Journal \cup {NoSnapshot},
         NEW pc \in {"idle", "fence", "lookup", "check", "opening", "open", "loaded", "done"},
         Moves(l, pc, s)
  PROVE  \E new \in LoadState :
           /\ load' = [load EXCEPT ![l] = new]
           /\ new.pc = pc /\ new.snapshot = s /\ new.strong = load[l].strong
<1> DEFINE mid == [load EXCEPT ![l].pc = pc]
<1>1. load \in [Loaders -> LoadState]
  BY DEF CacheInv, GuardInv
<1>2. /\ mid \in [Loaders -> LoadState]
      /\ mid[l].pc = pc /\ mid[l].strong = load[l].strong
      /\ \A m \in Loaders \ {l} : mid[m] = load[m]
  BY <1>1 DEF LoadState
<1>3. load' = [mid EXCEPT ![l].snapshot = s]
  BY DEF Moves
<1> HIDE DEF mid
<1>4. /\ load' \in [Loaders -> LoadState]
      /\ load'[l].pc = pc /\ load'[l].snapshot = s
      /\ load'[l].strong = load[l].strong
      /\ \A m \in Loaders \ {l} : load'[m] = load[m]
  BY <1>2, <1>3 DEF LoadState
<1>5. load' = [load EXCEPT ![l] = load'[l]]
  BY <1>1, <1>4
<1> QED
  BY <1>4, <1>5

\* A load under way that Moves on.
LEMMA MovesInv ==
  ASSUME CacheInv, NEW l \in Loaders, NEW s \in written \cup {NoSnapshot},
         NEW pc \in {"idle", "lookup", "check", "opening", "open", "loaded", "done"},
         Running(l), Moves(l, pc, s),
         UNCHANGED <<journal, clock, pub, written, selected>>,
         cache' \in written \cup {NoSnapshot},
         \A q \in Publishers \cup Loaders : q # l /\ guard = q => guard' = q,
         pc \in {"open", "loaded"} => guard' = l,
         pc = "loaded" => s = journal,
         pc = "done" => MayReturn(s, load[l].strong, selected[l])
  PROVE  CacheInv'
<1>1. /\ s \in Journal \cup {NoSnapshot}
      /\ selected[l] \in SUBSET Nat
      /\ selected' = [selected EXCEPT ![l] = selected[l]]
      /\ journal.inv \in selected[l]
  BY LoaderFacts
<1>2. PICK new \in LoadState :
        /\ load' = [load EXCEPT ![l] = new]
        /\ new.pc = pc /\ new.snapshot = s /\ new.strong = load[l].strong
  BY <1>1, MovedState
<1>3. new.pc # "fence"
  BY <1>2
<1> QED
  BY <1>1, <1>2, <1>3, LoaderInv

LEMMA StartLoadInv ==
  ASSUME CacheInv, NEW l \in Loaders, NEW strong \in BOOLEAN, StartLoad(l, strong)
  PROVE  CacheInv'
<1> DEFINE new == [pc |-> IF strong THEN "lookup" ELSE "fence",
                   strong |-> strong, snapshot |-> cache]
           sel == {journal.inv}
<1>1. cache \in written \cup {NoSnapshot} /\ journal.inv \in Nat
  BY LoaderFacts DEF Journal
<1>2. cache \in Journal \cup {NoSnapshot}
  BY <1>1, LoaderFacts
<1>3. new \in LoadState
  BY <1>2 DEF LoadState
<1>4. /\ new.snapshot = cache
      /\ new.pc \notin {"open", "loaded", "idle", "done"}
      /\ new.pc = "fence" => ~new.strong
  OBVIOUS
<1>5. /\ load' = [load EXCEPT ![l] = new]
      /\ selected' = [selected EXCEPT ![l] = sel]
      /\ UNCHANGED <<journal, clock, guard, cache, pub, written>>
  BY DEF StartLoad
<1>6. sel \in SUBSET Nat /\ journal.inv \in sel
  BY <1>1
<1> HIDE DEF new, sel
<1> QED
  BY <1>1, <1>3, <1>4, <1>5, <1>6, LoaderInv

LEMMA TryLoadCachedInv ==
  ASSUME CacheInv, NEW l \in Loaders, TryLoadCached(l)
  PROVE  CacheInv'
<1>1. /\ Running(l)
      /\ UNCHANGED <<journal, clock, guard, cache, pub, written, selected>>
      /\ ~load[l].strong
  BY DEF TryLoadCached, Running, CacheInv, GuardInv
<1>2. /\ load[l].snapshot \in written \cup {NoSnapshot}
      /\ cache \in written \cup {NoSnapshot}
      /\ journal.inv \in selected[l]
  BY <1>1, LoaderFacts
<1>3. CASE /\ SameTransactionInventoryQuickFence(load[l].snapshot)
           /\ Moves(l, "done", load[l].snapshot)
  <2>1. MayReturn(load[l].snapshot, load[l].strong, selected[l])
    BY <1>1, <1>2, <1>3, QuickFenceIsSound DEF MayReturn
  <2> QED
    BY <1>1, <1>2, <1>3, <2>1, MovesInv
<1>4. CASE Moves(l, "lookup", NoSnapshot)
  BY <1>1, <1>2, <1>4, MovesInv
<1> QED
  BY <1>3, <1>4 DEF TryLoadCached

LEMMA StrongLookupInv ==
  ASSUME CacheInv, NEW l \in Loaders, StrongLookup(l)
  PROVE  CacheInv'
<1>1. /\ Running(l)
      /\ UNCHANGED <<journal, clock, guard, cache, pub, written, selected>>
      /\ \E pc \in {"opening", "check"} : Moves(l, pc, cache)
  BY DEF StrongLookup, Running
<1>2. cache \in written \cup {NoSnapshot}
  BY LoaderFacts
<1> QED
  BY <1>1, <1>2, MovesInv

LEMMA StrongCheckInv ==
  ASSUME CacheInv, NEW l \in Loaders, StrongCheck(l)
  PROVE  CacheInv'
<1>1. /\ Running(l)
      /\ UNCHANGED <<journal, clock, guard, pub, written, selected>>
      /\ cache' \in {cache, NoSnapshot}
  BY DEF StrongCheck, Running
<1>2. /\ load[l].snapshot \in written \cup {NoSnapshot}
      /\ cache' \in written \cup {NoSnapshot}
      /\ journal.inv \in selected[l]
  BY <1>1, LoaderFacts
<1>3. CASE /\ SameTransactionInventoryCacheSignature(load[l].snapshot)
           /\ Moves(l, "done", load[l].snapshot)
  <2>1. MayReturn(load[l].snapshot, load[l].strong, selected[l])
    BY <1>2, <1>3, SignatureIsSound DEF MayReturn
  <2> QED
    BY <1>1, <1>2, <1>3, <2>1, MovesInv
<1>4. CASE Moves(l, "opening", NoSnapshot)
  BY <1>1, <1>2, <1>4, MovesInv
<1> QED
  BY <1>3, <1>4 DEF StrongCheck

LEMMA LoaderOpensInv ==
  ASSUME CacheInv, NEW l \in Loaders, LoaderOpens(l)
  PROVE  CacheInv'
<1>1. /\ Running(l) /\ Moves(l, "open", NoSnapshot) /\ guard' = l
      /\ UNCHANGED <<journal, clock, cache, pub, written, selected>>
  BY DEF LoaderOpens, Running
<1>2. \A q \in Publishers \cup Loaders : guard # q
  BY CacheConstants DEF LoaderOpens, Free
<1>3. cache \in written \cup {NoSnapshot}
  BY LoaderFacts
<1> QED
  BY <1>1, <1>2, <1>3, MovesInv

LEMMA ColdLoadInv ==
  ASSUME CacheInv, NEW l \in Loaders, ColdLoad(l)
  PROVE  CacheInv'
<1>1. /\ Running(l) /\ Moves(l, "loaded", journal) /\ guard = l
      /\ UNCHANGED <<journal, clock, guard, cache, pub, written, selected>>
  BY DEF ColdLoad, Running, CacheInv, GuardInv
<1>2. cache \in written \cup {NoSnapshot} /\ journal \in written
  BY LoaderFacts
<1> QED
  BY <1>1, <1>2, MovesInv

\* The guard has kept the journal, so what was loaded gets its own signature.
LEMMA ColdSignatureInv ==
  ASSUME CacheInv, NEW l \in Loaders, ColdSignature(l)
  PROVE  CacheInv'
<1>1. load[l].snapshot = journal /\ Running(l)
  BY DEF ColdSignature, Running, CacheInv, GuardInv
<1>2. journal \in Journal /\ journal \in written /\ journal.inv \in selected[l]
  BY <1>1, LoaderFacts
<1>3. [journal EXCEPT !.inv = load[l].snapshot.inv] = journal
  BY <1>1, <1>2 DEF Journal
<1>4. /\ Moves(l, "done", journal) /\ cache' = journal
      /\ guard' = IF guard = l THEN Free ELSE guard
      /\ UNCHANGED <<journal, clock, pub, written, selected>>
  BY <1>3 DEF ColdSignature
<1>5. MayReturn(journal, load[l].strong, selected[l])
  BY <1>2 DEF MayReturn
<1> QED
  BY <1>1, <1>2, <1>4, <1>5, MovesInv

\* A load that fails or whose snapshot is refused.
LEMMA RestsInv ==
  ASSUME CacheInv, NEW l \in Loaders,
         load' = [load EXCEPT ![l] = Resting],
         selected' = [selected EXCEPT ![l] = {}],
         cache' \in {cache, NoSnapshot},
         \A q \in Publishers \cup Loaders : q # l /\ guard = q => guard' = q,
         UNCHANGED <<journal, clock, pub, written>>
  PROVE  CacheInv'
<1>1. Resting \in LoadState /\ Resting.pc = "idle" /\ Resting.snapshot = NoSnapshot
  BY DEF Resting, LoadState
<1>2. cache' \in written \cup {NoSnapshot}
  BY LoaderFacts
<1> QED
  BY <1>1, <1>2, LoaderInv

LEMMA LoadFailsInv ==
  ASSUME CacheInv, NEW l \in Loaders, LoadFails(l)
  PROVE  CacheInv'
  BY RestsInv DEF LoadFails

LEMMA RevalidateInv ==
  ASSUME CacheInv, NEW l \in Loaders, Revalidate(l)
  PROVE  CacheInv'
<1>1. /\ load[l].pc = "done"
      /\ UNCHANGED <<journal, clock, guard, cache, pub, written>>
  BY DEF Revalidate
<1>2. CASE /\ SameTransactionInventoryQuickFence(load[l].snapshot)
           /\ load' = [load EXCEPT ![l].strong = FALSE]
           /\ selected' = [selected EXCEPT ![l] = {journal.inv}]
  <2> DEFINE sel == {journal.inv}
  <2>1. /\ load \in [Loaders -> LoadState]
        /\ load[l].snapshot \in written \cup {NoSnapshot}
        /\ cache \in written \cup {NoSnapshot}
        /\ journal.inv \in Nat
    BY LoaderFacts DEF CacheInv, GuardInv, Journal
  <2>2. /\ load'[l] \in LoadState
        /\ load'[l].pc = "done" /\ ~load'[l].strong
        /\ load'[l].snapshot = load[l].snapshot
        /\ load' = [load EXCEPT ![l] = load'[l]]
    BY <1>1, <1>2, <2>1 DEF LoadState
  <2>3. MayReturn(load'[l].snapshot, load'[l].strong, sel)
    BY <1>2, <2>1, <2>2, QuickFenceIsSound DEF MayReturn
  <2>4. sel \in SUBSET Nat /\ selected' = [selected EXCEPT ![l] = sel]
    BY <1>2, <2>1
  <2> HIDE DEF sel
  <2> QED
    BY <1>1, <2>1, <2>2, <2>3, <2>4, LoaderInv
<1>3. CASE /\ load' = [load EXCEPT ![l] = Resting]
           /\ selected' = [selected EXCEPT ![l] = {}]
  BY <1>1, <1>3, RestsInv
<1> QED
  BY <1>2, <1>3 DEF Revalidate

\* Time passing, or nothing at all.
LEMMA TickInv ==
  ASSUME CacheInv, clock' \in Nat,
         UNCHANGED <<journal, guard, cache, pub, load, written, selected>>
  PROVE  CacheInv'
  BY DEF CacheInv, JournalInv, GuardInv, SnapshotInv, SelectedInv, Running,
         StrongLoadsAreCurrent, LoadsAreCurrentWithDistinctTimes, Ambiguous

LEMMA CacheStep == CacheInv /\ [Next]_cacheVars => CacheInv'
<1> SUFFICES ASSUME CacheInv, [Next]_cacheVars PROVE CacheInv'
  OBVIOUS
<1>1. clock \in Nat
  BY DEF CacheInv, JournalInv
<1>2. CASE UNCHANGED cacheVars
  BY <1>1, <1>2, TickInv DEF cacheVars
<1>3. CASE Tick
  BY <1>1, <1>3, TickInv DEF Tick
<1>4. ASSUME NEW p \in Publishers,
             \/ \E refresh \in BOOLEAN : StartPersist(p, refresh)
             \/ PublisherOpens(p)
             \/ \E size \in Sizes : PublishIntent(p, size) \/ PublishCommitted(p, size)
             \/ PublicationFails(p)
             \/ PersistOpenFails(p)
             \/ PersistReturns(p)
      PROVE  CacheInv'
  BY <1>4, StartPersistInv, PublisherOpensInv, PublishIntentInv,
     PublishCommittedInv, PublicationFailsInv, PersistOpenFailsInv,
     PersistReturnsInv
<1>5. ASSUME NEW l \in Loaders,
             \/ \E strong \in BOOLEAN : StartLoad(l, strong)
             \/ TryLoadCached(l)
             \/ StrongLookup(l)
             \/ StrongCheck(l)
             \/ LoaderOpens(l)
             \/ ColdLoad(l)
             \/ ColdSignature(l)
             \/ LoadFails(l)
             \/ Revalidate(l)
      PROVE  CacheInv'
  BY <1>5, StartLoadInv, TryLoadCachedInv, StrongLookupInv, StrongCheckInv,
     LoaderOpensInv, ColdLoadInv, ColdSignatureInv, LoadFailsInv, RevalidateInv
<1> QED
  BY <1>2, <1>3, <1>4, <1>5 DEF Next

\* The inductive invariant holds in every state of the cache.
THEOREM CacheInvariant == Spec => []CacheInv
  BY CacheInitial, CacheStep, PTL DEF Spec

\* A strong load (AcquireStrongLocalTransactionInventorySnapshot) returns an
\* inventory that was selected while it ran, for any number of threads and
\* publications and whatever the times and sizes of the journals are.
THEOREM StrongLoads == Spec => []StrongLoadsAreCurrent
<1>1. CacheInv => StrongLoadsAreCurrent
  BY DEF CacheInv
<1> QED
  BY <1>1, CacheInvariant, PTL

\* As long as no two journals of different inventories share size and time,
\* TryLoadCachedTransactionInventory and
\* RevalidateLocalTransactionInventorySnapshot are as good as a strong load.
THEOREM QuickLoads == Spec => []LoadsAreCurrentWithDistinctTimes
<1>1. CacheInv => LoadsAreCurrentWithDistinctTimes
  BY DEF CacheInv
<1> QED
  BY <1>1, CacheInvariant, PTL

\* No snapshot is ever cached or handed out under the signature of a journal
\* that selects another inventory.
THEOREM SignaturesNameInventories == Spec => []SnapshotMatchesSignature
<1>1. CacheInv => SnapshotMatchesSignature
  BY DEF CacheInv, JournalInv, SnapshotInv, SnapshotMatchesSignature
<1> QED
  BY <1>1, CacheInvariant, PTL
=============================================================================
