------------------------ MODULE InventoryPublication ------------------------
(***************************************************************************)
(* The durable publication of the transaction inventory                    *)
(* (src/project/src/storage/database/local_transaction_store.cpp): a       *)
(* journal file that is replaced by rename, the inventory pages of the     *)
(* data file, and callers that compare-and-swap on the publication base.   *)
(*                                                                         *)
(* Every I/O call is a step of its own and may fail; the process may crash *)
(* between any two.  What a crash leaves is tracked as the set of images   *)
(* that may be on disk: a write adds its image (and a torn one) to the     *)
(* page's set, an fsync empties the set down to what was written, a rename *)
(* adds the new file to the journal's set and the directory sync makes it  *)
(* the only one.                                                           *)
(*                                                                         *)
(*   journal, maybeJournal  the visible journal and the ones a crash may   *)
(*                          leave                                          *)
(*   pages, maybePages      the same for every inventory page              *)
(*   temp                   the journal's temporary file                   *)
(*   pub                    the publication that holds the device          *)
(*   caller                 what each caller holds between load and        *)
(*                          publish: its base, and its transaction number  *)
(*   opened                 startup recovery has been published            *)
(*   acked, observed        ghosts: what callers were told, what they read *)
(*   failures, crashes      counters of the bounded events                 *)
(*                                                                         *)
(* The read cache in front of loading is left out: every load is a cold    *)
(* one, as after InvalidateTransactionInventoryCache.                      *)
(***************************************************************************)
EXTENDS InventoryValues, FiniteSets

CONSTANTS
    Callers,           \* threads that publish
    NumPages,          \* pages of the inventory chain
    SyncPolicies,      \* subset of {"batched", "per_page"}
    MaxFailures,       \* bound: failing I/O calls
    MaxCrashes         \* bound: crashes

\* An inventory has at least one page (there is always a first chain page).
ASSUME PublicationConstants ==
    /\ NumPages \in Nat \ {0}
    /\ MaxFailures \in Nat
    /\ MaxCrashes \in Nat

VARIABLES journal, maybeJournal, pages, maybePages, temp, pub, caller,
          opened, acked, observed, failures, crashes

disk == <<journal, maybeJournal, pages, maybePages, temp>>
pubVars == <<journal, maybeJournal, pages, maybePages, temp, pub, caller,
             opened, acked, observed, failures, crashes>>

Pages == 1 .. NumPages

Absent == [phase |-> "absent"]
Torn == [phase |-> "torn"]          \* a file or page that fails its digest
NoBase == [generation |-> 0]
Idle == [step |-> "idle"]
NoTemp == [phase |-> "none"]
PartialTemp == [phase |-> "partial"]

-----------------------------------------------------------------------------
(***************************************************************************)
(* Loading.                                                                *)
(***************************************************************************)

\* LoadInventoryChain: every page readable, one generation and one image.
ChainReadable(pgs) ==
    \A p \in Pages : pgs[p] # Torn /\ pgs[p] = pgs[1]

\* Mutant: an interrupted publication cannot be read.
SelectCommittedOnly(j, pgs) ==
    CASE j.phase = "committed" -> Selection(j.new, j.generation)
      [] j.phase = "absent" /\ ChainReadable(pgs) -> pgs[1]
      [] OTHER -> NoBase

\* RecoverInventoryFromPublishJournal: a journal, when there is one, selects
\* the inventory even over readable pages.
Select(j, pgs) ==
    CASE j.phase = "committed"  -> Selection(j.new, j.generation)
      [] j.phase = "publishing" -> Selection(j.old, j.oldGeneration)
      [] j.phase = "absent" /\ ChainReadable(pgs) -> pgs[1]
      [] OTHER -> NoBase

\* Mutant: generations of unfinished attempts are used again.
WatermarkOfSelection == Select(journal, pages).generation

\* The highest generation any attempt has used.
Watermark ==
    IF journal.phase = "absent" THEN Select(journal, pages).generation
                                ELSE journal.generation

\* New active entries are first published in the starting state.
NewlyActive(old, new) == {n \in Len(old) + 1 .. Len(new) : new[n] = "active"}
Starting(old, new) ==
    [n \in 1 .. Len(new) |-> IF n \in NewlyActive(old, new) THEN "created" ELSE new[n]]

\* Startup recovery of an inventory without prepared entries.
Recovered(i) ==
    [n \in 1 .. Len(i) |-> IF i[n] \in {"created", "active"} THEN "rolled_back" ELSE i[n]]

-----------------------------------------------------------------------------
Init ==
    /\ journal = Absent
    /\ maybeJournal = {Absent}
    /\ pages = [p \in Pages |-> Selection(<<>>, 1)]
    /\ maybePages = [p \in Pages |-> {Selection(<<>>, 1)}]
    /\ temp = NoTemp
    /\ pub = Idle
    /\ caller = [c \in Callers |-> [base |-> NoBase, number |-> 0]]
    /\ opened = FALSE
    /\ acked = {}
    /\ observed = {}
    /\ failures = 0
    /\ crashes = 0

\* A caller loads the selected inventory; the device is free.
Load(c) ==
    /\ pub = Idle
    /\ caller[c].base = NoBase
    /\ Select(journal, pages) # NoBase
    /\ caller' = [caller EXCEPT ![c].base = Select(journal, pages)]
    /\ observed' = observed \cup {Select(journal, pages)}
    /\ UNCHANGED <<disk, pub, opened, acked, failures, crashes>>

\* A publication of new by caller c on the selection old; number is the
\* transaction c works for, 0 for recovery.
Publication(c, number, policy, old, generation, new, after) ==
    [ step |-> "write_temp", phase |-> "publishing", caller |-> c,
      number |-> number, policy |-> policy, old |-> old,
      generation |-> generation, new |-> new, after |-> after, page |-> 1 ]

\* Mutant: the base is not compared.
ExactBaseIgnored(base) == TRUE

\* The compare of compare-and-swap: generation and digest both.
ExactBase(base) == base = Select(journal, pages)

\* Mutant: the activation's own generation is forgotten.
GenerationsLeftForOne(begins) == Watermark # MaxGeneration

GenerationsLeft(begins) ==
    /\ Watermark # MaxGeneration
    /\ begins => Watermark <= MaxGeneration - 2

\* PersistLocalTransactionInventoryToOpenDevice up to the first journal:
\* compare the base, take the next generation, check the evolution, and
\* split a BEGIN into the starting publication and the activation.
Submit(c, number, new, policy) ==
    LET current == Select(journal, pages)
        begins == NewlyActive(current.inventory, new) # {}
    IN
    /\ pub = Idle
    /\ ExactBase(caller[c].base)
    /\ GenerationsLeft(begins)
    /\ EvolutionValid(current.inventory, new)
    /\ pub' = Publication(c, number, policy, current, Watermark + 1,
                          IF begins THEN Starting(current.inventory, new) ELSE new,
                          IF begins THEN new ELSE <<>>)
    /\ UNCHANGED <<disk, caller, opened, acked, observed, failures, crashes>>

\* The base is not the selected one any more: the caller is refused.
RefuseStale(c) ==
    /\ pub = Idle
    /\ caller[c].base # NoBase
    /\ ~ExactBase(caller[c].base)
    /\ caller' = [caller EXCEPT ![c].base = NoBase]
    /\ UNCHANGED <<disk, pub, opened, acked, observed, failures, crashes>>

SubmitBegin(c, policy) ==
    /\ opened
    /\ caller[c].base # NoBase
    /\ caller[c].number = 0
    /\ Len(caller[c].base.inventory) < MaxTransactions
    /\ Submit(c, Len(caller[c].base.inventory) + 1,
              Append(caller[c].base.inventory, "active"), policy)

SubmitFinish(c, outcome, policy) ==
    /\ opened
    /\ caller[c].base # NoBase
    /\ caller[c].number # 0
    /\ caller[c].base.inventory[caller[c].number] = "active"
    /\ Submit(c, caller[c].number,
              [caller[c].base.inventory EXCEPT ![caller[c].number] = outcome], policy)

\* A transaction whose finish reported an error turns out to be finished.
ObserveFinished(c) ==
    /\ opened
    /\ caller[c].base # NoBase
    /\ caller[c].number # 0
    /\ caller[c].base.inventory[caller[c].number] # "active"
    /\ caller' = [caller EXCEPT ![c] = [base |-> NoBase, number |-> 0]]
    /\ UNCHANGED <<disk, pub, opened, acked, observed, failures, crashes>>

\* The writable open publishes recovery when it changes the inventory.
SubmitRecovery(c, policy) ==
    /\ ~opened
    /\ caller[c].base # NoBase
    /\ Recovered(caller[c].base.inventory) # caller[c].base.inventory
    /\ Submit(c, 0, Recovered(caller[c].base.inventory), policy)

OpenWithoutRecovery(c) ==
    /\ ~opened
    /\ caller[c].base # NoBase
    /\ Recovered(caller[c].base.inventory) = caller[c].base.inventory
    /\ opened' = TRUE
    /\ caller' = [caller EXCEPT ![c].base = NoBase]
    /\ UNCHANGED <<disk, pub, acked, observed, failures, crashes>>

-----------------------------------------------------------------------------
(***************************************************************************)
(* PersistPublishJournal, once per phase.                                  *)
(***************************************************************************)

JournalImage ==
    [ phase |-> pub.phase, generation |-> pub.generation,
      oldGeneration |-> pub.old.generation,
      old |-> pub.old.inventory, new |-> pub.new ]

\* Mutant: the directory is not synced.
DirectoryNotSynced == UNCHANGED maybeJournal

\* A directory sync leaves only the visible journal.
DirectorySynced == maybeJournal' = maybeJournal \cap {journal, Torn}

\* A temporary file that an earlier attempt left is removed, and the removal
\* is made durable.
RemoveStaleTemp ==
    /\ pub.step = "write_temp"
    /\ temp # NoTemp
    /\ temp' = NoTemp
    /\ DirectorySynced
    /\ UNCHANGED <<journal, pages, maybePages, pub, caller, opened,
                   acked, observed, failures, crashes>>

WriteTemp ==
    /\ pub.step = "write_temp"
    /\ temp = NoTemp
    /\ temp' = [phase |-> "written", image |-> JournalImage, synced |-> FALSE]
    /\ pub' = [pub EXCEPT !.step = "sync_temp"]
    /\ UNCHANGED <<journal, maybeJournal, pages, maybePages, caller, opened,
                   acked, observed, failures, crashes>>

\* Mutant: the temporary file is not synced.
SyncTempSkipped ==
    /\ pub.step = "sync_temp"
    /\ pub' = [pub EXCEPT !.step = "rename"]
    /\ UNCHANGED <<disk, caller, opened, acked, observed, failures, crashes>>

SyncTemp ==
    /\ pub.step = "sync_temp"
    /\ temp' = [temp EXCEPT !.synced = TRUE]
    /\ pub' = [pub EXCEPT !.step = "rename"]
    /\ UNCHANGED <<journal, maybeJournal, pages, maybePages, caller, opened,
                   acked, observed, failures, crashes>>

\* The rename is atomic; a file that was not synced may be torn by a crash.
Rename ==
    /\ pub.step = "rename"
    /\ journal' = temp.image
    /\ maybeJournal' = maybeJournal \cup {temp.image}
                         \cup (IF temp.synced THEN {} ELSE {Torn})
    /\ temp' = NoTemp
    /\ pub' = [pub EXCEPT !.step = "sync_directory"]
    /\ UNCHANGED <<pages, maybePages, caller, opened, acked, observed,
                   failures, crashes>>

SyncDirectoryOfPublishing ==
    /\ pub.step = "sync_directory" /\ pub.phase = "publishing"
    /\ DirectorySynced
    /\ pub' = [pub EXCEPT !.step = "write_page"]
    /\ UNCHANGED <<journal, pages, maybePages, temp, caller, opened, acked,
                   observed, failures, crashes>>

-----------------------------------------------------------------------------
AfterPage ==
    IF pub.page < NumPages
    THEN [pub EXCEPT !.step = "write_page", !.page = @ + 1]
    ELSE [pub EXCEPT !.step = "write_temp", !.phase = "committed"]

\* One page of the chain; a crash may leave the old image, the new or a
\* torn one.
WritePage ==
    /\ pub.step = "write_page"
    /\ LET image == Selection(pub.new, pub.generation) IN
       /\ pages' = [pages EXCEPT ![pub.page] = image]
       /\ maybePages' = [maybePages EXCEPT ![pub.page] = @ \cup {image, Torn}]
    /\ pub' = IF pub.policy = "batched" /\ pub.page < NumPages
              THEN AfterPage
              ELSE [pub EXCEPT !.step = "sync_device"]
    /\ UNCHANGED <<journal, maybeJournal, temp, caller, opened, acked,
                   observed, failures, crashes>>

\* Mutant: the pages are not synced.
SyncDeviceSkipped ==
    /\ pub.step = "sync_device"
    /\ pub' = AfterPage
    /\ UNCHANGED <<disk, caller, opened, acked, observed, failures, crashes>>

\* device->Sync: after every page or once after the last, by the policy.
SyncDevice ==
    /\ pub.step = "sync_device"
    /\ maybePages' = [p \in Pages |-> {pages[p]}]
    /\ pub' = AfterPage
    /\ UNCHANGED <<journal, maybeJournal, pages, temp, caller, opened, acked,
                   observed, failures, crashes>>

-----------------------------------------------------------------------------
\* The starting publication succeeded: the activation is published on it.
SyncDirectoryThenActivate ==
    /\ pub.step = "sync_directory" /\ pub.phase = "committed"
    /\ pub.after # <<>>
    /\ DirectorySynced
    /\ pub' = Publication(pub.caller, pub.number, pub.policy,
                          Selection(pub.new, pub.generation), pub.generation + 1,
                          pub.after, <<>>)
    /\ UNCHANGED <<journal, pages, maybePages, temp, caller, opened, acked,
                   observed, failures, crashes>>

\* The caller is told, and so is the process that waits for the open.
Report ==
    /\ pub.step = "sync_directory" /\ pub.phase = "committed"
    /\ pub.after = <<>>
    /\ pub' = Idle
    /\ opened' = TRUE
    /\ IF pub.number = 0
       THEN /\ acked' = acked
            /\ caller' = [caller EXCEPT ![pub.caller].base = NoBase]
       ELSE LET state == pub.new[pub.number] IN
            /\ acked' = acked \cup {<<pub.number, state>>}
            /\ caller' = [caller EXCEPT ![pub.caller] =
                  [base |-> NoBase,
                   number |-> IF state = "active" THEN pub.number ELSE 0]]
    /\ UNCHANGED <<journal, pages, maybePages, temp, observed, failures, crashes>>

\* Mutant: success is reported before the last directory sync.
SyncDirectoryAndReportEarly == Report /\ UNCHANGED maybeJournal

\* The publication succeeded.
SyncDirectoryAndReport == Report /\ DirectorySynced

\* Any I/O call may fail: the publication stops where it is and the caller
\* is told.  A page write that fails may have torn the page, a temporary
\* file may be left in part, or be removed without the removal being synced;
\* the other calls leave what is visible alone.
Fail ==
    /\ pub # Idle
    /\ failures < MaxFailures
    /\ failures' = failures + 1
    /\ IF pub.step = "write_page"
       THEN /\ pages' = [pages EXCEPT ![pub.page] = Torn]
            /\ maybePages' = [maybePages EXCEPT ![pub.page] =
                  @ \cup {Selection(pub.new, pub.generation), Torn}]
       ELSE UNCHANGED <<pages, maybePages>>
    /\ \/ UNCHANGED temp
       \/ pub.step = "write_temp" /\ temp' = IF temp = NoTemp THEN PartialTemp ELSE NoTemp
    /\ pub' = Idle
    /\ caller' = [caller EXCEPT ![pub.caller].base = NoBase]
    /\ UNCHANGED <<journal, maybeJournal, opened, acked, observed, crashes>>

\* The process or the machine stops and restarts.
Crash ==
    /\ crashes < MaxCrashes
    /\ crashes' = crashes + 1
    /\ journal' \in maybeJournal
    /\ maybeJournal' = {journal'}
    /\ pages' \in {f \in [Pages -> UNION {maybePages[p] : p \in Pages}] :
                      \A p \in Pages : f[p] \in maybePages[p]}
    /\ maybePages' = [p \in Pages |-> {pages'[p]}]
    /\ temp' \in {temp, NoTemp}
    /\ pub' = Idle
    /\ caller' = [c \in Callers |-> [base |-> NoBase, number |-> 0]]
    /\ opened' = FALSE
    /\ UNCHANGED <<acked, observed, failures>>

-----------------------------------------------------------------------------
\* The steps of the publication that holds the device.
PublicationStep ==
    \/ RemoveStaleTemp \/ WriteTemp \/ SyncTemp \/ Rename
    \/ SyncDirectoryOfPublishing
    \/ WritePage \/ SyncDevice
    \/ SyncDirectoryThenActivate \/ SyncDirectoryAndReport

OpenStep(c) ==
    \/ ~opened /\ Load(c)
    \/ RefuseStale(c)
    \/ \E policy \in SyncPolicies : SubmitRecovery(c, policy)
    \/ OpenWithoutRecovery(c)

CallerStep(c) ==
    \/ opened /\ Load(c)
    \/ \E policy \in SyncPolicies :
          \/ SubmitBegin(c, policy)
          \/ \E outcome \in {"committed", "rolled_back"} : SubmitFinish(c, outcome, policy)
    \/ ObserveFinished(c)

Next ==
    \/ PublicationStep
    \/ \E c \in Callers : OpenStep(c) \/ CallerStep(c)
    \/ Fail
    \/ Crash

\* A thread inside a publication keeps running, and somebody keeps trying
\* to open a database that is not open.  Callers need not do anything.
Fairness ==
    /\ WF_pubVars(PublicationStep)
    /\ \A c \in Callers : WF_pubVars(OpenStep(c))

Spec == Init /\ [][Next]_pubVars /\ Fairness

-----------------------------------------------------------------------------
(***************************************************************************)
(* Properties.                                                             *)
(***************************************************************************)

JournalImages ==
    [ phase : {"publishing", "committed"}, generation : 2 .. MaxGeneration,
      oldGeneration : 1 .. MaxGeneration, old : Inventories, new : Inventories ]

\* Files, pages and callers hold values of their types; the visible image is
\* always one of those a crash may leave or a write that failed.
PublicationTypeOK ==
    /\ journal \in maybeJournal
    /\ maybeJournal \subseteq JournalImages \cup {Absent, Torn}
    /\ \A p \in Pages :
          /\ pages[p] \in maybePages[p]
          /\ maybePages[p] \subseteq Selections \cup {Torn}
    /\ pub # Idle => pub.caller \in Callers /\ pub.generation \in 2 .. MaxGeneration
    /\ \A c \in Callers :
          /\ caller[c].base \in Selections \cup {NoBase}
          /\ caller[c].number \in 0 .. MaxTransactions
    /\ acked \subseteq (1 .. MaxTransactions) \X EntryStates
    /\ observed \subseteq Selections
    /\ failures \in 0 .. MaxFailures /\ crashes \in 0 .. MaxCrashes

Possible == {Select(j, pages) : j \in maybeJournal}

\* Whatever a crash leaves on disk, the inventory can be loaded: the journal
\* is never torn, and as long as there may be none the pages still hold the
\* inventory of the last publication that needed no journal.
AlwaysLoadable ==
    \A j \in maybeJournal :
        /\ j # Torn
        /\ j = Absent => \A p \in Pages : maybePages[p] = {Selection(<<>>, 1)}

\* A committed journal that a crash may leave selected stands for pages that
\* are all durable at its generation: the pages are synced before the
\* journal says committed and not touched before it says publishing.
CommittedJournalHasPages ==
    \A j \in maybeJournal : j.phase = "committed" =>
        \A p \in Pages : maybePages[p] = {Selection(j.new, j.generation)}

\* Two different inventories are never read under one generation, crashes
\* and failed publications included, so a base cannot be mistaken for
\* another one.
GenerationNamesInventory ==
    \A s, t \in observed \cup {Select(journal, pages)} :
        s.generation = t.generation => s = t

\* A transaction number that BEGIN reported is never reported again, to
\* this caller or another one, before or after a crash.
NumbersNeverReissued ==
    [][\A c \in Callers :
         /\ caller'[c].number # 0
         /\ caller'[c].number # caller[c].number
         => <<caller'[c].number, "active">> \notin acked]_pubVars

\* As long as no I/O call fails, what a caller has read is not undone by a
\* crash: readers wait while a publication is between visible and durable.
ReadsSurviveCrash ==
    failures = 0 =>
        \A s \in observed : \A t \in Possible :
            t # NoBase /\ EvolutionValid(s.inventory, t.inventory)

\* Once crashes and failures stop, startup recovery completes.
EventuallyOpened == (~opened) ~> opened

\* The abstract register: the selected inventory, and those a crash may
\* leave selected.
Store == INSTANCE InventoryStore WITH
            current <- Select(journal, pages),
            possible <- Possible

\* The journal and page protocol, with its failures and crashes, implements
\* the register: every I/O call is a switch, a hardening, a fall or a stutter.
ImplementsStore == Store!StoreSpec

\* What PersistLocalTransactionInventoryToOpenDevice reported as published is
\* not undone by a crash, even after later publications failed.
AckedSurvivesCrash == Store!AckedSurvivesCrash
=============================================================================
