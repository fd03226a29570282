--------------------- MODULE InventoryPublicationProofs ---------------------
(***************************************************************************)
(* Proofs about the durable publication of the transaction inventory, for  *)
(* any number of callers, pages, transactions, generations, failing I/O    *)
(* calls and crashes.                                                      *)
(***************************************************************************)
EXTENDS InventoryPublication, SequenceTheorems, TLAPS

-----------------------------------------------------------------------------
(***************************************************************************)
(* The inductive invariant.                                                *)
(***************************************************************************)

Empty == Selection(<<>>, 1)

\* What a journal selects, and the highest generation it knows of, when the
\* pages are intact as long as there may be no journal.
Sel(j) ==
    CASE j.phase = "committed"  -> Selection(j.new, j.generation)
      [] j.phase = "publishing" -> Selection(j.old, j.oldGeneration)
      [] OTHER -> Empty

Known(j) == IF j.phase = "absent" THEN 1 ELSE j.generation

\* The selections that a set of journals may leave.
Left(journals) == {Sel(j) : j \in journals}

\* The image that publication p writes to the journal in phase ph.
ImageOf(p, ph) ==
    [ phase |-> ph, generation |-> p.generation,
      oldGeneration |-> p.old.generation,
      old |-> p.old.inventory, new |-> p.new ]

NewPage(p) == Selection(p.new, p.generation)

Steps == {"write_temp", "sync_temp", "rename", "sync_directory", "write_page",
          "sync_device"}
BeforeRename == {"write_temp", "sync_temp", "rename"}
OnPages == {"write_page", "sync_device"}

PubRecords ==
    [ step : Steps, phase : {"publishing", "committed"}, caller : Callers,
      number : 0 .. MaxTransactions, policy : SyncPolicies, old : Selections,
      generation : 2 .. MaxGeneration, new : Inventories, after : Inventories,
      page : Pages ]

PageImages == Selections \cup {Torn}

FilesType(j, journals, pgs, images) ==
    /\ j \in journals
    /\ journals \subseteq JournalImages \cup {Absent}
    /\ pgs \in [Pages -> PageImages]
    /\ images \in [Pages -> SUBSET PageImages]
    /\ \A p \in Pages : pgs[p] \in images[p]

CallerRecords == [base : Selections \cup {NoBase}, number : 0 .. MaxTransactions]

TypeInv ==
    /\ FilesType(journal, maybeJournal, pages, maybePages)
    /\ pub \in PubRecords \cup {Idle}
    /\ caller \in [Callers -> CallerRecords]
    /\ acked \subseteq (1 .. MaxTransactions) \X EntryStates
    /\ observed \subseteq Selections
    /\ failures \in 0 .. MaxFailures /\ crashes \in 0 .. MaxCrashes

\* As long as there may be no journal, or a committed one, all the pages hold
\* what it selects.
FilesOK(journals, images) ==
    \A j \in journals : j.phase \in {"absent", "committed"} =>
        \A p \in Pages : images[p] = {Sel(j)}

\* What publication p is about: a valid evolution of the old selection, and
\* for a BEGIN the activation that is left to be published.
WorkOK(p) ==
    /\ EvolutionValid(p.old.inventory, p.new)
    /\ p.number # 0 => p.number \in 1 .. Len(p.new)
    /\ p.after # <<>> =>
          /\ EvolutionValid(p.new, p.after)
          /\ p.generation < MaxGeneration
          /\ p.number \in 1 .. Len(p.after)
          /\ p.new[p.number] = "created"

\* How far publication p is, step by step: its temporary file t, the journal
\* and the journals a crash may leave, the pages and their possible images.
TempOK(p, t) ==
    p.step \in {"sync_temp", "rename"} =>
        t = [ phase |-> "written", image |-> ImageOf(p, p.phase),
              synced |-> p.step = "rename" ]

PublishingOK(p, j, journals) ==
    IF p.step \in BeforeRename
    THEN Sel(j) = p.old
    ELSE /\ j = ImageOf(p, "publishing")
         /\ p.step \in OnPages => journals = {j}

CommittedOK(p, j, journals) ==
    IF p.step \in BeforeRename
    THEN j = ImageOf(p, "publishing") /\ journals = {j}
    ELSE /\ p.step = "sync_directory"
         /\ j = ImageOf(p, "committed")
         /\ journals \subseteq {j, ImageOf(p, "publishing")}

JournalOK(p, j, journals) ==
    /\ p.phase = "publishing" => PublishingOK(p, j, journals)
    /\ p.phase = "committed" => CommittedOK(p, j, journals)

PagesOK(p, pgs, images) ==
    /\ p.phase = "publishing" /\ p.step \notin OnPages => p.page = 1
    /\ p.step \in OnPages => \A q \in Pages : q < p.page => pgs[q] = NewPage(p)
    /\ p.step = "sync_device" => pgs[p.page] = NewPage(p)
    /\ p.phase = "committed" => \A q \in Pages : images[q] = {NewPage(p)}

\* Until the committed journal is renamed the generation of p is a new one
\* among the selections seen.
Fresh(p, seen) ==
    p.phase = "publishing" \/ p.step \in BeforeRename =>
        \A s \in seen : s.generation < p.generation

\* Nobody was told about the number of an unfinished BEGIN.
Unreported(p, ack) ==
    p.number # 0 /\ p.new[p.number] \in {"created", "active"} =>
        \A a \in ack : a[1] # p.number

PubInv ==
    pub # Idle =>
        /\ WorkOK(pub)
        /\ TempOK(pub, temp)
        /\ JournalOK(pub, journal, maybeJournal)
        /\ PagesOK(pub, pages, maybePages)
        /\ Fresh(pub, observed \cup Left(maybeJournal))
        /\ Unreported(pub, acked)

\* A generation that was ever selected is known to every journal a crash may
\* leave, so it is not used again.
GenerationsKnown(seen, journals) ==
    \A s \in seen : \A j \in journals : s.generation <= Known(j)

GenerationsUnique(seen) ==
    \A s, t \in seen : s.generation = t.generation => s = t

\* What was read leads to everything a crash may leave.
ReadsOK(read, left) ==
    \A s \in read : \A t \in left : EvolutionValid(s.inventory, t.inventory)

ReadsInv ==
    failures = 0 =>
        /\ pub = Idle => maybeJournal = {journal}
        /\ ReadsOK(observed, Left(maybeJournal))

\* The selection s honours the acknowledgement a.
Honoured(a, s) ==
    /\ a[1] \in 1 .. Len(s.inventory)
    /\ StateMayBecome(a[2], s.inventory[a[1]])

AcksOK(ack, left) == \A a \in ack : \A s \in left : Honoured(a, s)

\* Callers work for numbers that were reported to them.
CallersOK(clr, ack) ==
    \A c \in Callers : clr[c].number # 0 => <<clr[c].number, "active">> \in ack

Inv ==
    /\ TypeInv
    /\ FilesOK(maybeJournal, maybePages)
    /\ PubInv
    /\ GenerationsKnown(observed \cup Left(maybeJournal), maybeJournal)
    /\ GenerationsUnique(observed \cup Left(maybeJournal))
    /\ ReadsInv
    /\ AcksOK(acked, Left(maybeJournal))
    /\ CallersOK(caller, acked)

-----------------------------------------------------------------------------
(***************************************************************************)
(* Inventories and selections.                                             *)
(***************************************************************************)

\* An inventory is a sequence of entry states of bounded length.
LEMMA InventoryShape ==
  ASSUME NEW i \in Inventories
  PROVE  /\ Len(i) \in 0 .. MaxTransactions
         /\ i \in [1 .. Len(i) -> EntryStates]
         /\ i \in Seq(EntryStates)
<1>1. PICK n \in 0 .. MaxTransactions : i \in [1 .. n -> EntryStates]
  BY DEF Inventories
<1>2. n \in Nat
  BY ValueLimits
<1>3. i \in Seq(EntryStates)
  BY <1>1, <1>2, SeqDef
<1>4. Len(i) = n
  BY <1>1, <1>2, <1>3, LenProperties
<1> QED
  BY <1>1, <1>3, <1>4

\* A function of entry states over that many numbers is an inventory, and
\* its length is the number of them.
LEMMA InventoryOf ==
  ASSUME NEW n \in 0 .. MaxTransactions, NEW i \in [1 .. n -> EntryStates]
  PROVE  i \in Inventories /\ Len(i) = n
<1>1. i \in Inventories
  BY DEF Inventories
<1>2. n \in Nat
  BY ValueLimits
<1>3. i \in Seq(EntryStates)
  BY <1>2, SeqDef
<1> QED
  BY <1>1, <1>2, <1>3, LenProperties

LEMMA EmptyInventory == <<>> \in Inventories /\ Empty \in Selections
<1>1. <<>> \in [1 .. 0 -> EntryStates]
  OBVIOUS
<1>2. 0 \in 0 .. MaxTransactions
  BY ValueLimits
<1>3. <<>> \in Inventories
  BY <1>1, <1>2 DEF Inventories
<1> QED
  BY <1>3, ValueLimits DEF Empty, Selection, Selections

LEMMA SelectionFields ==
  ASSUME NEW i \in Inventories, NEW g \in 1 .. MaxGeneration
  PROVE  /\ Selection(i, g) \in Selections
         /\ Selection(i, g).inventory = i
         /\ Selection(i, g).generation = g
  BY DEF Selection, Selections

LEMMA SelectionShape ==
  ASSUME NEW s \in Selections
  PROVE  /\ s.inventory \in Inventories
         /\ s.generation \in 1 .. MaxGeneration
         /\ s.generation \in Nat
         /\ s = Selection(s.inventory, s.generation)
         /\ s # Torn
         /\ s # NoBase
<1>1. s.inventory \in Inventories /\ s.generation \in 1 .. MaxGeneration
  BY DEF Selections
<1>2. s.generation \in Nat /\ s.generation # 0
  BY <1>1, ValueLimits
<1>3. s = Selection(s.inventory, s.generation)
  BY DEF Selections, Selection
<1>4. s # Torn
  BY DEF Selections, Torn
<1>5. s # NoBase
  BY <1>2 DEF NoBase
<1> QED
  BY <1>1, <1>2, <1>3, <1>4, <1>5

LEMMA EvolutionReflexive == \A i : Len(i) \in Nat => EvolutionValid(i, i)
  BY DEF EvolutionValid, StateMayBecome

\* What may follow what may follow a state may follow it.
LEMMA StateMayBecomeTransitive ==
  ASSUME NEW x, NEW y, NEW z, StateMayBecome(x, y), StateMayBecome(y, z)
  PROVE  StateMayBecome(x, z)
  BY DEF StateMayBecome

LEMMA EvolutionTransitive ==
  ASSUME NEW x \in Inventories, NEW y \in Inventories, NEW z \in Inventories,
         EvolutionValid(x, y), EvolutionValid(y, z)
  PROVE  EvolutionValid(x, z)
<1>1. Len(x) \in Nat /\ Len(y) \in Nat /\ Len(z) \in Nat
  BY InventoryShape
<1>2. Len(x) <= Len(y) /\ Len(y) <= Len(z)
  BY DEF EvolutionValid
<1>3. ASSUME NEW n \in 1 .. Len(x) PROVE StateMayBecome(x[n], z[n])
  <2>1. n \in 1 .. Len(y)
    BY <1>1, <1>2
  <2>2. StateMayBecome(x[n], y[n]) /\ StateMayBecome(y[n], z[n])
    BY <2>1 DEF EvolutionValid
  <2> QED
    BY <2>2, StateMayBecomeTransitive
<1> QED
  BY <1>1, <1>2, <1>3 DEF EvolutionValid

\* An inventory that evolves from one that honours an acknowledgement
\* honours it as well.
LEMMA EvolutionHonours ==
  ASSUME NEW s \in Selections, NEW t \in Selections,
         EvolutionValid(s.inventory, t.inventory),
         NEW a, Honoured(a, s)
  PROVE  Honoured(a, t)
<1>1. s.inventory \in Inventories /\ t.inventory \in Inventories
  BY SelectionShape
<1>2. Len(s.inventory) \in Nat /\ Len(t.inventory) \in Nat
  BY <1>1, InventoryShape
<1>3. a[1] \in 1 .. Len(s.inventory) /\ StateMayBecome(a[2], s.inventory[a[1]])
  BY DEF Honoured
<1>4. a[1] \in 1 .. Len(t.inventory)
  BY <1>2, <1>3 DEF EvolutionValid
<1>5. StateMayBecome(s.inventory[a[1]], t.inventory[a[1]])
  BY <1>3 DEF EvolutionValid
<1> QED
  BY <1>3, <1>4, <1>5, StateMayBecomeTransitive DEF Honoured

-----------------------------------------------------------------------------
(***************************************************************************)
(* Journals.                                                               *)
(***************************************************************************)

LEMMA JournalShape ==
  ASSUME NEW j \in JournalImages \cup {Absent}
  PROVE  /\ Sel(j) \in Selections
         /\ Known(j) \in 1 .. MaxGeneration
         /\ j.phase \in {"publishing", "committed", "absent"}
         /\ j # Torn
         /\ j.phase = "absent" <=> j = Absent
<1>1. CASE j = Absent
  BY <1>1, EmptyInventory, ValueLimits DEF Absent, Torn, Sel, Known
<1>2. CASE j \in JournalImages
  <2>1. /\ j.phase \in {"publishing", "committed"}
        /\ j.generation \in 2 .. MaxGeneration
        /\ j.oldGeneration \in 1 .. MaxGeneration
        /\ j.old \in Inventories /\ j.new \in Inventories
    BY <1>2 DEF JournalImages
  <2>2. j.generation \in 1 .. MaxGeneration
    BY <2>1, ValueLimits
  <2>3. Known(j) = j.generation
    BY <2>1 DEF Known
  <2>4. Sel(j) \in {Selection(j.new, j.generation), Selection(j.old, j.oldGeneration)}
    BY <2>1 DEF Sel
  <2> QED
    BY <2>1, <2>2, <2>3, <2>4, SelectionFields DEF Absent, Torn
<1> QED
  BY <1>1, <1>2

\* The images a publication writes to the journal, and what they select.
LEMMA ImageShape ==
  ASSUME NEW p \in PubRecords
  PROVE  /\ ImageOf(p, "publishing") \in JournalImages
         /\ ImageOf(p, "committed") \in JournalImages
         /\ Sel(ImageOf(p, "publishing")) = p.old
         /\ Sel(ImageOf(p, "committed")) = NewPage(p)
         /\ Known(ImageOf(p, "publishing")) = p.generation
         /\ Known(ImageOf(p, "committed")) = p.generation
         /\ NewPage(p) \in Selections
         /\ NewPage(p).inventory = p.new
         /\ NewPage(p).generation = p.generation
         /\ p.generation \in Nat
<1>1. /\ p.old \in Selections /\ p.new \in Inventories
      /\ p.generation \in 2 .. MaxGeneration
  BY DEF PubRecords
<1>2. p.generation \in 1 .. MaxGeneration /\ p.generation \in Nat
  BY <1>1, ValueLimits
<1>3. /\ p.old.inventory \in Inventories
      /\ p.old.generation \in 1 .. MaxGeneration
      /\ p.old = Selection(p.old.inventory, p.old.generation)
  BY <1>1, SelectionShape
<1>4. /\ ImageOf(p, "publishing") \in JournalImages
      /\ ImageOf(p, "committed") \in JournalImages
  BY <1>1, <1>3 DEF ImageOf, JournalImages
<1>5. /\ Sel(ImageOf(p, "publishing")) = p.old
      /\ Sel(ImageOf(p, "committed")) = NewPage(p)
  BY <1>3 DEF ImageOf, Sel, NewPage
<1>6. /\ Known(ImageOf(p, "publishing")) = p.generation
      /\ Known(ImageOf(p, "committed")) = p.generation
  BY DEF ImageOf, Known
<1> QED
  BY <1>1, <1>2, <1>4, <1>5, <1>6, SelectionFields DEF NewPage

LEMMA FirstPage == 1 \in Pages
  BY PublicationConstants DEF Pages

\* On intact files the journal alone decides what is loaded.
LEMMA SelectIsSel ==
  ASSUME NEW j, NEW journals, NEW pgs, NEW images,
         FilesType(j, journals, pgs, images), FilesOK(journals, images),
         NEW k \in journals
  PROVE  Select(k, pgs) = Sel(k)
<1>1. k \in JournalImages \cup {Absent}
  BY DEF FilesType
<1>2. k.phase \in {"publishing", "committed", "absent"}
  BY <1>1, JournalShape
<1>3. CASE k.phase \in {"publishing", "committed"}
  BY <1>3 DEF Select, Sel
<1>4. CASE k.phase = "absent"
  <2>1. Sel(k) = Empty
    BY <1>4 DEF Sel
  <2>2. \A p \in Pages : pgs[p] = Empty
    BY <1>4, <2>1 DEF FilesOK, FilesType
  <2>3. Empty # Torn
    BY EmptyInventory, SelectionShape
  <2>4. ChainReadable(pgs) /\ pgs[1] = Empty
    BY <2>2, <2>3, FirstPage DEF ChainReadable
  <2> QED
    BY <1>4, <2>1, <2>4 DEF Select
<1> QED
  BY <1>2, <1>3, <1>4

LEMMA InvSelects ==
  ASSUME Inv
  PROVE  /\ Select(journal, pages) = Sel(journal)
         /\ Sel(journal) \in Selections
         /\ Sel(journal) \in Left(maybeJournal)
         /\ Left(maybeJournal) \subseteq Selections
         /\ Watermark = Known(journal)
         /\ Possible = Left(maybeJournal)
<1>1. /\ FilesType(journal, maybeJournal, pages, maybePages)
      /\ FilesOK(maybeJournal, maybePages)
  BY DEF Inv, TypeInv
<1>2. journal \in maybeJournal /\ maybeJournal \subseteq JournalImages \cup {Absent}
  BY <1>1 DEF FilesType
<1>3. \A k \in maybeJournal : Select(k, pages) = Sel(k)
  BY <1>1, SelectIsSel
<1>4. \A k \in maybeJournal : Sel(k) \in Selections
  BY <1>2, JournalShape
<1>5. Watermark = Known(journal)
  <2>1. CASE journal.phase = "absent"
    <3>1. Sel(journal).generation = 1
      BY <2>1 DEF Sel, Empty, Selection
    <3> QED
      BY <1>2, <1>3, <2>1, <3>1 DEF Watermark, Known
  <2>2. CASE journal.phase # "absent"
    BY <2>2 DEF Watermark, Known
  <2> QED
    BY <2>1, <2>2
<1> QED
  BY <1>2, <1>3, <1>4, <1>5 DEF Left, Possible

-----------------------------------------------------------------------------
(***************************************************************************)
(* Publications.                                                           *)
(***************************************************************************)

LEMMA PubShape ==
  ASSUME NEW p \in PubRecords
  PROVE  /\ p.step \in Steps /\ p.phase \in {"publishing", "committed"}
         /\ p.caller \in Callers /\ p.number \in 0 .. MaxTransactions
         /\ p.policy \in SyncPolicies /\ p.old \in Selections
         /\ p.generation \in 2 .. MaxGeneration /\ p.new \in Inventories
         /\ p.after \in Inventories /\ p.page \in Pages
         /\ p # Idle
<1>1. p.step # "idle"
  BY DEF PubRecords, Steps
<1>2. p # Idle
  BY <1>1 DEF Idle
<1> QED
  BY <1>2 DEF PubRecords

\* Publications p and q are the same but for the step, the phase and the page.
SameWork(p, q) ==
    /\ q.caller = p.caller /\ q.number = p.number /\ q.policy = p.policy
    /\ q.old = p.old /\ q.generation = p.generation
    /\ q.new = p.new /\ q.after = p.after

LEMMA SameWorkSameImages ==
  ASSUME NEW p, NEW q, SameWork(p, q)
  PROVE  /\ ImageOf(q, "publishing") = ImageOf(p, "publishing")
         /\ ImageOf(q, "committed") = ImageOf(p, "committed")
         /\ NewPage(q) = NewPage(p)
         /\ WorkOK(p) => WorkOK(q)
         /\ \A ack : Unreported(p, ack) => Unreported(q, ack)
<1>1. /\ q.old = p.old /\ q.generation = p.generation /\ q.new = p.new
      /\ q.after = p.after /\ q.number = p.number
  BY DEF SameWork
<1>2. /\ ImageOf(q, "publishing") = ImageOf(p, "publishing")
      /\ ImageOf(q, "committed") = ImageOf(p, "committed")
  BY <1>1 DEF ImageOf
<1>3. NewPage(q) = NewPage(p)
  BY <1>1 DEF NewPage
<1>4. WorkOK(p) => WorkOK(q)
  BY <1>1 DEF WorkOK
<1>5. \A ack : Unreported(p, ack) => Unreported(q, ack)
  BY <1>1 DEF Unreported
<1> QED
  BY <1>2, <1>3, <1>4, <1>5

LEMMA NextStep ==
  ASSUME NEW p \in PubRecords, NEW s \in Steps
  PROVE  /\ [p EXCEPT !.step = s] \in PubRecords
         /\ SameWork(p, [p EXCEPT !.step = s])
         /\ [p EXCEPT !.step = s].step = s
         /\ [p EXCEPT !.step = s].phase = p.phase
         /\ [p EXCEPT !.step = s].page = p.page
<1> DEFINE q == [p EXCEPT !.step = s]
<1>1. q \in PubRecords
  BY DEF PubRecords
<1>2. SameWork(p, q)
  BY DEF PubRecords, SameWork
<1>3. q.step = s /\ q.phase = p.phase /\ q.page = p.page
  BY DEF PubRecords
<1> QED
  BY <1>1, <1>2, <1>3

\* AfterPage goes to the next page, or to the committed journal.
LEMMA AfterPageShape ==
  ASSUME pub \in PubRecords
  PROVE  /\ AfterPage \in PubRecords
         /\ SameWork(pub, AfterPage)
         /\ pub.page < NumPages =>
               /\ AfterPage.step = "write_page"
               /\ AfterPage.phase = pub.phase
               /\ AfterPage.page = pub.page + 1
         /\ ~(pub.page < NumPages) =>
               /\ AfterPage.step = "write_temp"
               /\ AfterPage.phase = "committed"
<1>1. CASE pub.page < NumPages
  <2> DEFINE q == [pub EXCEPT !.step = "write_page", !.page = @ + 1]
  <2>1. AfterPage = q
    BY <1>1 DEF AfterPage
  <2>2. pub.page + 1 \in Pages
    BY <1>1, PubShape, PublicationConstants DEF Pages
  <2>3. q \in PubRecords
    BY <2>2 DEF PubRecords, Steps
  <2>4. SameWork(pub, q)
    BY DEF PubRecords, SameWork
  <2>5. q.step = "write_page" /\ q.phase = pub.phase /\ q.page = pub.page + 1
    BY DEF PubRecords
  <2> QED
    BY <1>1, <2>1, <2>3, <2>4, <2>5
<1>2. CASE ~(pub.page < NumPages)
  <2> DEFINE q == [pub EXCEPT !.step = "write_temp", !.phase = "committed"]
  <2>1. AfterPage = q
    BY <1>2 DEF AfterPage
  <2>2. q \in PubRecords
    BY DEF PubRecords, Steps
  <2>3. SameWork(pub, q)
    BY DEF PubRecords, SameWork
  <2>4. q.step = "write_temp" /\ q.phase = "committed"
    BY DEF PubRecords
  <2> QED
    BY <1>2, <2>1, <2>2, <2>3, <2>4
<1> QED
  BY <1>1, <1>2

LEMMA PublicationShape ==
  ASSUME NEW c \in Callers, NEW number \in 0 .. MaxTransactions,
         NEW policy \in SyncPolicies, NEW old \in Selections,
         NEW generation \in 2 .. MaxGeneration, NEW new \in Inventories,
         NEW after \in Inventories
  PROVE  LET q == Publication(c, number, policy, old, generation, new, after)
         IN  /\ q \in PubRecords
             /\ q.step = "write_temp" /\ q.phase = "publishing"
             /\ q.number = number /\ q.old = old /\ q.generation = generation
             /\ q.new = new /\ q.after = after /\ q.page = 1
  BY FirstPage DEF Publication, PubRecords, Steps

-----------------------------------------------------------------------------
(***************************************************************************)
(* The invariant holds initially and callers preserve it.                  *)
(***************************************************************************)

LEMMA InitInv == Init => Inv
<1> SUFFICES ASSUME Init PROVE Inv
  OBVIOUS
<1>1. Sel(Absent) = Empty /\ Known(Absent) = 1
  BY DEF Sel, Known, Absent
<1>2. Left(maybeJournal) = {Empty}
  BY <1>1 DEF Init, Left
<1>3. FilesType(journal, maybeJournal, pages, maybePages)
  BY EmptyInventory DEF Init, FilesType, PageImages, Empty
<1>4. \A c \in Callers : caller[c].number = 0
  BY DEF Init
<1>5. caller \in [Callers -> CallerRecords]
  BY ValueLimits DEF Init, CallerRecords
<1>6. TypeInv
  BY <1>3, <1>5, PublicationConstants DEF Init, TypeInv
<1>7. FilesOK(maybeJournal, maybePages)
  BY <1>1 DEF Init, FilesOK, Empty
<1>8. observed \cup Left(maybeJournal) = {Empty}
  BY <1>2 DEF Init
<1>9. Empty.generation = 1
  BY DEF Empty, Selection
<1>10. GenerationsKnown(observed \cup Left(maybeJournal), maybeJournal)
  BY <1>1, <1>8, <1>9 DEF Init, GenerationsKnown
<1>11. GenerationsUnique(observed \cup Left(maybeJournal))
  BY <1>8 DEF GenerationsUnique
<1>12. ReadsInv /\ PubInv
  BY DEF Init, ReadsInv, ReadsOK, PubInv
<1>13. AcksOK(acked, Left(maybeJournal)) /\ CallersOK(caller, acked)
  BY <1>4 DEF Init, AcksOK, CallersOK
<1> QED
  BY <1>6, <1>7, <1>10, <1>11, <1>12, <1>13 DEF Inv

\* A step of a caller on an idle device that only changes what callers hold
\* and may read the selected inventory.
LEMMA IdleStep ==
  ASSUME Inv, pub = Idle,
         caller' \in [Callers -> CallerRecords], CallersOK(caller', acked),
         observed' = observed \/ observed' = observed \cup {Sel(journal)},
         UNCHANGED <<disk, pub, acked, failures, crashes>>
  PROVE  Inv'
<1>1. /\ Sel(journal) \in Selections
      /\ Sel(journal) \in Left(maybeJournal)
  BY InvSelects
<1>2. /\ journal' = journal /\ maybeJournal' = maybeJournal
      /\ pages' = pages /\ maybePages' = maybePages
      /\ pub' = pub /\ acked' = acked /\ failures' = failures /\ crashes' = crashes
  BY DEF disk
<1>3. observed' \cup Left(maybeJournal') = observed \cup Left(maybeJournal)
  BY <1>1, <1>2
<1>4. TypeInv'
  BY <1>1, <1>2 DEF Inv, TypeInv
<1>5. PubInv'
  BY <1>2 DEF PubInv
<1>6. ReadsInv'
  <2> SUFFICES ASSUME failures = 0
               PROVE  /\ maybeJournal = {journal}
                      /\ ReadsOK(observed', Left(maybeJournal))
    BY <1>2 DEF ReadsInv
  <2>1. maybeJournal = {journal} /\ ReadsOK(observed, Left(maybeJournal))
    BY DEF Inv, ReadsInv
  <2>2. Left(maybeJournal) = {Sel(journal)}
    BY <2>1 DEF Left
  <2>3. EvolutionValid(Sel(journal).inventory, Sel(journal).inventory)
    BY <1>1, SelectionShape, InventoryShape, EvolutionReflexive
  <2> QED
    BY <2>1, <2>2, <2>3 DEF ReadsOK
<1> QED
  BY <1>2, <1>3, <1>4, <1>5, <1>6 DEF Inv

LEMMA CallerBase ==
  ASSUME NEW clr \in [Callers -> CallerRecords], NEW c \in Callers,
         NEW b \in Selections \cup {NoBase}
  PROVE  /\ [clr EXCEPT ![c].base = b] \in [Callers -> CallerRecords]
         /\ \A d \in Callers : [clr EXCEPT ![c].base = b][d].number = clr[d].number
  BY DEF CallerRecords

LEMMA CallerSet ==
  ASSUME NEW clr \in [Callers -> CallerRecords], NEW c \in Callers,
         NEW n \in 0 .. MaxTransactions
  PROVE  LET new == [clr EXCEPT ![c] = [base |-> NoBase, number |-> n]]
         IN  /\ new \in [Callers -> CallerRecords]
             /\ \A d \in Callers : new[d].number = IF d = c THEN n ELSE clr[d].number
  BY DEF CallerRecords

LEMMA LoadInv == ASSUME Inv, NEW c \in Callers, Load(c) PROVE Inv'
<1>1. Select(journal, pages) = Sel(journal) /\ Sel(journal) \in Selections
  BY InvSelects
<1>2. caller \in [Callers -> CallerRecords] /\ CallersOK(caller, acked)
  BY DEF Inv, TypeInv
<1>3. caller' = [caller EXCEPT ![c].base = Sel(journal)]
  BY <1>1 DEF Load
<1>4. caller' \in [Callers -> CallerRecords] /\ CallersOK(caller', acked)
  BY <1>1, <1>2, <1>3, CallerBase DEF CallersOK
<1> QED
  BY <1>1, <1>4, IdleStep DEF Load

\* A step that only changes what callers hold.
LEMMA CallersOnly ==
  ASSUME Inv, caller' \in [Callers -> CallerRecords], CallersOK(caller', acked),
         UNCHANGED <<disk, pub, acked, observed, failures, crashes>>
  PROVE  Inv'
<1>1. /\ journal' = journal /\ maybeJournal' = maybeJournal /\ temp' = temp
      /\ pages' = pages /\ maybePages' = maybePages /\ observed' = observed
      /\ pub' = pub /\ acked' = acked /\ failures' = failures /\ crashes' = crashes
  BY DEF disk
<1>2. TypeInv'
  BY <1>1 DEF Inv, TypeInv
<1>3. PubInv'
  BY <1>1 DEF Inv, PubInv
<1>4. ReadsInv'
  BY <1>1 DEF Inv, ReadsInv
<1> QED
  BY <1>1, <1>2, <1>3, <1>4 DEF Inv

LEMMA DropBaseInv ==
  ASSUME Inv, NEW c \in Callers,
         caller' = [caller EXCEPT ![c].base = NoBase],
         UNCHANGED <<disk, pub, acked, observed, failures, crashes>>
  PROVE  Inv'
<1>1. caller \in [Callers -> CallerRecords] /\ CallersOK(caller, acked)
  BY DEF Inv, TypeInv
<1>2. caller' \in [Callers -> CallerRecords] /\ CallersOK(caller', acked)
  BY <1>1, CallerBase DEF CallersOK
<1> QED
  BY <1>2, CallersOnly

LEMMA ObserveFinishedInv == ASSUME Inv, NEW c \in Callers, ObserveFinished(c) PROVE Inv'
<1>1. caller \in [Callers -> CallerRecords] /\ CallersOK(caller, acked)
  BY DEF Inv, TypeInv
<1>2. caller' = [caller EXCEPT ![c] = [base |-> NoBase, number |-> 0]]
  BY DEF ObserveFinished
<1>3. 0 \in 0 .. MaxTransactions
  BY ValueLimits
<1>4. caller' \in [Callers -> CallerRecords] /\ CallersOK(caller', acked)
  BY <1>1, <1>2, <1>3, CallerSet DEF CallersOK
<1> QED
  BY <1>4, CallersOnly DEF ObserveFinished

-----------------------------------------------------------------------------
(***************************************************************************)
(* The start of a publication.                                             *)
(***************************************************************************)

\* What Submit has to be called with: an inventory, the number the caller
\* works for, which is reported or beyond the selected inventory when its
\* entry is unfinished.
Submittable(cur, number, new) ==
    /\ new \in Inventories
    /\ number # 0 => number \in 1 .. Len(new)
    /\ number # 0 /\ new[number] \in {"created", "active"} =>
          number \notin 1 .. Len(cur.inventory)
    /\ NewlyActive(cur.inventory, new) # {} =>
          number \in NewlyActive(cur.inventory, new)

\* The starting publication of a BEGIN is an evolution of the selected
\* inventory and leads to the activation.
LEMMA StartingShape ==
  ASSUME NEW old \in Inventories, NEW new \in Inventories, EvolutionValid(old, new)
  PROVE  /\ Starting(old, new) \in Inventories
         /\ Len(Starting(old, new)) = Len(new)
         /\ EvolutionValid(old, Starting(old, new))
         /\ EvolutionValid(Starting(old, new), new)
         /\ \A n \in NewlyActive(old, new) : Starting(old, new)[n] = "created"
<1> DEFINE st == Starting(old, new)
<1>1. Len(new) \in 0 .. MaxTransactions /\ new \in [1 .. Len(new) -> EntryStates]
  BY InventoryShape
<1>2. Len(old) \in Nat /\ Len(new) \in Nat
  BY InventoryShape, ValueLimits
<1>3. st \in [1 .. Len(new) -> EntryStates]
  BY <1>1 DEF Starting, EntryStates
<1>4. st \in Inventories /\ Len(st) = Len(new)
  <2> HIDE DEF st
  <2> QED
    BY <1>1, <1>3, InventoryOf
<1>5. \A n \in 1 .. Len(new) : st[n] = IF n \in NewlyActive(old, new) THEN "created" ELSE new[n]
  BY DEF Starting
<1>6. Len(old) <= Len(new) /\ \A n \in 1 .. Len(old) : StateMayBecome(old[n], new[n])
  BY DEF EvolutionValid
<1>7. \A n \in 1 .. Len(old) : n \notin NewlyActive(old, new) /\ n \in 1 .. Len(new)
  BY <1>2, <1>6 DEF NewlyActive
<1>8. \A n \in NewlyActive(old, new) : n \in 1 .. Len(new)
  BY <1>2 DEF NewlyActive
<1> HIDE DEF st
<1>9. EvolutionValid(old, st)
  BY <1>4, <1>5, <1>6, <1>7 DEF EvolutionValid
<1>10. EvolutionValid(st, new)
  BY <1>2, <1>4, <1>5 DEF EvolutionValid, StateMayBecome
<1>11. \A n \in NewlyActive(old, new) : st[n] = "created"
  BY <1>5, <1>8
<1> QED
  BY <1>4, <1>9, <1>10, <1>11 DEF st

LEMMA StartInv ==
  ASSUME Inv, pub = Idle,
         pub' \in PubRecords, pub'.step = "write_temp", pub'.phase = "publishing",
         pub'.old = Sel(journal), pub'.generation = Known(journal) + 1,
         pub'.page = 1, WorkOK(pub'), Unreported(pub', acked),
         UNCHANGED <<disk, caller, acked, observed, failures, crashes>>
  PROVE  Inv'
<1>1. /\ journal' = journal /\ maybeJournal' = maybeJournal /\ temp' = temp
      /\ pages' = pages /\ maybePages' = maybePages /\ observed' = observed
      /\ caller' = caller /\ acked' = acked /\ failures' = failures
      /\ crashes' = crashes
  BY DEF disk
<1>2. pub' # Idle
  BY PubShape
<1>3. TypeInv'
  BY <1>1 DEF Inv, TypeInv
<1>4. journal \in maybeJournal /\ journal \in JournalImages \cup {Absent}
  BY DEF Inv, TypeInv, FilesType
<1>5. Known(journal) \in Nat
  BY <1>4, JournalShape, ValueLimits
<1>6. observed \cup Left(maybeJournal) \subseteq Selections
  BY InvSelects DEF Inv, TypeInv
<1>7. \A s \in observed \cup Left(maybeJournal) : s.generation < Known(journal) + 1
  BY <1>4, <1>5, <1>6, SelectionShape DEF Inv, GenerationsKnown
<1>8. Fresh(pub', observed \cup Left(maybeJournal))
  BY <1>7 DEF Fresh
<1>9. TempOK(pub', temp) /\ PagesOK(pub', pages, maybePages)
  BY DEF TempOK, PagesOK, OnPages
<1>10. JournalOK(pub', journal, maybeJournal)
  BY DEF JournalOK, PublishingOK, BeforeRename
<1>11. PubInv'
  BY <1>1, <1>8, <1>9, <1>10 DEF PubInv
<1>12. ReadsInv'
  BY <1>1, <1>2 DEF Inv, ReadsInv
<1> QED
  BY <1>1, <1>3, <1>11, <1>12 DEF Inv

LEMMA SubmitInv ==
  ASSUME Inv, NEW c \in Callers, NEW number \in 0 .. MaxTransactions, NEW new,
         NEW policy \in SyncPolicies, Submit(c, number, new, policy),
         Submittable(Sel(journal), number, new)
  PROVE  Inv'
<1> DEFINE cur == Sel(journal)
           begins == NewlyActive(cur.inventory, new) # {}
           first == IF begins THEN Starting(cur.inventory, new) ELSE new
           after == IF begins THEN new ELSE <<>>
           generation == Known(journal) + 1
<1>1. /\ Select(journal, pages) = cur /\ cur \in Selections
      /\ cur \in Left(maybeJournal) /\ Watermark = Known(journal)
  BY InvSelects
<1>2. /\ pub = Idle
      /\ GenerationsLeft(begins)
      /\ EvolutionValid(cur.inventory, new)
      /\ pub' = Publication(c, number, policy, cur, generation, first, after)
      /\ UNCHANGED <<disk, caller, opened, acked, observed, failures, crashes>>
  BY <1>1 DEF Submit
<1>3. new \in Inventories /\ cur.inventory \in Inventories
  BY <1>1, SelectionShape DEF Submittable
<1>4. /\ Starting(cur.inventory, new) \in Inventories
      /\ Len(Starting(cur.inventory, new)) = Len(new)
      /\ EvolutionValid(cur.inventory, Starting(cur.inventory, new))
      /\ EvolutionValid(Starting(cur.inventory, new), new)
      /\ \A n \in NewlyActive(cur.inventory, new) : Starting(cur.inventory, new)[n] = "created"
  BY <1>2, <1>3, StartingShape
<1>5. Known(journal) \in 1 .. MaxGeneration
  BY JournalShape DEF Inv, TypeInv, FilesType
<1>6. generation \in 2 .. MaxGeneration /\ (begins => generation < MaxGeneration)
  BY <1>1, <1>2, <1>5, ValueLimits DEF GenerationsLeft
<1>7. first \in Inventories /\ after \in Inventories
  BY <1>3, <1>4, EmptyInventory
<1>8. EvolutionValid(cur.inventory, first) /\ Len(first) = Len(new)
  BY <1>2, <1>4
<1>9. /\ pub' \in PubRecords
      /\ pub'.step = "write_temp" /\ pub'.phase = "publishing"
      /\ pub'.number = number /\ pub'.old = cur /\ pub'.generation = generation
      /\ pub'.new = first /\ pub'.after = after /\ pub'.page = 1
  <2> HIDE DEF cur, begins, first, after, generation
  <2> QED
    BY <1>1, <1>2, <1>6, <1>7, PublicationShape
<1>10. /\ number # 0 => number \in 1 .. Len(new)
       /\ begins => number \in NewlyActive(cur.inventory, new)
       /\ number # 0 /\ new[number] \in {"created", "active"} =>
             number \notin 1 .. Len(cur.inventory)
  BY DEF Submittable
<1>11. begins => number \in 1 .. Len(new) /\ number \notin 1 .. Len(cur.inventory)
  <2>1. Len(cur.inventory) \in Nat /\ Len(new) \in Nat
    BY <1>3, InventoryShape, ValueLimits
  <2> QED
    BY <1>10, <2>1 DEF NewlyActive
<1>12. number # 0 /\ first[number] \in {"created", "active"} =>
          number \notin 1 .. Len(cur.inventory)
  BY <1>10, <1>11
<1>13. WorkOK(pub')
  <2>1. after # <<>> => begins
    OBVIOUS
  <2>2. begins => EvolutionValid(first, after) /\ number \in 1 .. Len(after) /\ first[number] = "created"
    BY <1>4, <1>10, <1>11
  <2> HIDE DEF cur, begins, first, after, generation
  <2> QED
    BY <1>6, <1>8, <1>9, <1>10, <2>1, <2>2 DEF WorkOK
<1>14. Unreported(pub', acked)
  <2>1. \A a \in acked : Honoured(a, cur)
    BY <1>1 DEF Inv, AcksOK
  <2> HIDE DEF cur, begins, first, after, generation
  <2> QED
    BY <1>9, <1>12, <2>1 DEF Unreported, Honoured
<1> QED
  BY <1>2, <1>9, <1>13, <1>14, StartInv

\* A BEGIN appends an active entry to the selected inventory.
LEMMA SubmitBeginInv ==
  ASSUME Inv, NEW c \in Callers, NEW policy \in SyncPolicies, SubmitBegin(c, policy)
  PROVE  Inv'
<1> DEFINE inv == caller[c].base.inventory
           new == Append(inv, "active")
           number == Len(inv) + 1
<1>1. /\ Select(journal, pages) = Sel(journal) /\ Sel(journal) \in Selections
  BY InvSelects
<1>2. /\ caller[c].base = Sel(journal)
      /\ Len(inv) < MaxTransactions
      /\ Submit(c, number, new, policy)
  BY <1>1 DEF SubmitBegin, Submit, ExactBase
<1>3. inv \in Inventories
  BY <1>1, <1>2, SelectionShape
<1>4. inv \in Seq(EntryStates) /\ Len(inv) \in Nat
  BY <1>3, InventoryShape, ValueLimits
<1>5. "active" \in EntryStates
  BY DEF EntryStates
<1> HIDE DEF inv
<1>6. /\ new \in Seq(EntryStates)
      /\ Len(new) = Len(inv) + 1
      /\ new[Len(inv) + 1] = "active"
  BY <1>4, <1>5
<1>7. new \in [1 .. Len(inv) + 1 -> EntryStates]
  BY <1>6, LenProperties
<1>8. Len(inv) + 1 \in 0 .. MaxTransactions
  BY <1>2, <1>4, ValueLimits
<1>9. new \in Inventories
  <2> HIDE DEF new
  <2> QED
    BY <1>7, <1>8, InventoryOf
<1>10. number \in NewlyActive(inv, new)
  BY <1>4, <1>6 DEF NewlyActive
<1>11. number \in 1 .. Len(new) /\ number \notin 1 .. Len(inv)
  BY <1>4, <1>6
<1>12. Submittable(Sel(journal), number, new)
  <2>1. Sel(journal).inventory = inv
    BY <1>2 DEF inv
  <2> HIDE DEF new, number
  <2> QED
    BY <1>9, <1>10, <1>11, <2>1 DEF Submittable
<1> HIDE DEF new, number
<1>13. number \in 0 .. MaxTransactions
  BY <1>8 DEF number
<1> QED
  BY <1>2, <1>12, <1>13, SubmitInv

\* A caller's number is in the inventory it compares and swaps on.
LEMMA SubmitFinishInv ==
  ASSUME Inv, NEW c \in Callers, NEW policy \in SyncPolicies,
         NEW outcome \in {"committed", "rolled_back"},
         SubmitFinish(c, outcome, policy)
  PROVE  Inv'
<1> DEFINE inv == caller[c].base.inventory
           number == caller[c].number
           new == [inv EXCEPT ![number] = outcome]
<1>1. /\ Select(journal, pages) = Sel(journal) /\ Sel(journal) \in Selections
      /\ Sel(journal) \in Left(maybeJournal)
  BY InvSelects
<1>2. /\ caller[c].base = Sel(journal)
      /\ number # 0
      /\ Submit(c, number, new, policy)
  BY <1>1 DEF SubmitFinish, Submit, ExactBase
<1>3. inv \in Inventories
  BY <1>1, <1>2, SelectionShape
<1>4. <<number, "active">> \in acked
  BY <1>2 DEF Inv, CallersOK
<1>5. Honoured(<<number, "active">>, Sel(journal))
  BY <1>1, <1>4 DEF Inv, AcksOK
<1>6. number \in 1 .. Len(inv)
  BY <1>2, <1>5 DEF Honoured
<1>7. number \in 0 .. MaxTransactions
  BY DEF Inv, TypeInv, CallerRecords
<1>8. Sel(journal).inventory = inv
  BY <1>2
<1> HIDE DEF inv, number
<1>9. inv \in [1 .. Len(inv) -> EntryStates] /\ Len(inv) \in 0 .. MaxTransactions
  BY <1>3, InventoryShape
<1>10. new \in [1 .. Len(inv) -> EntryStates] /\ new[number] = outcome
  BY <1>6, <1>9 DEF EntryStates
<1>11. new \in Inventories /\ Len(new) = Len(inv)
  <2> HIDE DEF new
  <2> QED
    BY <1>9, <1>10, InventoryOf
<1>12. NewlyActive(inv, new) = {}
  <2> HIDE DEF new
  <2> QED
    BY <1>9, <1>11, ValueLimits DEF NewlyActive
<1>13. Submittable(Sel(journal), number, new)
  <2> HIDE DEF new
  <2> QED
    BY <1>6, <1>8, <1>10, <1>11, <1>12 DEF Submittable
<1> HIDE DEF new
<1> QED
  BY <1>2, <1>7, <1>13, SubmitInv

LEMMA SubmitRecoveryInv ==
  ASSUME Inv, NEW c \in Callers, NEW policy \in SyncPolicies,
         SubmitRecovery(c, policy)
  PROVE  Inv'
<1> DEFINE inv == caller[c].base.inventory
           new == Recovered(inv)
<1>1. /\ Select(journal, pages) = Sel(journal) /\ Sel(journal) \in Selections
  BY InvSelects
<1>2. caller[c].base = Sel(journal) /\ Submit(c, 0, new, policy)
  BY <1>1 DEF SubmitRecovery, Submit, ExactBase
<1>3. inv \in Inventories
  BY <1>1, <1>2, SelectionShape
<1>4. Sel(journal).inventory = inv
  BY <1>2
<1> HIDE DEF inv
<1>5. inv \in [1 .. Len(inv) -> EntryStates] /\ Len(inv) \in 0 .. MaxTransactions
  BY <1>3, InventoryShape
<1>6. new \in [1 .. Len(inv) -> EntryStates]
  BY <1>5 DEF Recovered, EntryStates
<1> HIDE DEF new
<1>7. new \in Inventories /\ Len(new) = Len(inv)
  BY <1>5, <1>6, InventoryOf
<1>8. NewlyActive(inv, new) = {}
  BY <1>5, <1>7, ValueLimits DEF NewlyActive
<1>9. Submittable(Sel(journal), 0, new)
  BY <1>4, <1>7, <1>8 DEF Submittable
<1>10. 0 \in 0 .. MaxTransactions
  BY ValueLimits
<1> QED
  BY <1>2, <1>9, <1>10, SubmitInv

LEMMA CallerInv ==
  ASSUME Inv, NEW c \in Callers, OpenStep(c) \/ CallerStep(c)
  PROVE  Inv'
<1>1. CASE Load(c)
  BY <1>1, LoadInv
<1>2. CASE RefuseStale(c)
  BY <1>2, DropBaseInv DEF RefuseStale
<1>3. CASE OpenWithoutRecovery(c)
  BY <1>3, DropBaseInv DEF OpenWithoutRecovery
<1>4. CASE ObserveFinished(c)
  BY <1>4, ObserveFinishedInv
<1>5. CASE \E policy \in SyncPolicies : SubmitRecovery(c, policy)
  BY <1>5, SubmitRecoveryInv
<1>6. CASE \E policy \in SyncPolicies : SubmitBegin(c, policy)
  BY <1>6, SubmitBeginInv
<1>7. CASE \E policy \in SyncPolicies :
             \E outcome \in {"committed", "rolled_back"} : SubmitFinish(c, outcome, policy)
  BY <1>7, SubmitFinishInv
<1> QED
  BY <1>1, <1>2, <1>3, <1>4, <1>5, <1>6, <1>7 DEF OpenStep, CallerStep

-----------------------------------------------------------------------------
(***************************************************************************)
(* The steps of a publication preserve the invariant.                      *)
(***************************************************************************)

LEMMA Publishing ==
  ASSUME Inv, pub # Idle
  PROVE  /\ pub \in PubRecords
         /\ FilesType(journal, maybeJournal, pages, maybePages)
         /\ FilesOK(maybeJournal, maybePages)
         /\ WorkOK(pub) /\ TempOK(pub, temp)
         /\ JournalOK(pub, journal, maybeJournal)
         /\ PagesOK(pub, pages, maybePages)
         /\ Fresh(pub, observed \cup Left(maybeJournal))
         /\ Unreported(pub, acked)
  BY DEF Inv, TypeInv, PubInv

LEMMA NotIdle == \A s \in Steps : pub.step = s => pub # Idle
  BY DEF Idle, Steps

\* What is left of the invariant when a publication only moves on.
LEMMA WorkGoesOn ==
  ASSUME Inv, pub # Idle, pub' \in PubRecords, SameWork(pub, pub'),
         FilesType(journal', maybeJournal', pages', maybePages'),
         FilesOK(maybeJournal', maybePages'),
         TempOK(pub', temp'), JournalOK(pub', journal', maybeJournal'),
         PagesOK(pub', pages', maybePages'),
         Fresh(pub', observed \cup Left(maybeJournal')),
         GenerationsKnown(observed \cup Left(maybeJournal'), maybeJournal'),
         GenerationsUnique(observed \cup Left(maybeJournal')),
         failures = 0 => ReadsOK(observed, Left(maybeJournal')),
         AcksOK(acked, Left(maybeJournal')),
         UNCHANGED <<caller, acked, observed, failures, crashes>>
  PROVE  Inv'
<1>1. WorkOK(pub') /\ Unreported(pub', acked)
  BY Publishing, SameWorkSameImages
<1>2. pub' # Idle
  BY PubShape
<1>3. TypeInv'
  BY DEF Inv, TypeInv
<1>4. PubInv'
  BY <1>1 DEF PubInv
<1>5. ReadsInv'
  BY <1>2 DEF ReadsInv
<1> QED
  BY <1>3, <1>4, <1>5 DEF Inv

\* Fewer journals that a crash may leave break nothing.
LEMMA Shrink ==
  ASSUME Inv, NEW journals, journals \subseteq maybeJournal
  PROVE  /\ Left(journals) \subseteq Left(maybeJournal)
         /\ FilesOK(journals, maybePages)
         /\ GenerationsKnown(observed \cup Left(journals), journals)
         /\ GenerationsUnique(observed \cup Left(journals))
         /\ failures = 0 => ReadsOK(observed, Left(journals))
         /\ AcksOK(acked, Left(journals))
<1>1. Left(journals) \subseteq Left(maybeJournal)
  BY DEF Left
<1> QED
  BY <1>1 DEF Inv, ReadsInv, FilesOK, GenerationsKnown, GenerationsUnique, ReadsOK, AcksOK

LEMMA FreshShrinks ==
  ASSUME NEW p, NEW seen, NEW fewer, Fresh(p, seen), fewer \subseteq seen
  PROVE  Fresh(p, fewer)
  BY DEF Fresh

\* A directory sync leaves one journal: the visible one, which is not torn.
LEMMA SyncedDirectory ==
  ASSUME Inv, DirectorySynced
  PROVE  /\ maybeJournal' = {journal}
         /\ {journal} \subseteq maybeJournal
         /\ Left({journal}) = {Sel(journal)}
         /\ Left({journal}) \subseteq Left(maybeJournal)
<1>1. /\ journal \in maybeJournal
      /\ \A j \in maybeJournal : j # Torn
  BY JournalShape DEF Inv, TypeInv, FilesType
<1>2. maybeJournal' = {journal}
  BY <1>1 DEF DirectorySynced
<1>3. Left({journal}) = {Sel(journal)}
  BY DEF Left
<1> QED
  BY <1>1, <1>2, <1>3, InvSelects

LEMMA FilesShrink ==
  ASSUME NEW j, NEW journals, NEW pgs, NEW images,
         FilesType(j, journals, pgs, images)
  PROVE  FilesType(j, {j}, pgs, images)
  BY DEF FilesType

LEMMA RemoveStaleTempInv == ASSUME Inv, RemoveStaleTemp PROVE Inv'
<1>1. /\ pub.step = "write_temp" /\ DirectorySynced
      /\ UNCHANGED <<journal, pages, maybePages, pub, caller, acked, observed,
                     failures, crashes>>
  BY DEF RemoveStaleTemp
<1>2. pub # Idle
  BY <1>1, NotIdle DEF Steps
<1>3. /\ maybeJournal' = {journal} /\ {journal} \subseteq maybeJournal
      /\ Left({journal}) \subseteq Left(maybeJournal)
  BY <1>1, SyncedDirectory
<1>4. SameWork(pub, pub')
  BY <1>1 DEF SameWork
<1>5. TempOK(pub', temp')
  BY <1>1 DEF TempOK
<1>6. JournalOK(pub', journal', maybeJournal')
  BY <1>1, <1>2, <1>3, Publishing
     DEF JournalOK, PublishingOK, CommittedOK, BeforeRename
<1>7. Fresh(pub', observed \cup Left(maybeJournal'))
  <2>1. observed \cup Left({journal}) \subseteq observed \cup Left(maybeJournal)
    BY <1>3
  <2>2. Fresh(pub, observed \cup Left(maybeJournal))
    BY <1>2, Publishing
  <2> QED
    BY <1>1, <1>3, <2>1, <2>2, FreshShrinks
<1>8. FilesType(journal', maybeJournal', pages', maybePages')
  BY <1>1, <1>2, <1>3, Publishing, FilesShrink
<1>9. PagesOK(pub', pages', maybePages') /\ pub' \in PubRecords
  BY <1>1, <1>2, Publishing
<1> QED
  BY <1>1, <1>2, <1>3, <1>4, <1>5, <1>6, <1>7, <1>8, <1>9, Shrink, WorkGoesOn

\* A step that touches the temporary file only.
LEMMA TempStep ==
  ASSUME Inv, pub # Idle, NEW s \in BeforeRename, pub.step \in BeforeRename,
         pub' = [pub EXCEPT !.step = s],
         TempOK(pub', temp'),
         UNCHANGED <<journal, maybeJournal, pages, maybePages, caller, acked,
                     observed, failures, crashes>>
  PROVE  Inv'
<1>1. pub \in PubRecords /\ s \in Steps
  BY Publishing DEF BeforeRename, Steps
<1>2. /\ pub' \in PubRecords /\ SameWork(pub, pub')
      /\ pub'.step = s /\ pub'.phase = pub.phase /\ pub'.page = pub.page
  BY <1>1, NextStep
<1>3. /\ ImageOf(pub', "publishing") = ImageOf(pub, "publishing")
      /\ ImageOf(pub', "committed") = ImageOf(pub, "committed")
      /\ NewPage(pub') = NewPage(pub)
  BY <1>2, SameWorkSameImages
<1>4. pub'.old = pub.old /\ pub'.generation = pub.generation
  BY <1>2 DEF SameWork
<1>5. JournalOK(pub', journal, maybeJournal)
  BY <1>2, <1>3, <1>4, Publishing DEF JournalOK, PublishingOK, CommittedOK
<1>6. PagesOK(pub', pages, maybePages)
  BY <1>2, <1>3, Publishing DEF PagesOK, BeforeRename, OnPages
<1>7. Fresh(pub', observed \cup Left(maybeJournal))
  BY <1>2, <1>4, Publishing DEF Fresh
<1> QED
  BY <1>2, <1>5, <1>6, <1>7, Publishing, Shrink, WorkGoesOn

LEMMA WriteTempInv == ASSUME Inv, WriteTemp PROVE Inv'
<1>1. /\ pub.step = "write_temp"
      /\ temp' = [phase |-> "written", image |-> JournalImage, synced |-> FALSE]
      /\ pub' = [pub EXCEPT !.step = "sync_temp"]
  BY DEF WriteTemp
<1>2. pub # Idle /\ pub \in PubRecords
  BY <1>1, NotIdle, Publishing DEF Steps
<1>3. /\ SameWork(pub, pub') /\ pub'.step = "sync_temp" /\ pub'.phase = pub.phase
  BY <1>1, <1>2, NextStep DEF Steps
<1>4. JournalImage = ImageOf(pub', pub'.phase)
  BY <1>3 DEF JournalImage, ImageOf, SameWork
<1>5. TempOK(pub', temp')
  BY <1>1, <1>3, <1>4 DEF TempOK
<1> QED
  BY <1>1, <1>2, <1>5, TempStep DEF WriteTemp, BeforeRename

LEMMA SyncTempInv == ASSUME Inv, SyncTemp PROVE Inv'
<1>1. /\ pub.step = "sync_temp"
      /\ temp' = [temp EXCEPT !.synced = TRUE]
      /\ pub' = [pub EXCEPT !.step = "rename"]
  BY DEF SyncTemp
<1>2. pub # Idle /\ pub \in PubRecords
  BY <1>1, NotIdle, Publishing DEF Steps
<1>3. /\ SameWork(pub, pub') /\ pub'.step = "rename" /\ pub'.phase = pub.phase
  BY <1>1, <1>2, NextStep DEF Steps
<1>4. ImageOf(pub', pub'.phase) = ImageOf(pub, pub.phase)
  BY <1>3 DEF ImageOf, SameWork
<1>5. temp = [phase |-> "written", image |-> ImageOf(pub, pub.phase), synced |-> FALSE]
  BY <1>1, <1>2, Publishing DEF TempOK
<1>6. temp' = [phase |-> "written", image |-> ImageOf(pub, pub.phase), synced |-> TRUE]
  BY <1>1, <1>5
<1>7. TempOK(pub', temp')
  BY <1>3, <1>4, <1>6 DEF TempOK
<1> QED
  BY <1>1, <1>2, <1>7, TempStep DEF SyncTemp, BeforeRename

\* What both renames do: the temporary file, synced, becomes the journal.
LEMMA RenameShape ==
  ASSUME Inv, Rename
  PROVE  /\ pub # Idle /\ pub \in PubRecords /\ pub.step = "rename"
         /\ journal' = ImageOf(pub, pub.phase)
         /\ maybeJournal' = maybeJournal \cup {ImageOf(pub, pub.phase)}
         /\ pub' \in PubRecords /\ SameWork(pub, pub')
         /\ pub'.step = "sync_directory" /\ pub'.phase = pub.phase
         /\ pub'.page = pub.page
         /\ UNCHANGED <<pages, maybePages, caller, acked, observed, failures, crashes>>
<1>1. pub.step = "rename" /\ pub' = [pub EXCEPT !.step = "sync_directory"]
  BY DEF Rename
<1>2. pub # Idle /\ pub \in PubRecords
  BY <1>1, NotIdle, Publishing DEF Steps
<1>3. temp = [phase |-> "written", image |-> ImageOf(pub, pub.phase), synced |-> TRUE]
  BY <1>1, <1>2, Publishing DEF TempOK
<1>4. temp.image = ImageOf(pub, pub.phase) /\ temp.synced = TRUE
  BY <1>3
<1>5. maybeJournal' = maybeJournal \cup {ImageOf(pub, pub.phase)}
  BY <1>4 DEF Rename
<1>6. /\ pub' \in PubRecords /\ SameWork(pub, pub')
      /\ pub'.step = "sync_directory" /\ pub'.phase = pub.phase
      /\ pub'.page = pub.page
  BY <1>1, <1>2, NextStep DEF Steps
<1> QED
  BY <1>1, <1>2, <1>4, <1>5, <1>6 DEF Rename

\* The publishing journal selects what was selected before.
LEMMA RenamePublishingInv == ASSUME Inv, Rename, pub.phase = "publishing" PROVE Inv'
<1> DEFINE image == ImageOf(pub, "publishing")
<1>1. /\ pub # Idle /\ pub \in PubRecords /\ pub.step = "rename"
      /\ journal' = image /\ maybeJournal' = maybeJournal \cup {image}
      /\ pub' \in PubRecords /\ SameWork(pub, pub')
      /\ pub'.step = "sync_directory" /\ pub'.phase = "publishing"
      /\ pub'.page = pub.page
      /\ UNCHANGED <<pages, maybePages, caller, acked, observed, failures, crashes>>
  BY RenameShape
<1>2. /\ image \in JournalImages /\ Sel(image) = pub.old
      /\ Known(image) = pub.generation /\ pub.generation \in Nat
      /\ image.phase = "publishing"
  BY <1>1, ImageShape DEF ImageOf
<1>3. ImageOf(pub', "publishing") = image
  BY <1>1, SameWorkSameImages
<1> HIDE DEF image
<1>4. Sel(journal) = pub.old
  BY <1>1, Publishing DEF JournalOK, PublishingOK, BeforeRename
<1>5. Left(maybeJournal') = Left(maybeJournal)
  <2>1. Sel(image) \in Left(maybeJournal)
    BY <1>2, <1>4, InvSelects
  <2>2. Left(maybeJournal') = Left(maybeJournal) \cup {Sel(image)}
    BY <1>1 DEF Left
  <2> QED
    BY <2>1, <2>2
<1>6. FilesType(journal', maybeJournal', pages', maybePages')
  BY <1>1, <1>2, Publishing DEF FilesType
<1>7. FilesOK(maybeJournal', maybePages')
  BY <1>1, <1>2, Publishing DEF FilesOK
<1>8. TempOK(pub', temp') /\ PagesOK(pub', pages', maybePages')
  BY <1>1, Publishing DEF TempOK, PagesOK, OnPages
<1>9. JournalOK(pub', journal', maybeJournal')
  BY <1>1, <1>3 DEF JournalOK, PublishingOK, BeforeRename, OnPages
<1>10. \A s \in observed \cup Left(maybeJournal) : s.generation < pub.generation
  BY <1>1, Publishing DEF Fresh, BeforeRename
<1>11. Fresh(pub', observed \cup Left(maybeJournal'))
  BY <1>1, <1>5, <1>10 DEF Fresh, SameWork
<1>12. \A s \in observed \cup Left(maybeJournal) : s.generation \in Nat
  BY InvSelects, SelectionShape DEF Inv, TypeInv
<1>13. GenerationsKnown(observed \cup Left(maybeJournal'), maybeJournal')
  BY <1>1, <1>2, <1>5, <1>10, <1>12 DEF Inv, GenerationsKnown
<1> QED
  BY <1>1, <1>5, <1>6, <1>7, <1>8, <1>9, <1>11, <1>13, WorkGoesOn DEF Inv, ReadsInv

\* The committed journal selects the new inventory, under a new generation.
LEMMA RenameCommittedInv == ASSUME Inv, Rename, pub.phase = "committed" PROVE Inv'
<1> DEFINE publishing == ImageOf(pub, "publishing")
           image == ImageOf(pub, "committed")
           left == observed \cup Left(maybeJournal)
           new == NewPage(pub)
<1>1. /\ pub # Idle /\ pub \in PubRecords /\ pub.step = "rename"
      /\ journal' = image /\ maybeJournal' = maybeJournal \cup {image}
      /\ pub' \in PubRecords /\ SameWork(pub, pub')
      /\ pub'.step = "sync_directory" /\ pub'.phase = "committed"
      /\ UNCHANGED <<pages, maybePages, caller, acked, observed, failures, crashes>>
  BY RenameShape
<1>2. /\ image \in JournalImages /\ publishing \in JournalImages
      /\ Sel(image) = new /\ Sel(publishing) = pub.old
      /\ Known(image) = pub.generation /\ Known(publishing) = pub.generation
      /\ new \in Selections /\ new.generation = pub.generation
      /\ new.inventory = pub.new /\ pub.generation \in Nat
  BY <1>1, ImageShape
<1>3. /\ ImageOf(pub', "publishing") = publishing /\ ImageOf(pub', "committed") = image
      /\ NewPage(pub') = new
  BY <1>1, SameWorkSameImages
<1>4. publishing.phase = "publishing" /\ image.phase = "committed"
  BY DEF ImageOf
<1> HIDE DEF image, publishing, new, left
<1>5. journal = publishing /\ maybeJournal = {publishing}
  BY <1>1, Publishing DEF JournalOK, CommittedOK, BeforeRename, publishing
<1>6. \A q \in Pages : maybePages[q] = {new}
  BY <1>1, Publishing DEF PagesOK, new
<1>7. maybeJournal' = {publishing, image}
  BY <1>1, <1>5
<1>8. Left(maybeJournal) = {pub.old} /\ Left(maybeJournal') = {pub.old, new}
  BY <1>2, <1>5, <1>7 DEF Left
<1>9. FilesType(journal', maybeJournal', pages', maybePages')
  BY <1>1, <1>2, Publishing DEF FilesType
<1>10. FilesOK(maybeJournal', maybePages')
  BY <1>1, <1>2, <1>4, <1>6, <1>7 DEF FilesOK
<1>11. TempOK(pub', temp') /\ PagesOK(pub', pages', maybePages')
  BY <1>1, <1>3, <1>6 DEF TempOK, PagesOK, OnPages
<1>12. JournalOK(pub', journal', maybeJournal')
  BY <1>1, <1>3, <1>7 DEF JournalOK, CommittedOK, BeforeRename
<1>13. Fresh(pub', observed \cup Left(maybeJournal'))
  BY <1>1 DEF Fresh, BeforeRename
<1>14. \A s \in left : s.generation < pub.generation
  BY <1>1, Publishing DEF Fresh, BeforeRename, left
<1>15. left \subseteq Selections /\ \A s \in left : s.generation \in Nat
  BY InvSelects, SelectionShape DEF Inv, TypeInv, left
<1>16. observed \cup Left(maybeJournal') = left \cup {new}
  BY <1>8 DEF left
<1>17. GenerationsKnown(observed \cup Left(maybeJournal'), maybeJournal')
  BY <1>2, <1>7, <1>14, <1>15, <1>16 DEF GenerationsKnown
<1>18. GenerationsUnique(observed \cup Left(maybeJournal'))
  BY <1>2, <1>14, <1>15, <1>16 DEF Inv, GenerationsUnique, left
<1>19. EvolutionValid(pub.old.inventory, new.inventory) /\ pub.old \in Selections
  BY <1>1, <1>2, Publishing, PubShape DEF WorkOK
<1>20. ASSUME failures = 0 PROVE ReadsOK(observed, Left(maybeJournal'))
  <2>1. \A s \in observed : EvolutionValid(s.inventory, pub.old.inventory)
    BY <1>8, <1>20 DEF Inv, ReadsInv, ReadsOK
  <2>2. /\ pub.old.inventory \in Inventories /\ new.inventory \in Inventories
        /\ \A s \in observed : s.inventory \in Inventories
    BY <1>2, <1>19, SelectionShape DEF Inv, TypeInv
  <2>3. \A s \in observed : EvolutionValid(s.inventory, new.inventory)
    BY <1>19, <2>1, <2>2, EvolutionTransitive
  <2> QED
    BY <1>8, <2>1, <2>3 DEF ReadsOK
<1>21. AcksOK(acked, Left(maybeJournal'))
  <2>1. \A a \in acked : Honoured(a, pub.old)
    BY <1>8 DEF Inv, AcksOK
  <2>2. \A a \in acked : Honoured(a, new)
    BY <1>2, <1>19, <2>1, EvolutionHonours
  <2> QED
    BY <1>8, <2>1, <2>2 DEF AcksOK
<1> QED
  BY <1>1, <1>9, <1>10, <1>11, <1>12, <1>13, <1>17, <1>18, <1>20, <1>21, WorkGoesOn

LEMMA SyncDirectoryOfPublishingInv == ASSUME Inv, SyncDirectoryOfPublishing PROVE Inv'
<1>1. /\ pub.step = "sync_directory" /\ pub.phase = "publishing"
      /\ DirectorySynced /\ pub' = [pub EXCEPT !.step = "write_page"]
      /\ UNCHANGED <<journal, pages, maybePages, temp, caller, acked, observed,
                     failures, crashes>>
  BY DEF SyncDirectoryOfPublishing
<1>2. pub # Idle /\ pub \in PubRecords
  BY <1>1, NotIdle, Publishing DEF Steps
<1>3. /\ maybeJournal' = {journal} /\ {journal} \subseteq maybeJournal
      /\ Left({journal}) \subseteq Left(maybeJournal)
  BY <1>1, SyncedDirectory
<1>4. /\ pub' \in PubRecords /\ SameWork(pub, pub')
      /\ pub'.step = "write_page" /\ pub'.phase = "publishing" /\ pub'.page = pub.page
  BY <1>1, <1>2, NextStep DEF Steps
<1>5. /\ ImageOf(pub', "publishing") = ImageOf(pub, "publishing")
      /\ NewPage(pub') = NewPage(pub)
  BY <1>4, SameWorkSameImages
<1>6. journal = ImageOf(pub, "publishing")
  BY <1>1, <1>2, Publishing DEF JournalOK, PublishingOK, BeforeRename
<1>7. JournalOK(pub', journal', maybeJournal')
  BY <1>1, <1>3, <1>4, <1>5, <1>6 DEF JournalOK, PublishingOK, BeforeRename
<1>8. TempOK(pub', temp')
  BY <1>4 DEF TempOK
<1>9. PagesOK(pub', pages', maybePages')
  <2>1. pub.page = 1
    BY <1>1, <1>2, Publishing DEF PagesOK, OnPages
  <2> QED
    BY <1>1, <1>4, <2>1 DEF PagesOK, Pages
<1>10. Fresh(pub', observed \cup Left(maybeJournal'))
  BY <1>1, <1>2, <1>3, <1>4, Publishing DEF Fresh, SameWork
<1>11. FilesType(journal', maybeJournal', pages', maybePages')
  BY <1>1, <1>2, <1>3, Publishing, FilesShrink
<1> QED
  BY <1>1, <1>2, <1>3, <1>4, <1>7, <1>8, <1>9, <1>10, <1>11, Shrink, WorkGoesOn

\* While the pages are written the publishing journal is the only one.
LEMMA OnPagesShape ==
  ASSUME Inv, pub.step \in OnPages
  PROVE  /\ pub # Idle /\ pub \in PubRecords /\ pub.phase = "publishing"
         /\ journal = ImageOf(pub, "publishing") /\ maybeJournal = {journal}
         /\ pub.page \in Pages /\ pub.page \in Nat /\ NumPages \in Nat
         /\ NewPage(pub) \in PageImages
         /\ \A s \in observed \cup Left(maybeJournal) : s.generation < pub.generation
<1>1. pub # Idle /\ pub \in PubRecords
  BY NotIdle, Publishing DEF OnPages, Steps
<1>2. pub.phase = "publishing"
  BY <1>1, PubShape, Publishing DEF JournalOK, CommittedOK, OnPages, BeforeRename
<1>3. journal = ImageOf(pub, "publishing") /\ maybeJournal = {journal}
  BY <1>1, <1>2, Publishing DEF JournalOK, PublishingOK, OnPages, BeforeRename
<1>4. pub.page \in Pages /\ pub.page \in Nat /\ NumPages \in Nat
  BY <1>1, PubShape, PublicationConstants DEF Pages
<1>5. NewPage(pub) \in PageImages
  BY <1>1, ImageShape DEF PageImages
<1>6. \A s \in observed \cup Left(maybeJournal) : s.generation < pub.generation
  BY <1>1, <1>2, Publishing DEF Fresh
<1> QED
  BY <1>1, <1>2, <1>3, <1>4, <1>5, <1>6

\* A step on the pages, to the next page, the device sync or the committed
\* journal.
LEMMA PageStep ==
  ASSUME Inv, pub.step \in OnPages, pub' \in PubRecords, SameWork(pub, pub'),
         \/ pub'.step \in OnPages /\ pub'.phase = "publishing"
         \/ pub'.step = "write_temp" /\ pub'.phase = "committed",
         FilesType(journal, maybeJournal, pages', maybePages'),
         PagesOK(pub', pages', maybePages'),
         UNCHANGED <<journal, maybeJournal, temp, caller, acked, observed,
                     failures, crashes>>
  PROVE  Inv'
<1>1. /\ pub # Idle /\ pub \in PubRecords
      /\ journal = ImageOf(pub, "publishing") /\ maybeJournal = {journal}
      /\ \A s \in observed \cup Left(maybeJournal) : s.generation < pub.generation
  BY OnPagesShape
<1>2. ImageOf(pub', "publishing") = ImageOf(pub, "publishing")
  BY SameWorkSameImages
<1>3. journal.phase = "publishing"
  BY <1>1 DEF ImageOf
<1>4. FilesOK(maybeJournal', maybePages')
  BY <1>1, <1>3 DEF FilesOK
<1>5. TempOK(pub', temp')
  BY DEF TempOK, OnPages
<1>6. JournalOK(pub', journal, maybeJournal)
  BY <1>1, <1>2 DEF JournalOK, PublishingOK, CommittedOK, OnPages, BeforeRename
<1>7. Fresh(pub', observed \cup Left(maybeJournal))
  BY <1>1 DEF Fresh, SameWork
<1> QED
  BY <1>1, <1>4, <1>5, <1>6, <1>7, Shrink, WorkGoesOn

LEMMA WritePageInv == ASSUME Inv, WritePage PROVE Inv'
<1> DEFINE new == NewPage(pub)
<1>1. /\ pub.step = "write_page"
      /\ pages' = [pages EXCEPT ![pub.page] = new]
      /\ maybePages' = [maybePages EXCEPT ![pub.page] = @ \cup {new, Torn}]
      /\ pub' = IF pub.policy = "batched" /\ pub.page < NumPages
                THEN AfterPage ELSE [pub EXCEPT !.step = "sync_device"]
      /\ UNCHANGED <<journal, maybeJournal, temp, caller, acked, observed,
                     failures, crashes>>
  BY DEF WritePage, NewPage
<1>2. /\ pub # Idle /\ pub \in PubRecords /\ pub.phase = "publishing"
      /\ pub.page \in Pages /\ pub.page \in Nat /\ NumPages \in Nat
      /\ NewPage(pub) \in PageImages
  BY <1>1, OnPagesShape DEF OnPages
<1>3. FilesType(journal, maybeJournal, pages, maybePages)
  BY <1>2, Publishing
<1>4. \A q \in Pages : q < pub.page => pages[q] = new
  BY <1>1, <1>2, Publishing DEF PagesOK, OnPages
<1> HIDE DEF new
<1>5. pages' \in [Pages -> PageImages] /\ maybePages' \in [Pages -> SUBSET PageImages]
  BY <1>1, <1>2, <1>3 DEF FilesType, PageImages, new
<1>6. \A q \in Pages : pages'[q] \in maybePages'[q]
  BY <1>1, <1>2, <1>3 DEF FilesType
<1>7. FilesType(journal, maybeJournal, pages', maybePages')
  BY <1>3, <1>5, <1>6 DEF FilesType
<1>8. \A q \in Pages : q <= pub.page => pages'[q] = new
  BY <1>1, <1>2, <1>3, <1>4 DEF FilesType, Pages
<1>9. CASE pub.policy = "batched" /\ pub.page < NumPages
  <2>1. /\ pub' \in PubRecords /\ SameWork(pub, pub') /\ pub'.step = "write_page"
        /\ pub'.phase = "publishing" /\ pub'.page = pub.page + 1
    BY <1>1, <1>2, <1>9, AfterPageShape
  <2>2. NewPage(pub') = new
    BY <2>1, SameWorkSameImages DEF new
  <2>3. \A q \in Pages : q < pub'.page => pages'[q] = NewPage(pub')
    BY <1>2, <1>8, <2>1, <2>2 DEF Pages
  <2>4. PagesOK(pub', pages', maybePages')
    BY <2>1, <2>3 DEF PagesOK, OnPages
  <2> QED
    BY <1>1, <1>7, <2>1, <2>4, PageStep DEF OnPages
<1>10. CASE ~(pub.policy = "batched" /\ pub.page < NumPages)
  <2>1. /\ pub' \in PubRecords /\ SameWork(pub, pub') /\ pub'.step = "sync_device"
        /\ pub'.phase = "publishing" /\ pub'.page = pub.page
    BY <1>1, <1>2, <1>10, NextStep DEF Steps
  <2>2. NewPage(pub') = new
    BY <2>1, SameWorkSameImages DEF new
  <2>3. PagesOK(pub', pages', maybePages')
    BY <1>2, <1>8, <2>1, <2>2 DEF PagesOK, OnPages, Pages
  <2> QED
    BY <1>1, <1>7, <2>1, <2>3, PageStep DEF OnPages
<1> QED
  BY <1>9, <1>10

LEMMA SyncDeviceInv == ASSUME Inv, SyncDevice PROVE Inv'
<1> DEFINE new == NewPage(pub)
<1>1. /\ pub.step = "sync_device"
      /\ maybePages' = [p \in Pages |-> {pages[p]}]
      /\ pub' = AfterPage
      /\ UNCHANGED <<journal, maybeJournal, pages, temp, caller, acked, observed,
                     failures, crashes>>
  BY DEF SyncDevice
<1>2. /\ pub # Idle /\ pub \in PubRecords /\ pub.phase = "publishing"
      /\ pub.page \in Pages /\ pub.page \in Nat /\ NumPages \in Nat
  BY <1>1, OnPagesShape DEF OnPages
<1>3. FilesType(journal, maybeJournal, pages, maybePages)
  BY <1>2, Publishing
<1>4. \A q \in Pages : q <= pub.page => pages[q] = new
  BY <1>1, <1>2, Publishing DEF PagesOK, OnPages, Pages
<1>5. FilesType(journal, maybeJournal, pages', maybePages')
  BY <1>1, <1>3 DEF FilesType
<1>6. pub' \in PubRecords /\ SameWork(pub, pub') /\ NewPage(pub') = new
  BY <1>1, <1>2, AfterPageShape, SameWorkSameImages
<1> HIDE DEF new
<1>7. CASE pub.page < NumPages
  <2>1. pub'.step = "write_page" /\ pub'.phase = "publishing" /\ pub'.page = pub.page + 1
    BY <1>1, <1>2, <1>7, AfterPageShape
  <2>2. \A q \in Pages : q < pub'.page => pages'[q] = NewPage(pub')
    BY <1>1, <1>2, <1>4, <1>6, <2>1 DEF Pages
  <2>3. PagesOK(pub', pages', maybePages')
    BY <2>1, <2>2 DEF PagesOK, OnPages
  <2> QED
    BY <1>1, <1>5, <1>6, <2>1, <2>3, PageStep DEF OnPages
<1>8. CASE ~(pub.page < NumPages)
  <2>1. pub'.step = "write_temp" /\ pub'.phase = "committed"
    BY <1>1, <1>2, <1>8, AfterPageShape
  <2>2. \A q \in Pages : maybePages'[q] = {new}
    BY <1>1, <1>2, <1>4, <1>8 DEF Pages
  <2>3. PagesOK(pub', pages', maybePages')
    BY <1>6, <2>1, <2>2 DEF PagesOK, OnPages
  <2> QED
    BY <1>1, <1>5, <1>6, <2>1, <2>3, PageStep DEF OnPages
<1> QED
  BY <1>7, <1>8

\* The directory sync after the committed rename leaves the new inventory.
LEMMA CommittedShape ==
  ASSUME Inv, pub.step = "sync_directory", pub.phase = "committed", DirectorySynced
  PROVE  /\ pub # Idle /\ pub \in PubRecords
         /\ journal = ImageOf(pub, "committed") /\ Sel(journal) = NewPage(pub)
         /\ Known(journal) = pub.generation
         /\ maybeJournal' = {journal} /\ {journal} \subseteq maybeJournal
         /\ Left({journal}) = {NewPage(pub)}
<1>1. pub # Idle /\ pub \in PubRecords
  BY NotIdle, Publishing DEF Steps
<1>2. journal = ImageOf(pub, "committed")
  BY <1>1, Publishing DEF JournalOK, CommittedOK, BeforeRename
<1>3. Sel(journal) = NewPage(pub) /\ Known(journal) = pub.generation
  BY <1>1, <1>2, ImageShape
<1> QED
  BY <1>1, <1>2, <1>3, SyncedDirectory

LEMMA SyncDirectoryThenActivateInv == ASSUME Inv, SyncDirectoryThenActivate PROVE Inv'
<1>1. /\ pub.step = "sync_directory" /\ pub.phase = "committed" /\ DirectorySynced
      /\ pub.after # <<>>
      /\ pub' = Publication(pub.caller, pub.number, pub.policy, NewPage(pub),
                            pub.generation + 1, pub.after, <<>>)
      /\ UNCHANGED <<journal, pages, maybePages, temp, caller, acked, observed,
                     failures, crashes>>
  BY DEF SyncDirectoryThenActivate, NewPage
<1>2. /\ pub # Idle /\ pub \in PubRecords /\ Sel(journal) = NewPage(pub)
      /\ Known(journal) = pub.generation
      /\ maybeJournal' = {journal} /\ {journal} \subseteq maybeJournal
  BY <1>1, CommittedShape
<1>3. /\ WorkOK(pub) /\ Unreported(pub, acked)
      /\ FilesType(journal, maybeJournal, pages, maybePages)
  BY <1>2, Publishing
<1>4. /\ EvolutionValid(pub.new, pub.after) /\ pub.generation < MaxGeneration
      /\ pub.number \in 1 .. Len(pub.after) /\ pub.new[pub.number] = "created"
  BY <1>1, <1>3 DEF WorkOK
<1>5. pub.generation + 1 \in 2 .. MaxGeneration /\ pub.generation \in Nat
  BY <1>2, <1>4, PubShape, ValueLimits
<1>6. NewPage(pub) \in Selections /\ NewPage(pub).inventory = pub.new
  BY <1>2, ImageShape
<1>7. /\ pub' \in PubRecords /\ pub'.step = "write_temp" /\ pub'.phase = "publishing"
      /\ pub'.number = pub.number /\ pub'.old = NewPage(pub)
      /\ pub'.generation = pub.generation + 1
      /\ pub'.new = pub.after /\ pub'.after = <<>> /\ pub'.page = 1
  BY <1>1, <1>2, <1>5, <1>6, PubShape, EmptyInventory, PublicationShape
<1>8. WorkOK(pub')
  BY <1>4, <1>6, <1>7 DEF WorkOK
<1>9. pub.number # 0
  <2>1. Len(pub.after) \in Nat
    BY <1>2, PubShape, InventoryShape, ValueLimits
  <2> QED
    BY <1>4, <2>1
<1>10. Unreported(pub', acked)
  BY <1>3, <1>4, <1>7, <1>9 DEF Unreported
<1>11. TempOK(pub', temp') /\ PagesOK(pub', pages', maybePages')
  BY <1>7 DEF TempOK, PagesOK, OnPages
<1>12. JournalOK(pub', journal', maybeJournal')
  BY <1>1, <1>2, <1>7 DEF JournalOK, PublishingOK, BeforeRename
<1>13. FilesType(journal', maybeJournal', pages', maybePages')
  BY <1>1, <1>2, <1>3, FilesShrink
<1>14. Fresh(pub', observed \cup Left(maybeJournal'))
  <2>1. GenerationsKnown(observed \cup Left({journal}), {journal})
    BY <1>2, Shrink
  <2>2. \A s \in observed \cup Left({journal}) : s.generation <= pub.generation
    BY <1>2, <2>1 DEF GenerationsKnown
  <2>3. Left({journal}) \subseteq Left(maybeJournal)
    BY <1>2, Shrink
  <2>4. \A s \in observed \cup Left({journal}) : s.generation \in Nat
    BY <2>3, InvSelects, SelectionShape DEF Inv, TypeInv
  <2>5. \A s \in observed \cup Left({journal}) : s.generation < pub.generation + 1
    BY <1>5, <2>2, <2>4
  <2> QED
    BY <1>2, <1>7, <2>5 DEF Fresh
<1>15. TypeInv'
  BY <1>1, <1>7, <1>13 DEF Inv, TypeInv
<1>16. PubInv'
  BY <1>1, <1>8, <1>10, <1>11, <1>12, <1>14 DEF PubInv
<1>17. ReadsInv'
  <2>1. pub' # Idle
    BY <1>7, PubShape
  <2> QED
    BY <1>1, <1>2, <2>1, Shrink DEF ReadsInv
<1> QED
  BY <1>1, <1>2, <1>15, <1>16, <1>17, Shrink DEF Inv

LEMMA ReportInv == ASSUME Inv, SyncDirectoryAndReport PROVE Inv'
<1> DEFINE state == pub.new[pub.number]
<1>1. /\ pub.step = "sync_directory" /\ pub.phase = "committed" /\ DirectorySynced
      /\ pub' = Idle
      /\ pub.number = 0 =>
            /\ acked' = acked
            /\ caller' = [caller EXCEPT ![pub.caller].base = NoBase]
      /\ pub.number # 0 =>
            /\ acked' = acked \cup {<<pub.number, state>>}
            /\ caller' = [caller EXCEPT ![pub.caller] =
                  [base |-> NoBase, number |-> IF state = "active" THEN pub.number ELSE 0]]
      /\ UNCHANGED <<journal, pages, maybePages, temp, observed, failures, crashes>>
  BY DEF SyncDirectoryAndReport, Report
<1>2. /\ pub # Idle /\ pub \in PubRecords
      /\ maybeJournal' = {journal} /\ {journal} \subseteq maybeJournal
      /\ Left({journal}) = {NewPage(pub)}
  BY <1>1, CommittedShape
<1>3. /\ WorkOK(pub) /\ FilesType(journal, maybeJournal, pages, maybePages)
      /\ NewPage(pub).inventory = pub.new
      /\ pub.caller \in Callers /\ pub.number \in 0 .. MaxTransactions
      /\ pub.new \in Inventories
  BY <1>2, Publishing, ImageShape, PubShape
<1>4. pub.number # 0 => pub.number \in 1 .. Len(pub.new) /\ state \in EntryStates
  BY <1>3, InventoryShape DEF WorkOK
<1>5. caller \in [Callers -> CallerRecords] /\ CallersOK(caller, acked)
  BY DEF Inv, TypeInv
<1>6. \A a \in acked : Honoured(a, NewPage(pub))
  BY <1>2, Shrink DEF AcksOK
<1>7. caller' \in [Callers -> CallerRecords] /\ CallersOK(caller', acked')
  <2>1. CASE pub.number = 0
    <3>1. acked' = acked /\ caller' = [caller EXCEPT ![pub.caller].base = NoBase]
      BY <1>1, <2>1
    <3>2. /\ caller' \in [Callers -> CallerRecords]
          /\ \A d \in Callers : caller'[d].number = caller[d].number
      BY <1>3, <1>5, <3>1, CallerBase
    <3> QED
      BY <1>5, <3>1, <3>2 DEF CallersOK
  <2>2. CASE pub.number # 0
    <3> DEFINE n == IF state = "active" THEN pub.number ELSE 0
    <3>1. n \in 0 .. MaxTransactions
      BY <1>3, ValueLimits
    <3>2. caller' = [caller EXCEPT ![pub.caller] = [base |-> NoBase, number |-> n]]
      BY <1>1, <2>2
    <3>3. n # 0 => <<n, "active">> \in acked'
      BY <1>1, <2>2
    <3>4. acked \subseteq acked'
      BY <1>1, <2>2
    <3> HIDE DEF n
    <3>5. /\ caller' \in [Callers -> CallerRecords]
          /\ \A d \in Callers : caller'[d].number = IF d = pub.caller THEN n ELSE caller[d].number
      BY <1>3, <1>5, <3>1, <3>2, CallerSet
    <3> QED
      BY <1>5, <3>3, <3>4, <3>5 DEF CallersOK
  <2> QED
    BY <2>1, <2>2
<1>8. acked' \subseteq (1 .. MaxTransactions) \X EntryStates
  <2>1. pub.number # 0 => pub.number \in 1 .. MaxTransactions
    BY <1>3, ValueLimits
  <2>2. acked \subseteq (1 .. MaxTransactions) \X EntryStates
    BY DEF Inv, TypeInv
  <2> QED
    BY <1>1, <1>4, <2>1, <2>2
<1>9. AcksOK(acked', Left(maybeJournal'))
  <2>1. pub.number # 0 => Honoured(<<pub.number, state>>, NewPage(pub))
    BY <1>3, <1>4 DEF Honoured, StateMayBecome
  <2>2. \A a \in acked' : Honoured(a, NewPage(pub))
    <3> HIDE DEF state
    <3> QED
      BY <1>1, <1>6, <2>1
  <2> QED
    BY <1>2, <2>2 DEF AcksOK
<1>10. FilesType(journal', maybeJournal', pages', maybePages')
  BY <1>1, <1>2, <1>3, FilesShrink
<1>11. TypeInv'
  BY <1>1, <1>7, <1>8, <1>10 DEF Inv, TypeInv
<1>12. PubInv'
  BY <1>1 DEF PubInv
<1>13. ReadsInv'
  BY <1>1, <1>2, Shrink DEF ReadsInv
<1> QED
  BY <1>1, <1>2, <1>7, <1>9, <1>11, <1>12, <1>13, Shrink DEF Inv

LEMMA FailInv == ASSUME Inv, Fail PROVE Inv'
<1>1. /\ pub # Idle /\ pub' = Idle
      /\ failures < MaxFailures /\ failures' = failures + 1
      /\ caller' = [caller EXCEPT ![pub.caller].base = NoBase]
      /\ UNCHANGED <<journal, maybeJournal, acked, observed, crashes>>
  BY DEF Fail
<1>2. /\ pub \in PubRecords /\ FilesType(journal, maybeJournal, pages, maybePages)
      /\ FilesOK(maybeJournal, maybePages) /\ pub.caller \in Callers
  BY <1>1, Publishing, PubShape
<1>3. /\ FilesType(journal', maybeJournal', pages', maybePages')
      /\ FilesOK(maybeJournal', maybePages')
  <2>1. CASE pub.step = "write_page"
    <3> DEFINE new == Selection(pub.new, pub.generation)
    <3>1. /\ journal = ImageOf(pub, "publishing") /\ maybeJournal = {journal}
          /\ pub.page \in Pages /\ new \in PageImages
      BY <2>1, OnPagesShape DEF OnPages, NewPage
    <3>2. /\ pages' = [pages EXCEPT ![pub.page] = Torn]
          /\ maybePages' = [maybePages EXCEPT ![pub.page] = @ \cup {new, Torn}]
      BY <2>1 DEF Fail
    <3> HIDE DEF new
    <3>3. FilesType(journal, maybeJournal, pages', maybePages')
      BY <1>2, <3>1, <3>2 DEF FilesType, PageImages
    <3>4. journal.phase = "publishing"
      BY <3>1 DEF ImageOf
    <3> QED
      BY <1>1, <3>1, <3>3, <3>4 DEF FilesOK
  <2>2. CASE pub.step # "write_page"
    BY <1>1, <1>2, <2>2 DEF Fail
  <2> QED
    BY <2>1, <2>2
<1>4. caller' \in [Callers -> CallerRecords] /\ CallersOK(caller', acked)
  <2>1. caller \in [Callers -> CallerRecords] /\ CallersOK(caller, acked)
    BY DEF Inv, TypeInv
  <2> QED
    BY <1>1, <1>2, <2>1, CallerBase DEF CallersOK
<1>5. failures' \in 0 .. MaxFailures /\ failures' # 0
  BY <1>1, PublicationConstants DEF Inv, TypeInv
<1>6. TypeInv'
  BY <1>1, <1>3, <1>4, <1>5 DEF Inv, TypeInv
<1>7. PubInv' /\ ReadsInv'
  BY <1>1, <1>5 DEF PubInv, ReadsInv
<1> QED
  BY <1>1, <1>3, <1>4, <1>6, <1>7 DEF Inv

\* A crash leaves one of the journals and one image of every page.
LEMMA CrashInv == ASSUME Inv, Crash PROVE Inv'
<1>1. /\ journal' \in maybeJournal /\ maybeJournal' = {journal'}
      /\ pub' = Idle
      /\ caller' = [c \in Callers |-> [base |-> NoBase, number |-> 0]]
      /\ UNCHANGED <<acked, observed, failures>>
      /\ crashes < MaxCrashes /\ crashes' = crashes + 1
  BY DEF Crash
<1>2. /\ pages' \in [Pages -> UNION {maybePages[p] : p \in Pages}]
      /\ \A p \in Pages : pages'[p] \in maybePages[p]
      /\ maybePages' = [p \in Pages |-> {pages'[p]}]
  BY DEF Crash
<1>3. /\ FilesType(journal, maybeJournal, pages, maybePages)
      /\ FilesOK(maybeJournal, maybePages)
  BY DEF Inv, TypeInv
<1>4. FilesType(journal', maybeJournal', pages', maybePages')
  <2>1. \A p \in Pages : pages'[p] \in PageImages
    BY <1>2, <1>3 DEF FilesType
  <2>2. pages' \in [Pages -> PageImages]
    BY <1>2, <2>1
  <2> QED
    BY <1>1, <1>2, <1>3, <2>1, <2>2 DEF FilesType
<1>5. FilesOK(maybeJournal', maybePages')
  BY <1>1, <1>2, <1>3 DEF FilesOK
<1>6. caller' \in [Callers -> CallerRecords] /\ CallersOK(caller', acked)
  BY <1>1, ValueLimits DEF CallerRecords, CallersOK
<1>7. crashes' \in 0 .. MaxCrashes
  BY <1>1, PublicationConstants DEF Inv, TypeInv
<1>8. TypeInv'
  BY <1>1, <1>4, <1>6, <1>7 DEF Inv, TypeInv
<1>9. maybeJournal' \subseteq maybeJournal
  BY <1>1
<1>10. PubInv' /\ ReadsInv'
  BY <1>1, <1>9, Shrink DEF PubInv, ReadsInv
<1> QED
  BY <1>1, <1>5, <1>6, <1>8, <1>9, <1>10, Shrink DEF Inv

LEMMA StutterInv == ASSUME Inv, UNCHANGED pubVars PROVE Inv'
<1>1. /\ UNCHANGED <<journal, maybeJournal, pages, maybePages, temp, pub, caller,
                     acked, observed, failures, crashes>>
  BY DEF pubVars
<1>2. TypeInv' /\ PubInv' /\ ReadsInv'
  BY <1>1 DEF Inv, TypeInv, PubInv, ReadsInv
<1> QED
  BY <1>1, <1>2 DEF Inv

LEMMA NextInv == Inv /\ [Next]_pubVars => Inv'
<1> SUFFICES ASSUME Inv, [Next]_pubVars PROVE Inv'
  OBVIOUS
<1>1. CASE PublicationStep
  <2>1. CASE Rename
    <3>1. pub.phase \in {"publishing", "committed"}
      BY <2>1, RenameShape, PubShape
    <3> QED
      BY <2>1, <3>1, RenamePublishingInv, RenameCommittedInv
  <2> QED
    BY <1>1, <2>1, RemoveStaleTempInv, WriteTempInv, SyncTempInv,
       SyncDirectoryOfPublishingInv, WritePageInv, SyncDeviceInv,
       SyncDirectoryThenActivateInv, ReportInv DEF PublicationStep
<1>2. CASE \E c \in Callers : OpenStep(c) \/ CallerStep(c)
  BY <1>2, CallerInv
<1>3. CASE Fail
  BY <1>3, FailInv
<1>4. CASE Crash
  BY <1>4, CrashInv
<1>5. CASE UNCHANGED pubVars
  BY <1>5, StutterInv
<1> QED
  BY <1>1, <1>2, <1>3, <1>4, <1>5 DEF Next

\* The inductive invariant holds of every behaviour.
THEOREM PublicationInvariant == Spec => []Inv
  BY InitInv, NextInv, PTL DEF Spec

-----------------------------------------------------------------------------
(***************************************************************************)
(* What the invariant says about publication.                              *)
(***************************************************************************)

\* Files, pages, the publication and the callers hold values of their types,
\* whatever fails and whenever the process stops.
THEOREM PublicationTypes == Spec => []PublicationTypeOK
<1>1. Inv => PublicationTypeOK
  <2> SUFFICES ASSUME Inv PROVE PublicationTypeOK
    OBVIOUS
  <2>1. FilesType(journal, maybeJournal, pages, maybePages) /\ TypeInv
    BY DEF Inv, TypeInv
  <2>2. /\ journal \in maybeJournal
        /\ maybeJournal \subseteq JournalImages \cup {Absent, Torn}
        /\ \A p \in Pages : /\ pages[p] \in maybePages[p]
                            /\ maybePages[p] \subseteq Selections \cup {Torn}
    BY <2>1 DEF FilesType, PageImages
  <2>3. pub # Idle => pub.caller \in Callers /\ pub.generation \in 2 .. MaxGeneration
    BY <2>1, PubShape DEF TypeInv
  <2>4. \A c \in Callers : /\ caller[c].base \in Selections \cup {NoBase}
                           /\ caller[c].number \in 0 .. MaxTransactions
    BY <2>1 DEF TypeInv, CallerRecords
  <2> QED
    BY <2>1, <2>2, <2>3, <2>4 DEF TypeInv, PublicationTypeOK
<1> QED
  BY <1>1, PublicationInvariant, PTL

\* Whatever a crash leaves on disk can be loaded: the journal file is synced
\* before the rename, and the first publication touches no page before its
\* journal is durable.
THEOREM InventoryAlwaysLoadable == Spec => []AlwaysLoadable
<1>1. Inv => AlwaysLoadable
  <2> SUFFICES ASSUME Inv, NEW j \in maybeJournal
               PROVE  /\ j # Torn
                      /\ j = Absent => \A p \in Pages : maybePages[p] = {Selection(<<>>, 1)}
    BY DEF AlwaysLoadable
  <2>1. j \in JournalImages \cup {Absent} /\ FilesOK(maybeJournal, maybePages)
    BY DEF Inv, TypeInv, FilesType
  <2>2. j # Torn
    BY <2>1, JournalShape
  <2>3. j = Absent => j.phase = "absent" /\ Sel(j) = Selection(<<>>, 1)
    BY DEF Absent, Sel, Empty
  <2> QED
    BY <2>1, <2>2, <2>3 DEF FilesOK
<1> QED
  BY <1>1, PublicationInvariant, PTL

\* A journal that says committed is only ever found with all the pages of
\* its generation: they are synced before it is renamed into place.
THEOREM CommittedPagesAreDurable == Spec => []CommittedJournalHasPages
<1>1. Inv => CommittedJournalHasPages
  <2> SUFFICES ASSUME Inv, NEW j \in maybeJournal, j.phase = "committed", NEW p \in Pages
               PROVE  maybePages[p] = {Selection(j.new, j.generation)}
    BY DEF CommittedJournalHasPages
  <2>1. Sel(j) = Selection(j.new, j.generation)
    BY DEF Sel
  <2> QED
    BY <2>1 DEF Inv, FilesOK
<1> QED
  BY <1>1, PublicationInvariant, PTL

\* No generation is ever read with two inventories, so the compare of the
\* compare-and-swap cannot mistake one publication base for another.
THEOREM GenerationsNameInventories == Spec => []GenerationNamesInventory
<1>1. Inv => GenerationNamesInventory
  <2> SUFFICES ASSUME Inv PROVE GenerationNamesInventory
    OBVIOUS
  <2>1. observed \cup {Select(journal, pages)} \subseteq observed \cup Left(maybeJournal)
    BY InvSelects
  <2>2. GenerationsUnique(observed \cup Left(maybeJournal))
    BY DEF Inv
  <2> QED
    BY <2>1, <2>2 DEF GenerationsUnique, GenerationNamesInventory
<1> QED
  BY <1>1, PublicationInvariant, PTL

\* As long as no I/O call fails, no crash takes back what a caller has read.
THEOREM ReadsSurvive == Spec => []ReadsSurviveCrash
<1>1. Inv => ReadsSurviveCrash
  <2> SUFFICES ASSUME Inv, failures = 0, NEW s \in observed, NEW t \in Possible
               PROVE  t # NoBase /\ EvolutionValid(s.inventory, t.inventory)
    BY DEF ReadsSurviveCrash
  <2>1. t \in Left(maybeJournal) /\ t \in Selections
    BY InvSelects
  <2> QED
    BY <2>1, SelectionShape DEF Inv, ReadsInv, ReadsOK
<1> QED
  BY <1>1, PublicationInvariant, PTL

\* No publication that was reported to its caller is undone by a crash, at
\* any step of a later publication and after any of them failed.
THEOREM AcknowledgementsSurvive == Spec => []AckedSurvivesCrash
<1>1. Inv => AckedSurvivesCrash
  <2> SUFFICES ASSUME Inv, NEW a \in acked, NEW s \in Possible
               PROVE  /\ a[1] <= Len(s.inventory)
                      /\ StateMayBecome(a[2], s.inventory[a[1]])
    BY DEF AckedSurvivesCrash, Store!AckedSurvivesCrash, Store!StateMayBecome, StateMayBecome
  <2>1. s \in Left(maybeJournal) /\ s \in Selections
    BY InvSelects
  <2>2. Honoured(a, s)
    BY <2>1 DEF Inv, AcksOK
  <2>3. Len(s.inventory) \in Nat
    BY <2>1, SelectionShape, InventoryShape, ValueLimits
  <2> QED
    BY <2>2, <2>3 DEF Honoured
<1> QED
  BY <1>1, PublicationInvariant, PTL

\* A transaction number that was handed out is never handed out again, by
\* this process or by one that opens the database after a crash.
THEOREM NumbersAreNotReissued == Spec => NumbersNeverReissued
<1> DEFINE Reissue ==
      \A c \in Callers :
         /\ caller'[c].number # 0
         /\ caller'[c].number # caller[c].number
         => <<caller'[c].number, "active">> \notin acked
<1>1. Inv /\ [Next]_pubVars => [Reissue]_pubVars
  <2> SUFFICES ASSUME Inv, Next, NEW c \in Callers, caller'[c].number # 0,
                      caller'[c].number # caller[c].number
               PROVE  <<caller'[c].number, "active">> \notin acked
    OBVIOUS
  <2>1. caller \in [Callers -> CallerRecords] /\ 0 \in 0 .. MaxTransactions
    BY ValueLimits DEF Inv, TypeInv
  <2>2. ~UNCHANGED caller /\ ~Crash
    BY DEF Crash
  <2>3. ASSUME NEW d \in Callers, NEW b, caller' = [caller EXCEPT ![d].base = b]
        PROVE  FALSE
    BY <2>1, <2>3 DEF CallerRecords
  <2>4. ASSUME NEW d \in Callers, OpenStep(d) \/ CallerStep(d) PROVE FALSE
    <3>1. ~ObserveFinished(d)
      BY <2>1, CallerSet DEF ObserveFinished
    <3> QED
      BY <2>2, <2>3, <2>4, <3>1 DEF OpenStep, CallerStep, Load, RefuseStale,
         SubmitRecovery, OpenWithoutRecovery, SubmitBegin, SubmitFinish, Submit
  <2>5. ~Fail
    <3> SUFFICES ASSUME Fail PROVE FALSE
      OBVIOUS
    <3>1. pub.caller \in Callers
      BY Publishing, PubShape DEF Fail
    <3> QED
      BY <2>3, <3>1 DEF Fail
  <2>6. Report
    BY <2>2, <2>4, <2>5 DEF Next, PublicationStep, RemoveStaleTemp, WriteTemp, SyncTemp,
       Rename, SyncDirectoryOfPublishing, WritePage, SyncDevice,
       SyncDirectoryThenActivate, SyncDirectoryAndReport
  <2>7. pub # Idle /\ pub \in PubRecords /\ pub.caller \in Callers
    BY <2>6, NotIdle, Publishing, PubShape DEF Report, Steps
  <2>8. pub.number # 0
    BY <2>3, <2>6, <2>7 DEF Report
  <2> DEFINE n == IF pub.new[pub.number] = "active" THEN pub.number ELSE 0
  <2>9. caller' = [caller EXCEPT ![pub.caller] = [base |-> NoBase, number |-> n]]
    BY <2>6, <2>8 DEF Report
  <2>10. n \in 0 .. MaxTransactions
    BY <2>7, PubShape, ValueLimits
  <2>11. n # 0 => \A a \in acked : a[1] # n
    BY <2>7, <2>8, Publishing DEF Unreported
  <2> HIDE DEF n
  <2>12. caller'[c].number = IF c = pub.caller THEN n ELSE caller[c].number
    BY <2>1, <2>7, <2>9, <2>10, CallerSet
  <2> QED
    BY <2>11, <2>12
<1> QED
  BY <1>1, PublicationInvariant, PTL DEF Spec, NumbersNeverReissued

-----------------------------------------------------------------------------
(***************************************************************************)
(* The protocol implements the register: the rename of the committed       *)
(* journal is the switch, a directory sync the hardening, a crash the      *)
(* fall, and every other step leaves the register alone.                   *)
(***************************************************************************)

LEMMA Mapping ==
  Inv => /\ Select(journal, pages) = Sel(journal)
         /\ Possible = Left(maybeJournal)
  BY InvSelects

LEMMA MappingAfter ==
  Inv' => /\ Select(journal, pages)' = Sel(journal')
          /\ Possible' = Left(maybeJournal')
<1>1. Inv' => (/\ Select(journal, pages) = Sel(journal)
               /\ Possible = Left(maybeJournal))'
  BY Mapping, PTL
<1> QED
  BY <1>1

LEMMA RegisterValues ==
  /\ Store!Selections = Selections
  /\ \A i, k : Store!EvolutionValid(i, k) <=> EvolutionValid(i, k)
<1>1. Store!Selections = Selections
  BY DEF Store!Selections, Selections, Store!Inventories, Inventories,
         Store!EntryStates, EntryStates
<1>2. \A i, k : Store!EvolutionValid(i, k) <=> EvolutionValid(i, k)
  BY DEF Store!EvolutionValid, EvolutionValid, Store!StateMayBecome, StateMayBecome
<1> QED
  BY <1>1, <1>2

LEMMA RegisterStutters ==
  ASSUME Inv, Inv', UNCHANGED <<journal, maybeJournal, acked>>
  PROVE  UNCHANGED Store!storeVars
<1>1. Select(journal, pages)' = Select(journal, pages) /\ Possible' = Possible
  BY Mapping, MappingAfter
<1> QED
  BY <1>1 DEF Store!storeVars

\* A directory sync, with or without a report to the caller.
LEMMA RegisterHardens ==
  ASSUME Inv, Inv', DirectorySynced, journal' = journal,
         \/ acked' = acked
         \/ \E n \in 1 .. Len(Sel(journal).inventory) :
               acked' = acked \cup {<<n, Sel(journal).inventory[n]>>}
  PROVE  Store!Harden
<1>1. maybeJournal' = {journal} /\ Left({journal}) = {Sel(journal)}
  BY SyncedDirectory
<1>2. /\ Select(journal, pages) = Sel(journal)
      /\ Select(journal, pages)' = Sel(journal)
      /\ Possible' = {Sel(journal)}
  BY <1>1, Mapping, MappingAfter
<1> QED
  BY <1>2 DEF Store!Harden

LEMMA RegisterSwitches ==
  ASSUME Inv, Inv', Rename, pub.phase = "committed"
  PROVE  Store!Switch
<1> DEFINE new == NewPage(pub)
           publishing == ImageOf(pub, "publishing")
           committed == ImageOf(pub, "committed")
<1>1. /\ pub # Idle /\ pub \in PubRecords /\ pub.step = "rename"
      /\ journal' = committed
      /\ maybeJournal' = maybeJournal \cup {committed} /\ acked' = acked
  BY RenameShape
<1>2. /\ Sel(committed) = new /\ Sel(publishing) = pub.old
      /\ new \in Selections /\ new.generation = pub.generation
      /\ new.inventory = pub.new /\ pub.generation \in Nat
  BY <1>1, ImageShape
<1> HIDE DEF new, publishing, committed
<1>3. journal = publishing /\ Sel(journal) = pub.old
  BY <1>1, <1>2, Publishing DEF JournalOK, CommittedOK, BeforeRename, publishing
<1>4. EvolutionValid(pub.old.inventory, new.inventory)
  BY <1>1, <1>2, Publishing DEF WorkOK
<1>5. pub.old.generation < new.generation
  <2>1. Sel(journal) \in observed \cup Left(maybeJournal)
    BY InvSelects
  <2> QED
    BY <1>1, <1>2, <1>3, <2>1, Publishing DEF Fresh, BeforeRename
<1>6. pub.old.generation \in Nat
  BY <1>1, PubShape, SelectionShape
<1>7. /\ Select(journal, pages) = pub.old /\ Possible = Left(maybeJournal)
      /\ Select(journal, pages)' = new /\ Possible' = Left(maybeJournal')
  BY <1>1, <1>2, <1>3, Mapping, MappingAfter
<1>8. Possible' = Possible \cup {new}
  BY <1>1, <1>2, <1>7 DEF Left
<1>9. /\ new \in Store!Selections /\ new.generation > Select(journal, pages).generation
      /\ Store!EvolutionValid(Select(journal, pages).inventory, new.inventory)
  BY <1>2, <1>4, <1>5, <1>6, <1>7, RegisterValues
<1> QED
  BY <1>1, <1>7, <1>8, <1>9 DEF Store!Switch

LEMMA RegisterSteps == Inv /\ Inv' /\ [Next]_pubVars => [Store!StoreNext]_(Store!storeVars)
<1> SUFFICES ASSUME Inv, Inv', [Next]_pubVars
             PROVE  Store!StoreNext \/ UNCHANGED Store!storeVars
  OBVIOUS
<1>1. CASE Rename
  <2>1. CASE pub.phase = "committed"
    BY <1>1, <2>1, RegisterSwitches DEF Store!StoreNext
  <2>2. CASE pub.phase # "committed"
    <3> DEFINE image == ImageOf(pub, "publishing")
    <3>1. /\ pub # Idle /\ pub \in PubRecords /\ pub.step = "rename"
          /\ pub.phase = "publishing" /\ journal' = image
          /\ maybeJournal' = maybeJournal \cup {image} /\ acked' = acked
      BY <1>1, <2>2, RenameShape, PubShape
    <3>2. Sel(image) = pub.old
      BY <3>1, ImageShape
    <3> HIDE DEF image
    <3>3. Sel(journal) = pub.old /\ Sel(journal) \in Left(maybeJournal)
      BY <3>1, Publishing, InvSelects DEF JournalOK, PublishingOK, BeforeRename
    <3>4. Sel(journal') = Sel(journal) /\ Left(maybeJournal') = Left(maybeJournal)
      BY <3>1, <3>2, <3>3 DEF Left
    <3>5. Select(journal, pages)' = Select(journal, pages) /\ Possible' = Possible
      BY <3>4, Mapping, MappingAfter
    <3> QED
      BY <3>1, <3>5 DEF Store!storeVars
  <2> QED
    BY <2>1, <2>2
<1>2. CASE RemoveStaleTemp \/ SyncDirectoryOfPublishing \/ SyncDirectoryThenActivate
  <2>1. DirectorySynced /\ journal' = journal /\ acked' = acked
    BY <1>2 DEF RemoveStaleTemp, SyncDirectoryOfPublishing, SyncDirectoryThenActivate
  <2> QED
    BY <2>1, RegisterHardens DEF Store!StoreNext
<1>3. CASE SyncDirectoryAndReport
  <2>1. /\ DirectorySynced /\ journal' = journal
        /\ pub.step = "sync_directory" /\ pub.phase = "committed"
        /\ pub.number = 0 => acked' = acked
        /\ pub.number # 0 => acked' = acked \cup {<<pub.number, pub.new[pub.number]>>}
    BY <1>3 DEF SyncDirectoryAndReport, Report
  <2>2. pub # Idle /\ pub \in PubRecords /\ Sel(journal) = NewPage(pub)
    BY <2>1, CommittedShape
  <2>3. Sel(journal).inventory = pub.new
    BY <2>2, ImageShape
  <2>4. pub.number # 0 => pub.number \in 1 .. Len(pub.new)
    BY <2>2, Publishing DEF WorkOK
  <2> QED
    BY <2>1, <2>3, <2>4, RegisterHardens DEF Store!StoreNext
<1>4. CASE Crash
  <2>1. journal' \in maybeJournal /\ maybeJournal' = {journal'} /\ acked' = acked
    BY <1>4 DEF Crash
  <2>2. Sel(journal') \in Left(maybeJournal) /\ Left(maybeJournal') = {Sel(journal')}
    BY <2>1 DEF Left
  <2>3. Select(journal, pages)' \in Possible /\ Possible' = {Select(journal, pages)'}
    BY <2>2, Mapping, MappingAfter
  <2> QED
    BY <2>1, <2>3 DEF Store!Fall, Store!StoreNext
<1>5. CASE WriteTemp \/ SyncTemp \/ WritePage \/ SyncDevice \/ Fail \/ UNCHANGED pubVars
  <2>1. UNCHANGED <<journal, maybeJournal, acked>>
    BY <1>5 DEF WriteTemp, SyncTemp, WritePage, SyncDevice, Fail, pubVars
  <2> QED
    BY <2>1, RegisterStutters
<1>6. ASSUME NEW c \in Callers, OpenStep(c) \/ CallerStep(c)
      PROVE  UNCHANGED Store!storeVars
  <2>1. UNCHANGED <<disk, acked>>
    BY <1>6 DEF OpenStep, CallerStep, Load, RefuseStale, SubmitRecovery,
       OpenWithoutRecovery, SubmitBegin, SubmitFinish, Submit, ObserveFinished
  <2> QED
    BY <2>1, RegisterStutters DEF disk
<1> QED
  BY <1>1, <1>2, <1>3, <1>4, <1>5, <1>6 DEF Next, PublicationStep

LEMMA RegisterInit == Init => Store!StoreInit
<1> SUFFICES ASSUME Init PROVE Store!StoreInit
  OBVIOUS
<1>1. Select(journal, pages) = Sel(journal) /\ Possible = Left(maybeJournal)
  BY InitInv, Mapping
<1>2. Sel(journal) = [inventory |-> <<>>, generation |-> 1]
  BY DEF Init, Absent, Sel, Empty, Selection
<1>3. Left(maybeJournal) = {Sel(journal)}
  BY DEF Init, Left
<1> QED
  BY <1>1, <1>2, <1>3 DEF Init, Store!StoreInit

\* Seen from its callers the journal and page protocol, with its failures and
\* crashes at any I/O call, is a register that switches, hardens and falls.
THEOREM PublicationImplementsStore == Spec => ImplementsStore
  BY PublicationInvariant, RegisterInit, RegisterSteps, PTL
  DEF Spec, ImplementsStore, Store!StoreSpec

-----------------------------------------------------------------------------
(***************************************************************************)
(* The register alone keeps what callers were told: a caller that knows    *)
(* only the abstract specification may rely on it.                         *)
(***************************************************************************)

RegisterInv ==
    /\ Select(journal, pages) \in Possible
    /\ Possible \subseteq Selections
    /\ AcksOK(acked, Possible)

LEMMA RegisterNextInv ==
  RegisterInv /\ [Store!StoreNext]_(Store!storeVars) => RegisterInv'
<1> SUFFICES ASSUME RegisterInv, [Store!StoreNext]_(Store!storeVars) PROVE RegisterInv'
  OBVIOUS
<1>1. CASE Store!Switch
  <2>1. PICK next \in Selections :
           /\ EvolutionValid(Select(journal, pages).inventory, next.inventory)
           /\ Select(journal, pages)' = next
           /\ Possible' = Possible \cup {next}
    BY <1>1, RegisterValues DEF Store!Switch
  <2>2. Select(journal, pages) \in Selections /\ acked' = acked
    BY <1>1 DEF RegisterInv, Store!Switch
  <2>3. \A a \in acked : Honoured(a, Select(journal, pages)) => Honoured(a, next)
    BY <2>1, <2>2, EvolutionHonours
  <2>4. AcksOK(acked', Possible')
    BY <2>1, <2>2, <2>3 DEF RegisterInv, AcksOK
  <2> QED
    BY <2>1, <2>4 DEF RegisterInv
<1>2. CASE Store!Harden
  <2>1. /\ Possible' = {Select(journal, pages)}
        /\ Select(journal, pages)' = Select(journal, pages)
        /\ Select(journal, pages) \in Possible
    BY <1>2 DEF Store!Harden, RegisterInv
  <2>2. ASSUME NEW a \in acked' PROVE Honoured(a, Select(journal, pages))
    <3>1. CASE a \in acked
      BY <2>1, <3>1 DEF RegisterInv, AcksOK
    <3>2. CASE a \notin acked
      <4>1. PICK n \in 1 .. Len(Select(journal, pages).inventory) :
               a = <<n, Select(journal, pages).inventory[n]>>
        BY <1>2, <2>2, <3>2 DEF Store!Harden
      <4> QED
        BY <4>1 DEF Honoured, StateMayBecome
    <3> QED
      BY <3>1, <3>2
  <2>3. AcksOK(acked', Possible')
    BY <2>1, <2>2 DEF AcksOK
  <2> QED
    BY <2>1, <2>3 DEF RegisterInv
<1>3. CASE Store!Fall
  <2>1. AcksOK(acked', Possible')
    BY <1>3 DEF Store!Fall, RegisterInv, AcksOK
  <2> QED
    BY <1>3, <2>1 DEF Store!Fall, RegisterInv
<1>4. CASE UNCHANGED Store!storeVars
  BY <1>4 DEF Store!storeVars, RegisterInv
<1> QED
  BY <1>1, <1>2, <1>3, <1>4 DEF Store!StoreNext

\* Whatever implements the register keeps its acknowledgements: they survive
\* every fall because nobody is told before the hardening.
THEOREM RegisterKeepsAcknowledgements == ImplementsStore => []AckedSurvivesCrash
<1>1. Store!StoreInit => RegisterInv
  <2> SUFFICES ASSUME Store!StoreInit PROVE RegisterInv
    OBVIOUS
  <2>1. Select(journal, pages) = Empty /\ Possible = {Empty} /\ acked = {}
    BY DEF Store!StoreInit, Empty, Selection
  <2> QED
    BY <2>1, EmptyInventory DEF RegisterInv, AcksOK
<1>2. RegisterInv => AckedSurvivesCrash
  <2> SUFFICES ASSUME RegisterInv, NEW a \in acked, NEW s \in Possible
               PROVE  /\ a[1] <= Len(s.inventory)
                      /\ StateMayBecome(a[2], s.inventory[a[1]])
    BY DEF AckedSurvivesCrash, Store!AckedSurvivesCrash, Store!StateMayBecome, StateMayBecome
  <2>1. Honoured(a, s) /\ s \in Selections
    BY DEF RegisterInv, AcksOK
  <2>2. Len(s.inventory) \in Nat
    BY <2>1, SelectionShape, InventoryShape, ValueLimits
  <2> QED
    BY <2>1, <2>2 DEF Honoured
<1> QED
  BY <1>1, <1>2, RegisterNextInv, PTL DEF ImplementsStore, Store!StoreSpec
=============================================================================
