-------------------------- MODULE SavepointsProofs --------------------------
(***************************************************************************)
(* Proofs about the savepoint stack, for any names, kinds of mutations,    *)
(* transactions, depth of the stack and number of mutations.               *)
(***************************************************************************)
EXTENDS Savepoints, SequenceTheorems, WellFoundedInduction, TLAPS

\* The inductive invariant: the pages hold recorded mutations only, and none
\* that the stack calls rolled back.
UndoInv ==
    /\ mutations \in Seq(MutationRecord)
    /\ txn \in 1 .. MaxTxns
    /\ present \subseteq DOMAIN mutations
    /\ RolledBackIsUndone

LEMMA UndoInitial == Init => UndoInv
<1> SUFFICES ASSUME Init PROVE UndoInv
  OBVIOUS
<1>1. mutations \in Seq(MutationRecord) /\ DOMAIN mutations = {}
  BY EmptySeq DEF Init
<1>2. txn \in 1 .. MaxTxns
  BY SavepointConstants DEF Init
<1> QED
  BY <1>1, <1>2 DEF Init, UndoInv, RolledBackIsUndone

\* Marking keeps the list of mutations, with the marked ones rolled back.
LEMMA MarkedMutations ==
  ASSUME UndoInv, NEW mark, MarkRollbackApplied(mark)
  PROVE  /\ mutations' \in Seq(MutationRecord)
         /\ DOMAIN mutations' = DOMAIN mutations
         /\ \A i \in DOMAIN mutations :
              mutations'[i].rolledBack =>
                \/ mutations[i].rolledBack
                \/ mutations[i].txn = txn /\ i > mark
         /\ \A i \in DOMAIN mutations :
              /\ mutations'[i].txn = mutations[i].txn
              /\ mutations'[i].undo = mutations[i].undo
              /\ ~mutations'[i].rolledBack =>
                   ~mutations[i].rolledBack /\ ~(mutations[i].txn = txn /\ i > mark)
<1>1. /\ Len(mutations) \in Nat
      /\ DOMAIN mutations = 1 .. Len(mutations)
      /\ \A i \in DOMAIN mutations : mutations[i] \in MutationRecord
  BY LenProperties DEF UndoInv
<1>2. mutations' =
        [i \in DOMAIN mutations |->
           IF mutations[i].txn = txn /\ i > mark
           THEN [mutations[i] EXCEPT !.rolledBack = TRUE] ELSE mutations[i]]
  BY DEF MarkRollbackApplied
<1>3. \A i \in DOMAIN mutations :
        [mutations[i] EXCEPT !.rolledBack = TRUE] \in MutationRecord
  BY <1>1 DEF MutationRecord
<1>4. mutations' \in [1 .. Len(mutations) -> MutationRecord]
  BY <1>1, <1>2, <1>3
<1>5. mutations' \in Seq(MutationRecord)
  BY <1>1, <1>4, SeqDef
<1>6. ASSUME NEW i \in DOMAIN mutations
      PROVE  /\ mutations'[i].txn = mutations[i].txn
             /\ mutations'[i].undo = mutations[i].undo
             /\ ~mutations'[i].rolledBack =>
                  ~mutations[i].rolledBack /\ ~(mutations[i].txn = txn /\ i > mark)
  <2>1. mutations[i] \in MutationRecord
    BY <1>1
  <2>2. CASE mutations[i].txn = txn /\ i > mark
    <3>1. mutations'[i] = [mutations[i] EXCEPT !.rolledBack = TRUE]
      BY <1>2, <2>2
    <3> QED
      BY <2>1, <3>1 DEF MutationRecord
  <2>3. CASE ~(mutations[i].txn = txn /\ i > mark)
    <3>1. mutations'[i] = mutations[i]
      BY <1>2, <2>3
    <3> QED
      BY <2>3, <3>1
  <2> QED
    BY <2>2, <2>3
<1> QED
  BY <1>1, <1>2, <1>5, <1>6

LEMMA RecordMutationInv ==
  ASSUME UndoInv, NEW kind \in Kinds, NEW undo \in BOOLEAN,
         RecordMutation(kind, undo)
  PROVE  UndoInv'
<1> DEFINE new == [txn |-> txn, kind |-> kind, undo |-> undo, rolledBack |-> FALSE]
<1>1. new \in MutationRecord
  BY DEF UndoInv, MutationRecord
<1>2. /\ Len(mutations) \in Nat
      /\ DOMAIN mutations = 1 .. Len(mutations)
  BY LenProperties DEF UndoInv
<1>3. mutations' = Append(mutations, new)
  BY DEF RecordMutation
<1>4. /\ mutations' \in Seq(MutationRecord)
      /\ Len(mutations') = Len(mutations) + 1
      /\ \A i \in 1 .. Len(mutations) : mutations'[i] = mutations[i]
      /\ mutations'[Len(mutations) + 1] = new
  BY <1>1, <1>3, AppendProperties DEF UndoInv
<1>5. DOMAIN mutations' = 1 .. Len(mutations) + 1
  BY <1>4, LenProperties
<1>6. present' = present \cup {Len(mutations) + 1} /\ txn' = txn
  BY DEF RecordMutation
<1>7. present' \subseteq DOMAIN mutations'
  BY <1>2, <1>5, <1>6 DEF UndoInv
<1>8. RolledBackIsUndone'
  <2> SUFFICES ASSUME NEW i \in DOMAIN mutations', mutations'[i].rolledBack
               PROVE  i \notin present'
    BY DEF RolledBackIsUndone
  <2>1. i # Len(mutations) + 1
    BY <1>4
  <2>2. i \in 1 .. Len(mutations)
    BY <2>1, <1>2, <1>5
  <2>3. mutations[i].rolledBack
    BY <2>2, <1>4
  <2> QED
    BY <2>1, <2>2, <2>3, <1>2, <1>6 DEF UndoInv, RolledBackIsUndone
<1> QED
  BY <1>4, <1>6, <1>7, <1>8 DEF UndoInv

\* A rollback without an executor marks only what is rolled back already.
LEMMA ApplyRollbackToInv ==
  ASSUME UndoInv, NEW name \in Names, ApplyRollbackTo(name)
  PROVE  UndoInv'
<1>1. CASE UNCHANGED <<txn, mutations, present>>
  BY <1>1 DEF UndoInv, RolledBackIsUndone
<1>2. CASE /\ RollbackActions(name) = {}
           /\ MarkRollbackApplied(Mark(name))
           /\ UNCHANGED <<txn, present>>
  <2>1. /\ mutations' \in Seq(MutationRecord)
        /\ DOMAIN mutations' = DOMAIN mutations
        /\ \A i \in DOMAIN mutations :
             mutations'[i].rolledBack =>
               \/ mutations[i].rolledBack
               \/ mutations[i].txn = txn /\ i > Mark(name)
    BY <1>2, MarkedMutations
  <2>2. \A i \in DOMAIN mutations :
          mutations[i].txn = txn /\ i > Mark(name) => mutations[i].rolledBack
    BY <1>2 DEF RollbackActions
  <2> QED
    BY <1>2, <2>1, <2>2 DEF UndoInv, RolledBackIsUndone
<1> QED
  BY <1>1, <1>2 DEF ApplyRollbackTo, RefuseRollback

\* A rollback that reports success has undone all of its actions.
LEMMA SuccessUndoesAll ==
  ASSUME UndoInv, NEW name \in Names, NEW supported, NEW failing,
         ExecuteRollbackTo(name, supported, failing),
         last' = "rollback_actions_ready"
  PROVE  /\ present' = present \ RollbackActions(name)
         /\ MarkRollbackApplied(Mark(name))
<1> DEFINE actions == RollbackActions(name)
           unsupported == {i \in actions : mutations[i].kind \notin supported}
           stop == Max({0, failing} \cup unsupported)
<1>1. /\ present' = present \ UndoneBeforeStop(actions, stop)
      /\ \/ stop = 0 /\ MarkRollbackApplied(Mark(name))
         \/ last' = IF stop \in unsupported THEN "executor_unavailable"
                    ELSE "executor_failed"
  BY DEF ExecuteRollbackTo
<1>2. stop = 0 /\ MarkRollbackApplied(Mark(name))
  BY <1>1
<1>3. \A i \in actions : i > 0
  BY LenProperties DEF UndoInv, RollbackActions
<1>4. UndoneBeforeStop(actions, 0) = actions
  BY <1>3 DEF UndoneBeforeStop
<1> QED
  BY <1>1, <1>2, <1>4

LEMMA ExecuteRollbackToInv ==
  ASSUME UndoInv, NEW name \in Names, NEW supported, NEW failing,
         ExecuteRollbackTo(name, supported, failing)
  PROVE  UndoInv'
<1>1. present' \subseteq present /\ txn' = txn
  BY DEF ExecuteRollbackTo
<1>2. CASE UNCHANGED mutations
  BY <1>1, <1>2 DEF UndoInv, RolledBackIsUndone
<1>3. CASE last' = "rollback_actions_ready"
  <2>1. /\ present' = present \ RollbackActions(name)
        /\ MarkRollbackApplied(Mark(name))
    BY <1>3, SuccessUndoesAll
  <2>2. /\ mutations' \in Seq(MutationRecord)
        /\ DOMAIN mutations' = DOMAIN mutations
        /\ \A i \in DOMAIN mutations :
             mutations'[i].rolledBack =>
               \/ mutations[i].rolledBack
               \/ mutations[i].txn = txn /\ i > Mark(name)
    BY <2>1, MarkedMutations
  <2> QED
    BY <1>1, <2>1, <2>2 DEF UndoInv, RolledBackIsUndone, RollbackActions
<1> QED
  BY <1>2, <1>3 DEF ExecuteRollbackTo

LEMMA ResetSessionInv ==
  ASSUME UndoInv, ResetSession
  PROVE  UndoInv'
<1>1. /\ mutations' \in Seq(MutationRecord) /\ DOMAIN mutations' = {}
      /\ present' = {}
  BY EmptySeq DEF ResetSession
<1>2. txn' \in 1 .. MaxTxns
  BY SavepointConstants DEF UndoInv, ResetSession
<1> QED
  BY <1>1, <1>2 DEF UndoInv, RolledBackIsUndone

LEMMA EndTransactionInv ==
  ASSUME UndoInv, EndTransaction
  PROVE  UndoInv'
<1>1. txn' \in 1 .. MaxTxns
  BY SavepointConstants DEF UndoInv, EndTransaction
<1> QED
  BY <1>1 DEF UndoInv, RolledBackIsUndone, EndTransaction

LEMMA UndoStutter ==
  ASSUME UndoInv, UNCHANGED <<txn, mutations, present>>
  PROVE  UndoInv'
  BY DEF UndoInv, RolledBackIsUndone

\* Every step of the stack keeps the invariant.
LEMMA UndoStep ==
  ASSUME UndoInv, [Next]_savepointVars
  PROVE  UndoInv'
<1>1. ASSUME NEW name \in Names, NEW mark,
             Create(name, mark) \/ Release(name) \/ RollbackTo(name)
      PROVE  UndoInv'
  BY <1>1, UndoStutter DEF Create, Release, RollbackTo
<1>2. CASE UNCHANGED savepointVars
  BY <1>2, UndoStutter DEF savepointVars
<1> QED
  BY <1>1, <1>2, ApplyRollbackToInv, RecordMutationInv, ExecuteRollbackToInv, EndTransactionInv,
     ResetSessionInv DEF Next

\* The pages hold recorded mutations only, and none called rolled back, in every
\* state of the savepoint stack and its undo (MarkRollbackApplied, Execute).
THEOREM UndoInvariant == Spec => []UndoInv
  BY UndoInitial, UndoStep, PTL DEF Spec

-----------------------------------------------------------------------------
\* What the stack calls rolled back is off the pages, however often undo fails
\* half way and is tried again (MarkRollbackApplied, ExecuteRollbackTo).
THEOREM RolledBackStaysUndone == Spec => []RolledBackIsUndone
<1>1. UndoInv => RolledBackIsUndone
  BY DEF UndoInv
<1> QED
  BY <1>1, UndoInvariant, PTL

\* A rollback that reports success leaves what was there at the savepoint and
\* nothing after it (ExecuteRollbackTo).
THEOREM SuccessfulRollbackIsComplete == Spec => SuccessIsComplete
<1> DEFINE Complete ==
      \A name \in Names :
        (/\ Mine(name) # {}
         /\ \E supported \in SUBSET Kinds : ExecuteRollbackTo(name, supported, 0)
         /\ last' = "rollback_actions_ready")
        => {i \in present' : mutations[i].txn = txn} =
             {i \in present : mutations[i].txn = txn /\ ~(i > Mark(name))}
<1>1. UndoInv => Complete
  <2> SUFFICES ASSUME UndoInv, NEW name \in Names, NEW supported \in SUBSET Kinds,
                      ExecuteRollbackTo(name, supported, 0),
                      last' = "rollback_actions_ready"
               PROVE  {i \in present' : mutations[i].txn = txn} =
                        {i \in present : mutations[i].txn = txn /\ ~(i > Mark(name))}
    OBVIOUS
  <2>1. present' = present \ RollbackActions(name)
    BY SuccessUndoesAll
  <2>2. \A i \in present : i \in DOMAIN mutations /\ ~mutations[i].rolledBack
    BY DEF UndoInv, RolledBackIsUndone
  <2> QED
    BY <2>1, <2>2 DEF RollbackActions
<1> QED
  BY <1>1, UndoInvariant, PTL DEF SuccessIsComplete

-----------------------------------------------------------------------------
(***************************************************************************)
(* The stack.  What Without leaves of it, its recursion unfolded by        *)
(* induction in the form that a nonempty set of naturals has a least       *)
(* element.                                                                *)
(***************************************************************************)
LEMMA LeastNatural ==
  ASSUME NEW S, S \subseteq Nat, S # {}
  PROVE  \E m \in S : \A n \in S : m <= n
<1> DEFINE less == {ss \in Nat \X Nat : ss[1] < ss[2]}
<1>1. less = OpToRel(<, Nat)
  BY DEF OpToRel
<1>2. IsWellFoundedOn(less, Nat)
  BY <1>1, NatLessThanWellFounded
<1>3. PICK m \in S : \A n \in S : <<n, m>> \notin less
  <2> HIDE DEF less
  <2> QED
    BY <1>2, WFMin
<1>4. \A n \in S : ~(n < m)
  <2> TAKE n \in S
  <2>1. <<n, m>> \in Nat \X Nat /\ <<n, m>>[1] = n /\ <<n, m>>[2] = m
    OBVIOUS
  <2> QED
    BY <1>3, <2>1
<1> HIDE DEF less
<1> QED
  BY <1>4

\* The prefixes of Without up to n.
Keeps(kept, s, drop, n) ==
    /\ kept[0] = <<>>
    /\ \A m \in 1 .. n :
          kept[m] = IF s[m] \in drop THEN kept[m - 1] ELSE Append(kept[m - 1], s[m])

Prefixes(kept, s, drop, n) == kept = [m \in 0 .. n |-> kept[m]] /\ Keeps(kept, s, drop, n)

LEMMA PrefixesExist ==
  ASSUME NEW s \in Seq(SavepointRecord), NEW drop, NEW n \in 0 .. Len(s)
  PROVE  \E kept : Prefixes(kept, s, drop, n)
<1> DEFINE Ok(m) == \E kept : Prefixes(kept, s, drop, m)
           bad == {m \in Nat : ~Ok(m)}
<1>1. Ok(0)
  <2> DEFINE k0 == [k \in 0 .. 0 |-> <<>>]
  <2>1. Prefixes(k0, s, drop, 0)
    BY DEF Keeps, Prefixes
  <2> HIDE DEF k0
  <2> QED
    BY <2>1
<1>2. ASSUME NEW m \in Nat, m # 0, Ok(m - 1) PROVE Ok(m)
  <2>1. PICK g : g = [k \in 0 .. (m - 1) |-> g[k]] /\ Keeps(g, s, drop, m - 1)
    BY <1>2 DEF Prefixes
  <2> DEFINE newest == IF s[m] \in drop THEN g[m - 1] ELSE Append(g[m - 1], s[m])
             h == [k \in 0 .. m |-> IF k = m THEN newest ELSE g[k]]
  <2>2. /\ h[m] = newest
        /\ \A k \in 0 .. (m - 1) : h[k] = g[k]
    OBVIOUS
  <2>3. h = [k \in 0 .. m |-> h[k]]
    OBVIOUS
  <2> HIDE DEF h
  <2>4. Keeps(h, s, drop, m)
    <3>1. h[0] = <<>>
      BY <1>2, <2>1, <2>2 DEF Keeps
    <3>2. ASSUME NEW k \in 1 .. m
          PROVE  h[k] = IF s[k] \in drop THEN h[k - 1] ELSE Append(h[k - 1], s[k])
      <4>1. CASE k = m
        <5>1. h[m - 1] = g[m - 1] /\ h[k] = newest
          BY <1>2, <2>2, <4>1
        <5> QED
          BY <4>1, <5>1
      <4>2. CASE k # m
        <5>1. k \in 1 .. (m - 1) /\ k \in 0 .. (m - 1) /\ k - 1 \in 0 .. (m - 1)
          BY <4>2
        <5>2. h[k] = g[k] /\ h[k - 1] = g[k - 1]
          BY <2>2, <5>1
        <5> HIDE DEF newest
        <5> QED
          BY <2>1, <5>1, <5>2 DEF Keeps
      <4> QED
        BY <4>1, <4>2
    <3> QED
      BY <3>1, <3>2 DEF Keeps
  <2>5. Prefixes(h, s, drop, m)
    BY <2>3, <2>4 DEF Prefixes
  <2> QED
    BY <2>5
<1>3. bad = {}
  <2> HIDE DEF Ok
  <2> SUFFICES ASSUME bad # {} PROVE FALSE
    OBVIOUS
  <2>1. PICK m \in bad : \A k \in bad : m <= k
    BY LeastNatural
  <2>2. m \in Nat /\ ~Ok(m) /\ m # 0
    BY <1>1
  <2>3. m - 1 \in Nat /\ ~(m <= m - 1)
    BY <2>2
  <2>4. Ok(m - 1)
    BY <2>1, <2>3
  <2> QED
    BY <1>2, <2>2, <2>4
<1>4. Ok(n)
  <2> HIDE DEF Ok
  <2> QED
    BY <1>3
<1> QED
  BY <1>4

\* No transaction has two savepoints of one name.
NamesAgree(s) ==
    \A i, j \in DOMAIN s : s[i].txn = s[j].txn /\ s[i].name = s[j].name => s[i] = s[j]

\* What Without returns: the other savepoints, and no more of them.
Dropped(r, s, drop) ==
    /\ r \in Seq(SavepointRecord)
    /\ Len(r) <= Len(s)
    /\ \A o : (\E i \in DOMAIN r : r[i] = o) <=> o \notin drop /\ (\E i \in DOMAIN s : s[i] = o)

LEMMA WithoutFacts ==
  ASSUME NEW s \in Seq(SavepointRecord), NEW drop
  PROVE  Dropped(Without(s, drop), s, drop)
<1> DEFINE Val(g, n) == IF n = 0 THEN <<>>
                        ELSE IF s[n] \in drop THEN g[n - 1] ELSE Append(g[n - 1], s[n])
           Body(g) == [n \in 0 .. Len(s) |-> Val(g, n)]
           kept == CHOOSE g : g = Body(g)
<1>1. Without(s, drop) = kept[Len(s)]
  BY DEF Without
<1>2. Len(s) \in Nat
  OBVIOUS
<1>3. \E g : g = Body(g)
  <2>0. \E g : Prefixes(g, s, drop, Len(s))
    <3>1. Len(s) \in 0 .. Len(s)
      BY <1>2
    <3> HIDE DEF Val, Body, kept
    <3> QED
      BY <3>1, PrefixesExist
  <2>1. PICK g : Prefixes(g, s, drop, Len(s))
    BY <2>0
  <2>2. ASSUME NEW n \in 0 .. Len(s)
        PROVE  g[n] = Val(g, n)
    <3>1. CASE n = 0
      BY <2>1, <3>1 DEF Keeps, Prefixes
    <3>2. CASE n # 0
      <4>1. n \in 1 .. Len(s)
        BY <1>2, <3>2
      <4> QED
        BY <2>1, <3>2, <4>1 DEF Keeps, Prefixes
    <3> QED
      BY <3>1, <3>2
  <2> HIDE DEF Val
  <2>3. g = [n \in 0 .. Len(s) |-> g[n]]
    BY <2>1 DEF Prefixes
  <2>4. [n \in 0 .. Len(s) |-> g[n]] = [n \in 0 .. Len(s) |-> Val(g, n)]
    BY <2>2
  <2>5. g = Body(g)
    BY <2>3, <2>4
  <2> HIDE DEF Body
  <2> QED
    BY <2>5
<1>4. kept = Body(kept)
  <2> HIDE DEF Body
  <2> QED
    BY <1>3
<1> HIDE DEF kept
<1>5. /\ kept[0] = <<>>
      /\ \A n \in 0 .. Len(s) : n # 0 =>
            kept[n] = IF s[n] \in drop THEN kept[n - 1] ELSE Append(kept[n - 1], s[n])
  <2>1. \A n \in 0 .. Len(s) : kept[n] = Val(kept, n)
    <3> HIDE DEF Val
    <3> QED
      BY <1>4
  <2>2. kept[0] = <<>>
    BY <1>2, <2>1
  <2> QED
    BY <2>1, <2>2
<1> HIDE DEF Body
<1> DEFINE Good(n) ==
             /\ kept[n] \in Seq(SavepointRecord)
             /\ Len(kept[n]) <= n
             /\ \A o : (\E i \in DOMAIN kept[n] : kept[n][i] = o)
                          <=> o \notin drop /\ (\E i \in 1 .. n : s[i] = o)
           bad == {n \in 0 .. Len(s) : ~Good(n)}
<1>6. Good(0)
  BY <1>5
<1>7. ASSUME NEW n \in 1 .. Len(s), Good(n - 1) PROVE Good(n)
  <2> DEFINE p == kept[n - 1]
             k == kept[n]
  <2>1. /\ n \in Nat /\ n \in 0 .. Len(s) /\ n # 0 /\ n \in DOMAIN s /\ s[n] \in SavepointRecord
        /\ 1 .. n = (1 .. (n - 1)) \cup {n} /\ n \notin 1 .. (n - 1)
        /\ \A i \in 1 .. (n - 1) : i \in DOMAIN s
    BY <1>2
  <2>2. /\ p \in Seq(SavepointRecord) /\ Len(p) <= n - 1
        /\ \A o : (\E i \in DOMAIN p : p[i] = o) <=> o \notin drop /\ (\E i \in 1 .. (n - 1) : s[i] = o)
    BY <1>7
  <2>3. k = IF s[n] \in drop THEN p ELSE Append(p, s[n])
    BY <1>5, <2>1
  <2> HIDE DEF p, k
  <2>4. CASE s[n] \in drop
    <3>1. k = p
      BY <2>3, <2>4
    <3>2. \A o : o \notin drop => ((\E i \in 1 .. n : s[i] = o) <=> (\E i \in 1 .. (n - 1) : s[i] = o))
      BY <2>1, <2>4
    <3>3. Len(k) <= n
      BY <2>1, <2>2, <3>1
    <3> QED
      BY <2>2, <3>1, <3>2, <3>3 DEF k
  <2>5. CASE s[n] \notin drop
    <3>1. k = Append(p, s[n])
      BY <2>3, <2>5
    <3>2. /\ k \in Seq(SavepointRecord) /\ Len(k) = Len(p) + 1 /\ Len(p) \in Nat
          /\ DOMAIN p = 1 .. Len(p) /\ DOMAIN k = 1 .. Len(k)
          /\ \A i \in 1 .. Len(p) : k[i] = p[i]
          /\ k[Len(k)] = s[n]
      BY <2>1, <2>2, <3>1
    <3>3. /\ DOMAIN k = DOMAIN p \cup {Len(k)} /\ Len(k) \notin DOMAIN p
          /\ \A i \in DOMAIN p : k[i] = p[i]
      BY <3>2
    <3>4. Len(k) <= n
      BY <2>1, <2>2, <3>2
    <3>5. \A o : (\E i \in DOMAIN k : k[i] = o) <=> o \notin drop /\ (\E i \in 1 .. n : s[i] = o)
      <4>1. \A o : (\E i \in DOMAIN k : k[i] = o) <=> (\E i \in DOMAIN p : p[i] = o) \/ s[n] = o
        BY <3>2, <3>3
      <4>2. \A o : (\E i \in 1 .. n : s[i] = o) <=> (\E i \in 1 .. (n - 1) : s[i] = o) \/ s[n] = o
        BY <2>1
      <4> QED
        BY <2>2, <2>5, <4>1, <4>2
    <3> QED
      BY <3>2, <3>4, <3>5 DEF k
  <2> QED
    BY <2>4, <2>5
<1>8. bad = {}
  <2> HIDE DEF Good
  <2> SUFFICES ASSUME bad # {} PROVE FALSE
    OBVIOUS
  <2>1. bad \subseteq Nat
    BY <1>2
  <2>2. PICK m \in bad : \A k \in bad : m <= k
    BY <2>1, LeastNatural
  <2>3. m \in 0 .. Len(s) /\ ~Good(m) /\ m # 0
    BY <1>6
  <2>4. m \in 1 .. Len(s) /\ m - 1 \in 0 .. Len(s) /\ ~(m <= m - 1)
    BY <1>2, <2>3
  <2>5. Good(m - 1)
    BY <2>2, <2>4
  <2> QED
    BY <1>7, <2>3, <2>4, <2>5
<1>9. Good(Len(s))
  <2> HIDE DEF Good
  <2> QED
    BY <1>2, <1>8
<1>10. DOMAIN s = 1 .. Len(s)
  OBVIOUS
<1> QED
  BY <1>1, <1>9, <1>10 DEF Dropped

-----------------------------------------------------------------------------
(***************************************************************************)
(* The stack beside the mutations.  The savepoints of a transaction have   *)
(* different names, so what is left of a stack is found by the name it had *)
(* before.  Marks are in no order: they are the caller's.                  *)
(***************************************************************************)
StackOK(s) ==
    /\ s \in Seq(SavepointRecord) /\ Len(s) <= MaxSavepoints /\ NamesAgree(s)

StackInv ==
    /\ UndoInv
    /\ Len(mutations) <= MaxMutations
    /\ StackOK(savepoints)
    /\ \A i \in DOMAIN mutations : mutations[i].txn <= txn
    /\ last \in Decisions

LEMMA StackFacts ==
  ASSUME StackInv
  PROVE  /\ Len(savepoints) \in Nat /\ DOMAIN savepoints = 1 .. Len(savepoints)
         /\ Len(mutations) \in Nat /\ DOMAIN mutations = 1 .. Len(mutations)
         /\ \A i \in DOMAIN savepoints : savepoints[i] \in SavepointRecord
                                         /\ savepoints[i].mark \in Nat
         /\ txn \in Nat /\ MaxSavepoints \in Nat /\ MaxMutations \in Nat
<1>1. savepoints \in Seq(SavepointRecord) /\ mutations \in Seq(MutationRecord)
  BY DEF StackInv, StackOK, UndoInv
<1>2. \A i \in DOMAIN savepoints : savepoints[i] \in SavepointRecord
  BY <1>1, LenProperties
<1>3. \A x \in SavepointRecord : x.mark \in Nat
  BY SavepointConstants DEF SavepointRecord, Sequence
<1> QED
  BY <1>1, <1>2, <1>3, LenProperties, SavepointConstants DEF StackInv, UndoInv

LEMMA PrefixOK ==
  ASSUME StackInv, NEW k \in Nat, k <= Len(savepoints)
  PROVE  StackOK(SubSeq(savepoints, 1, k))
<1> DEFINE s == SubSeq(savepoints, 1, k)
<1>1. savepoints \in Seq(SavepointRecord) /\ Len(savepoints) \in Nat
  BY StackFacts DEF StackInv, StackOK
<1>2. /\ s \in Seq(SavepointRecord) /\ Len(s) = k /\ DOMAIN s = 1 .. k
      /\ \A i \in 1 .. k : s[i] = savepoints[i] /\ i \in DOMAIN savepoints
  BY <1>1, SubSeqProperties, StackFacts
<1> HIDE DEF s
<1>3. NamesAgree(s)
  BY <1>2 DEF StackInv, StackOK, NamesAgree
<1>4. Len(s) <= MaxSavepoints
  BY <1>1, <1>2, StackFacts DEF StackInv, StackOK
<1> QED
  BY <1>2, <1>3, <1>4 DEF StackOK, s

LEMMA WithoutOK ==
  ASSUME StackInv, NEW drop
  PROVE  LET s == Without(savepoints, drop) IN
         /\ StackOK(s) /\ Dropped(s, savepoints, drop)
         /\ Len(s) \in Nat /\ DOMAIN s = 1 .. Len(s)
<1> DEFINE s == Without(savepoints, drop)
<1>1. savepoints \in Seq(SavepointRecord) /\ NamesAgree(savepoints)
  BY DEF StackInv, StackOK
<1>2. Dropped(s, savepoints, drop)
  BY <1>1, WithoutFacts
<1> HIDE DEF s
<1>3. s \in Seq(SavepointRecord) /\ Len(s) <= Len(savepoints)
      /\ \A i \in DOMAIN s : \E j \in DOMAIN savepoints : savepoints[j] = s[i]
  BY <1>1, <1>2 DEF Dropped
<1>4. Len(s) \in Nat /\ DOMAIN s = 1 .. Len(s)
  BY <1>3, LenProperties
<1>5. Len(s) <= MaxSavepoints
  BY <1>3, <1>4, StackFacts DEF StackInv, StackOK
<1>6. NamesAgree(s)
  BY <1>1, <1>3 DEF NamesAgree
<1>7. StackOK(s)
  BY <1>3, <1>5, <1>6 DEF StackOK
<1> QED
  BY <1>2, <1>4, <1>7 DEF s

\* A nonempty set of places in a stack has a first and a last one.
LEMMA FirstAndLast ==
  ASSUME NEW N \in Nat, NEW M, M \subseteq 1 .. N, M # {}
  PROVE  Min(M) \in M /\ Max(M) \in M
<1> DEFINE T == {N - i : i \in M}
<1>1. M \subseteq Nat /\ T \subseteq Nat /\ T # {}
  <2>1. \A i \in M : i \in Nat /\ N - i \in Nat
    OBVIOUS
  <2> QED
    BY <2>1
<1>2. PICK m \in M : \A i \in M : m <= i
  BY <1>1, LeastNatural
<1>3. PICK d \in T : \A e \in T : d <= e
  BY <1>1, LeastNatural
<1>4. PICK g \in M : d = N - g
  BY <1>3
<1>5. \A i \in M : g >= i
  <2> TAKE i \in M
  <2>1. N - g <= N - i
    BY <1>3, <1>4
  <2> QED
    BY <1>1, <2>1
<1>6. \A i \in M : m =< i
  BY <1>2
<1>7. Min(M) \in M
  BY <1>6 DEF Min
<1>8. Max(M) \in M
  BY <1>5 DEF Max
<1> QED
  BY <1>7, <1>8

\* The first and the last savepoint of a name are savepoints of it.
LEMMA MineFacts ==
  ASSUME StackInv, NEW name, Mine(name) # {}
  PROVE  Min(Mine(name)) \in Mine(name) /\ Max(Mine(name)) \in Mine(name)
<1>1. Mine(name) \subseteq 1 .. Len(savepoints) /\ Len(savepoints) \in Nat
  BY StackFacts DEF Mine
<1> QED
  BY <1>1, FirstAndLast

\* Any savepoint of a name gives its mark.
LEMMA NameFinds ==
  ASSUME NEW s, StackOK(s), NEW t, NEW name, NEW k \in DOMAIN s, s[k].txn = t, s[k].name = name
  PROVE  LET M == {i \in DOMAIN s : s[i].txn = t /\ s[i].name = name}
         IN  M # {} /\ s[Max(M)] = s[k]
<1> DEFINE M == {i \in DOMAIN s : s[i].txn = t /\ s[i].name = name}
<1>1. Len(s) \in Nat /\ DOMAIN s = 1 .. Len(s)
  BY LenProperties DEF StackOK
<1>2. k \in M /\ M \subseteq 1 .. Len(s)
  BY <1>1
<1>3. Max(M) \in M
  BY <1>1, <1>2, FirstAndLast
<1> QED
  BY <1>2, <1>3 DEF StackOK, NamesAgree

LEMMA CreateStack ==
  ASSUME StackInv, NEW name \in Names, NEW mark \in Sequence, Create(name, mark)
  PROVE  StackOK(savepoints')
<1> DEFINE drop == {savepoints[i] : i \in Mine(name)}
           others == Without(savepoints, drop)
           new == [txn |-> txn, name |-> name, mark |-> mark]
<1>1. Len(others) < MaxSavepoints /\ savepoints' = Append(others, new)
  BY DEF Create
<1>2. /\ StackOK(others) /\ Len(others) \in Nat /\ DOMAIN others = 1 .. Len(others)
      /\ Dropped(others, savepoints, drop)
  BY WithoutOK
<1>3. new \in SavepointRecord /\ new.txn = txn /\ new.name = name
  BY DEF StackInv, UndoInv, SavepointRecord
<1>4. \A i \in DOMAIN others : ~(others[i].txn = txn /\ others[i].name = name)
  <2> HIDE DEF others
  <2> SUFFICES ASSUME NEW i \in DOMAIN others, others[i].txn = txn, others[i].name = name
               PROVE  FALSE
    OBVIOUS
  <2>1. others[i] \notin drop /\ \E j \in DOMAIN savepoints : savepoints[j] = others[i]
    <3> HIDE DEF drop
    <3> QED
      BY <1>2 DEF Dropped
  <2>2. PICK j \in DOMAIN savepoints : savepoints[j] = others[i]
    BY <2>1
  <2>3. j \in Mine(name)
    BY <2>2 DEF Mine
  <2> QED
    BY <2>1, <2>2, <2>3
<1> HIDE DEF new, others
<1>5. others \in Seq(SavepointRecord)
  BY <1>2 DEF StackOK
<1>6. /\ savepoints' \in Seq(SavepointRecord) /\ Len(savepoints') = Len(others) + 1
      /\ \A i \in 1 .. Len(others) : savepoints'[i] = others[i]
      /\ savepoints'[Len(others) + 1] = new
  BY <1>1, <1>3, <1>5, AppendProperties
<1>7. DOMAIN savepoints' = DOMAIN others \cup {Len(others) + 1}
  BY <1>2, <1>6, LenProperties
<1>8. NamesAgree(savepoints')
  BY <1>2, <1>3, <1>4, <1>6, <1>7 DEF StackOK, NamesAgree
<1>9. Len(savepoints') <= MaxSavepoints
  BY <1>1, <1>2, <1>6, StackFacts
<1> QED
  BY <1>6, <1>8, <1>9 DEF StackOK

\* Release and RollbackTo cut the stack at the savepoint.
LEMMA CutStack ==
  ASSUME StackInv, NEW name \in Names, Release(name) \/ RollbackTo(name)
  PROVE  StackOK(savepoints')
<1>1. /\ Mine(name) # {} /\ mutations' = mutations
      /\ \E k \in {Min(Mine(name)) - 1, Min(Mine(name))} : savepoints' = SubSeq(savepoints, 1, k)
  BY DEF Release, RollbackTo
<1>2. Min(Mine(name)) \in 1 .. Len(savepoints) /\ Len(savepoints) \in Nat
  BY <1>1, MineFacts, StackFacts DEF Mine
<1>3. PICK k \in Nat : k <= Len(savepoints) /\ savepoints' = SubSeq(savepoints, 1, k)
  BY <1>1, <1>2
<1> QED
  BY <1>1, <1>3, PrefixOK

LEMMA MarkedStack ==
  ASSUME StackInv, NEW mark, MarkRollbackApplied(mark)
  PROVE  /\ StackOK(savepoints') /\ Len(mutations)' = Len(mutations)
         /\ Dropped(savepoints', savepoints, {savepoints[i] : i \in MineAfter(mark)})
<1>1. savepoints' = Without(savepoints, {savepoints[i] : i \in MineAfter(mark)})
  BY DEF MarkRollbackApplied
<1>2. Len(mutations') = Len(mutations)
  <2>1. mutations' \in Seq(MutationRecord) /\ DOMAIN mutations' = DOMAIN mutations
    BY MarkedMutations DEF StackInv
  <2>2. DOMAIN mutations' = 1 .. Len(mutations') /\ Len(mutations') \in Nat
    BY <2>1, LenProperties
  <2> QED
    BY <2>1, <2>2, StackFacts
<1> QED
  BY <1>1, <1>2, WithoutOK

LEMMA StackInitial == Init => StackInv
<1> SUFFICES ASSUME Init PROVE StackInv
  OBVIOUS
<1>1. UndoInv
  BY UndoInitial
<1>2. /\ savepoints = <<>> /\ savepoints \in Seq(SavepointRecord) /\ Len(savepoints) = 0
      /\ DOMAIN savepoints = {} /\ DOMAIN mutations = {} /\ Len(mutations) = 0
      /\ last \in Decisions
  BY EmptySeq DEF Init, Decisions
<1>3. StackOK(savepoints)
  BY <1>2, SavepointConstants DEF StackOK, NamesAgree
<1> QED
  BY <1>1, <1>2, <1>3, SavepointConstants DEF StackInv

LEMMA RecordedFacts ==
  ASSUME StackInv, NEW kind, NEW undo, RecordMutation(kind, undo)
  PROVE  /\ Len(mutations') = Len(mutations) + 1
         /\ DOMAIN mutations' = DOMAIN mutations \cup {Len(mutations) + 1}
         /\ \A i \in DOMAIN mutations : mutations'[i] = mutations[i]
         /\ mutations'[Len(mutations) + 1].txn = txn
         /\ mutations'[Len(mutations) + 1].undo = undo
<1> DEFINE new == [txn |-> txn, kind |-> kind, undo |-> undo, rolledBack |-> FALSE]
<1>1. mutations' = Append(mutations, new)
  BY DEF RecordMutation
<1>2. mutations \in Seq(MutationRecord \cup {new}) /\ new \in MutationRecord \cup {new}
  BY SeqMonotonic DEF StackInv, UndoInv
<1>3. new.txn = txn /\ new.undo = undo
  OBVIOUS
<1> HIDE DEF new
<1>4. /\ mutations' \in Seq(MutationRecord \cup {new})
      /\ Len(mutations') = Len(mutations) + 1
      /\ \A i \in 1 .. Len(mutations) : mutations'[i] = mutations[i]
      /\ mutations'[Len(mutations) + 1] = new
  BY <1>1, <1>2, AppendProperties
<1>5. DOMAIN mutations' = 1 .. Len(mutations) + 1
  BY <1>4, LenProperties
<1> QED
  BY <1>3, <1>4, <1>5, StackFacts

LEMMA StackStep ==
  ASSUME StackInv, [Next]_savepointVars
  PROVE  StackInv'
<1>1. UndoInv'
  BY UndoStep DEF StackInv
<1>2. ASSUME NEW name \in Names, NEW mark \in Sequence,
             Create(name, mark) \/ Release(name) \/ RollbackTo(name)
      PROVE  StackInv'
  <2>1. StackOK(savepoints')
    BY <1>2, CreateStack, CutStack
  <2>2. UNCHANGED <<txn, mutations, last>>
    BY <1>2 DEF Create, Release, RollbackTo
  <2> QED
    BY <1>1, <2>1, <2>2 DEF StackInv
<1>3. ASSUME UNCHANGED <<txn, savepoints, mutations>>, last' \in Decisions PROVE StackInv'
  BY <1>1, <1>3 DEF StackInv
<1>4. ASSUME NEW mark, MarkRollbackApplied(mark), txn' = txn, last' \in Decisions
      PROVE  StackInv'
  <2>1. StackOK(savepoints') /\ Len(mutations)' = Len(mutations)
    BY <1>4, MarkedStack
  <2>2. \A i \in DOMAIN mutations' : mutations'[i].txn <= txn
    BY <1>4, MarkedMutations DEF StackInv
  <2> QED
    BY <1>1, <1>4, <2>1, <2>2 DEF StackInv
<1>5. ASSUME NEW name \in Names, ApplyRollbackTo(name) PROVE StackInv'
  BY <1>3, <1>4, <1>5 DEF ApplyRollbackTo, RefuseRollback, Decisions
<1>6. ASSUME NEW name \in Names, NEW supported, NEW failing,
             ExecuteRollbackTo(name, supported, failing)
      PROVE  StackInv'
  <2>1. last' \in Decisions /\ txn' = txn
        /\ (MarkRollbackApplied(Mark(name)) \/ UNCHANGED <<savepoints, mutations>>)
    BY <1>6 DEF ExecuteRollbackTo, Decisions
  <2> QED
    BY <1>3, <1>4, <2>1
<1>7. ASSUME NEW kind, NEW undo, RecordMutation(kind, undo) PROVE StackInv'
  <2>1. /\ Len(mutations') = Len(mutations) + 1
        /\ DOMAIN mutations' = DOMAIN mutations \cup {Len(mutations) + 1}
        /\ \A i \in DOMAIN mutations : mutations'[i] = mutations[i]
        /\ mutations'[Len(mutations) + 1].txn = txn
    BY <1>7, RecordedFacts
  <2>2. UNCHANGED <<txn, savepoints, last>> /\ Len(mutations) < MaxMutations
    BY <1>7 DEF RecordMutation
  <2>3. Len(mutations') <= MaxMutations
    BY <2>1, <2>2, StackFacts
  <2>4. StackOK(savepoints)
    BY DEF StackInv
  <2>5. \A i \in DOMAIN mutations' : mutations'[i].txn <= txn
    <3>1. txn <= txn
      BY StackFacts
    <3> QED
      BY <2>1, <3>1 DEF StackInv
  <2> QED
    BY <1>1, <2>2, <2>3, <2>4, <2>5 DEF StackInv
<1>8. CASE EndTransaction
  <2>1. txn' = txn + 1 /\ UNCHANGED <<savepoints, mutations, last>>
    BY <1>8 DEF EndTransaction
  <2>2. \A i \in DOMAIN mutations : mutations[i].txn <= txn + 1
    <3> TAKE i \in DOMAIN mutations
    <3>1. mutations[i].txn \in Nat /\ mutations[i].txn <= txn
      <4>1. mutations[i] \in MutationRecord
        BY LenProperties DEF StackInv, UndoInv
      <4> QED
        BY <4>1, SavepointConstants DEF StackInv, MutationRecord
    <3> QED
      BY <3>1, StackFacts
  <2> QED
    BY <1>1, <2>1, <2>2 DEF StackInv
<1>9. CASE ResetSession
  <2>1. /\ savepoints' = <<>> /\ savepoints' \in Seq(SavepointRecord) /\ Len(savepoints') = 0
        /\ DOMAIN savepoints' = {} /\ DOMAIN mutations' = {} /\ Len(mutations') = 0
        /\ last' = last
    BY <1>9, EmptySeq DEF ResetSession
  <2>2. StackOK(savepoints')
    BY <2>1, SavepointConstants DEF StackOK, NamesAgree
  <2> QED
    BY <1>1, <2>1, <2>2, SavepointConstants DEF StackInv
<1>10. CASE UNCHANGED savepointVars
  BY <1>3, <1>10 DEF savepointVars, StackInv
<1>11. 0 \in Sequence
  BY SavepointConstants DEF Sequence
<1> QED
  BY <1>2, <1>5, <1>6, <1>7, <1>8, <1>9, <1>10, <1>11 DEF Next

\* Stack, mutations and pages keep their types, for any depth and number of
\* mutations.
THEOREM SavepointTypes == Spec => []SavepointsTypeOK
<1>1. StackInv => SavepointsTypeOK
  BY DEF StackInv, StackOK, UndoInv, SavepointsTypeOK
<1> QED
  BY <1>1, StackInitial, StackStep, PTL DEF Spec

-----------------------------------------------------------------------------
(***************************************************************************)
(* What was undone and is not marked can still be marked.                  *)
(***************************************************************************)
\* A rollback that can be planned can be planned after a step that keeps its
\* savepoint and adds no mutation that cannot be undone.
LEMMA PlanKept ==
  ASSUME StackInv, StackOK(savepoints'), txn' = txn,
         NEW name, CanPlanRollbackTo(name),
         \E j \in DOMAIN savepoints' : savepoints'[j] = savepoints[Max(Mine(name))],
         \A j \in DOMAIN mutations' : mutations'[j].txn = txn /\ ~mutations'[j].rolledBack =>
            \/ mutations'[j].undo
            \/ /\ j \in DOMAIN mutations /\ mutations[j].txn = txn /\ ~mutations[j].rolledBack
               /\ mutations'[j].undo = mutations[j].undo,
         NEW i \in RollbackActions(name), i \in DOMAIN mutations', mutations'[i].txn = txn,
         ~mutations'[i].rolledBack
  PROVE  CanPlanRollbackTo(name)' /\ i \in RollbackActions(name)'
<1> DEFINE k == Max(Mine(name))
<1>1. Mine(name) # {} /\ \A j \in RollbackActions(name) : mutations[j].undo
  BY DEF CanPlanRollbackTo
<1>2. k \in DOMAIN savepoints /\ savepoints[k].txn = txn /\ savepoints[k].name = name
  BY <1>1, MineFacts DEF Mine
<1>3. Mark(name) = savepoints[k].mark
  BY DEF Mark
<1> HIDE DEF k
<1>4. PICK j \in DOMAIN savepoints' : savepoints'[j] = savepoints[k]
  BY DEF k
<1>5. LET M == {h \in DOMAIN savepoints' : savepoints'[h].txn = txn /\ savepoints'[h].name = name}
      IN  M # {} /\ savepoints'[Max(M)] = savepoints'[j]
  BY <1>2, <1>4, NameFinds
<1>6. Mine(name)' =
        {h \in DOMAIN savepoints' : savepoints'[h].txn = txn /\ savepoints'[h].name = name}
  BY DEF Mine
<1>7. Mine(name)' # {} /\ Mark(name)' = Mark(name)
  BY <1>3, <1>4, <1>5, <1>6 DEF Mark
<1>8. \A h \in RollbackActions(name)' : mutations'[h].undo
  <2> SUFFICES ASSUME NEW h \in DOMAIN mutations', mutations'[h].txn = txn, h > Mark(name),
                      ~mutations'[h].rolledBack
               PROVE  mutations'[h].undo
    BY <1>7 DEF RollbackActions
  <2>1. CASE mutations'[h].undo
    BY <2>1
  <2>2. CASE /\ h \in DOMAIN mutations /\ mutations[h].txn = txn /\ ~mutations[h].rolledBack
             /\ mutations'[h].undo = mutations[h].undo
    <3>1. h \in RollbackActions(name)
      BY <2>2 DEF RollbackActions
    <3> QED
      BY <1>1, <2>2, <3>1
  <2> QED
    BY <2>1, <2>2
<1>9. i > Mark(name)
  BY DEF RollbackActions
<1> QED
  BY <1>7, <1>8, <1>9 DEF CanPlanRollbackTo, RollbackActions

\* A rollback that succeeds drops no savepoint at or below its mark, and what
\* it does not mark is at or below it.
LEMMA MarkingCompletable ==
  ASSUME StackInv, Completable, NEW mark \in Nat, MarkRollbackApplied(mark), txn' = txn,
         \A i \in DOMAIN mutations : i \in present /\ i \notin present' =>
            mutations[i].txn = txn /\ i > mark
  PROVE  Completable'
<1> SUFFICES ASSUME NEW i \in DOMAIN mutations', mutations'[i].txn = txn, i \notin present',
                    ~mutations'[i].rolledBack
             PROVE  \E name \in Names :
                      CanPlanRollbackTo(name)' /\ i \in RollbackActions(name)'
  BY DEF Completable
<1>0. /\ DOMAIN mutations' = DOMAIN mutations
      /\ \A j \in DOMAIN mutations :
           /\ mutations'[j].txn = mutations[j].txn
           /\ mutations'[j].undo = mutations[j].undo
           /\ ~mutations'[j].rolledBack =>
                ~mutations[j].rolledBack /\ ~(mutations[j].txn = txn /\ j > mark)
  BY MarkedMutations DEF StackInv
<1>1. /\ i \in DOMAIN mutations /\ mutations[i].txn = txn /\ ~mutations[i].rolledBack
      /\ ~(i > mark)
  BY <1>0
<1>2. i \notin present
  BY <1>1
<1>3. PICK name \in Names : CanPlanRollbackTo(name) /\ i \in RollbackActions(name)
  BY <1>1, <1>2 DEF Completable
<1> DEFINE k == Max(Mine(name))
<1>4. k \in DOMAIN savepoints /\ savepoints[k].mark < i
  <2>1. k \in DOMAIN savepoints
    BY <1>3, MineFacts DEF Mine, CanPlanRollbackTo
  <2>2. i > savepoints[k].mark
    BY <1>3 DEF RollbackActions, Mark
  <2> HIDE DEF k
  <2> QED
    BY <1>1, <2>1, <2>2, StackFacts
<1> HIDE DEF k
<1>5. savepoints[k] \notin {savepoints[j] : j \in MineAfter(mark)}
  <2> SUFFICES ASSUME NEW j \in MineAfter(mark), savepoints[j] = savepoints[k] PROVE FALSE
    OBVIOUS
  <2>1. savepoints[k].mark > mark
    BY DEF MineAfter
  <2>2. savepoints[k].mark \in Nat /\ i \in Nat
    BY <1>1, <1>4, StackFacts
  <2> QED
    BY <1>1, <1>4, <2>1, <2>2
<1>6. StackOK(savepoints') /\ \E j \in DOMAIN savepoints' : savepoints'[j] = savepoints[k]
  BY <1>4, <1>5, MarkedStack DEF Dropped
<1>7. \A j \in DOMAIN mutations' : mutations'[j].txn = txn /\ ~mutations'[j].rolledBack =>
        /\ j \in DOMAIN mutations /\ mutations[j].txn = txn /\ ~mutations[j].rolledBack
        /\ mutations'[j].undo = mutations[j].undo
  BY <1>0
<1>8. \E j \in DOMAIN savepoints' : savepoints'[j] = savepoints[Max(Mine(name))]
  BY <1>6 DEF k
<1> QED
  BY <1>3, <1>6, <1>7, <1>8, PlanKept

\* A new name takes no savepoint away.
LEMMA CreateCompletable ==
  ASSUME StackInv, StackInv', Completable, NEW name, NEW mark, Create(name, mark), Mine(name) = {}
  PROVE  Completable'
<1> DEFINE others == Without(savepoints, {})
           new == [txn |-> txn, name |-> name, mark |-> mark]
<1>1. savepoints' = Append(others, new) /\ UNCHANGED <<txn, mutations, present>>
  <2>1. {savepoints[i] : i \in Mine(name)} = {}
    OBVIOUS
  <2> QED
    BY <2>1 DEF Create
<1>2. /\ Dropped(others, savepoints, {}) /\ Len(others) \in Nat
      /\ DOMAIN others = 1 .. Len(others) /\ others \in Seq(SavepointRecord)
  BY WithoutOK DEF StackOK
<1> HIDE DEF others, new
<1>3. others \in Seq(SavepointRecord \cup {new}) /\ new \in SavepointRecord \cup {new}
  BY <1>2, SeqMonotonic
<1>4. DOMAIN others \subseteq DOMAIN savepoints' /\ \A j \in DOMAIN others : savepoints'[j] = others[j]
  <2>1. /\ savepoints' \in Seq(SavepointRecord \cup {new})
        /\ Len(savepoints') = Len(others) + 1
        /\ \A j \in 1 .. Len(others) : savepoints'[j] = others[j]
    BY <1>1, <1>3, AppendProperties
  <2>2. DOMAIN savepoints' = 1 .. Len(others) + 1
    BY <2>1, LenProperties
  <2> QED
    BY <1>2, <2>1, <2>2
<1>5. \A k \in DOMAIN savepoints : \E j \in DOMAIN savepoints' : savepoints'[j] = savepoints[k]
  BY <1>2, <1>4 DEF Dropped
<1> SUFFICES ASSUME NEW i \in DOMAIN mutations', mutations'[i].txn = txn, i \notin present',
                    ~mutations'[i].rolledBack
             PROVE  \E other \in Names :
                      CanPlanRollbackTo(other)' /\ i \in RollbackActions(other)'
  BY <1>1 DEF Completable
<1>6. PICK other \in Names : CanPlanRollbackTo(other) /\ i \in RollbackActions(other)
  BY <1>1 DEF Completable
<1>7. Max(Mine(other)) \in DOMAIN savepoints
  BY <1>6, MineFacts DEF Mine, CanPlanRollbackTo
<1>8. StackOK(savepoints')
  BY DEF StackInv
<1> QED
  BY <1>1, <1>5, <1>6, <1>7, <1>8, PlanKept

\* Neither does a mutation that can be undone.
LEMMA RecordCompletable ==
  ASSUME StackInv, StackInv', Completable, NEW kind, RecordMutation(kind, TRUE)
  PROVE  Completable'
<1>1. /\ DOMAIN mutations' = DOMAIN mutations \cup {Len(mutations) + 1}
      /\ \A i \in DOMAIN mutations : mutations'[i] = mutations[i]
      /\ mutations'[Len(mutations) + 1].undo
  BY RecordedFacts
<1>2. /\ present' = present \cup {Len(mutations) + 1} /\ UNCHANGED <<txn, savepoints>>
  BY DEF RecordMutation
<1> SUFFICES ASSUME NEW i \in DOMAIN mutations', mutations'[i].txn = txn, i \notin present',
                    ~mutations'[i].rolledBack
             PROVE  \E name \in Names :
                      CanPlanRollbackTo(name)' /\ i \in RollbackActions(name)'
  BY <1>2 DEF Completable
<1>3. i \in DOMAIN mutations /\ i \notin present
  BY <1>1, <1>2
<1>4. PICK name \in Names : CanPlanRollbackTo(name) /\ i \in RollbackActions(name)
  BY <1>1, <1>3 DEF Completable
<1>5. Max(Mine(name)) \in DOMAIN savepoints'
  BY <1>2, <1>4, MineFacts DEF Mine, CanPlanRollbackTo
<1>6. StackOK(savepoints')
  BY DEF StackInv
<1>7. \A j \in DOMAIN mutations' : mutations'[j].txn = txn /\ ~mutations'[j].rolledBack =>
        \/ mutations'[j].undo
        \/ /\ j \in DOMAIN mutations /\ mutations[j].txn = txn /\ ~mutations[j].rolledBack
           /\ mutations'[j].undo = mutations[j].undo
  BY <1>1
<1>8. \E j \in DOMAIN savepoints' : savepoints'[j] = savepoints[Max(Mine(name))]
  BY <1>2, <1>5
<1> QED
  BY <1>2, <1>4, <1>6, <1>7, <1>8, PlanKept

LEMMA StepCompletable ==
  ASSUME StackInv, Completable, [Next]_savepointVars,
         ~GivesUpSavepoint, ~\E kind \in Kinds : RecordMutation(kind, FALSE)
  PROVE  Completable'
<1>0. StackInv'
  BY StackStep
<1>1. CASE UNCHANGED <<txn, savepoints, mutations, present>>
  BY <1>1 DEF Completable, CanPlanRollbackTo, RollbackActions, Mark, Mine
<1>2. ASSUME NEW name \in Names, Release(name) \/ RollbackTo(name) PROVE Completable'
  BY <1>2 DEF GivesUpSavepoint, Release, RollbackTo
<1>3. ASSUME NEW name \in Names, NEW mark \in Sequence, Create(name, mark) PROVE Completable'
  <2>1. Mine(name) = {}
    BY <1>3 DEF GivesUpSavepoint
  <2> QED
    BY <1>0, <1>3, <2>1, CreateCompletable
<1>4. ASSUME NEW name \in Names, ApplyRollbackTo(name) PROVE Completable'
  <2>1. CASE CanPlanRollbackTo(name) /\ MarkRollbackApplied(Mark(name)) /\ UNCHANGED <<txn, present>>
    <3>1. Mark(name) \in Nat
      BY <2>1, MineFacts, StackFacts DEF CanPlanRollbackTo, Mark, Mine
    <3> QED
      BY <2>1, <3>1, MarkingCompletable
  <2> QED
    BY <1>1, <1>4, <2>1 DEF ApplyRollbackTo, RefuseRollback
<1>5. ASSUME NEW name \in Names, NEW supported, NEW failing,
             ExecuteRollbackTo(name, supported, failing)
      PROVE  Completable'
  <2>1. /\ CanPlanRollbackTo(name) /\ txn' = txn
        /\ \A i \in present : i \notin present' => i \in RollbackActions(name)
        /\ MarkRollbackApplied(Mark(name)) \/ UNCHANGED <<savepoints, mutations>>
    BY <1>5 DEF ExecuteRollbackTo, UndoneBeforeStop
  <2>2. CASE MarkRollbackApplied(Mark(name))
    <3>1. Mark(name) \in Nat
      BY <2>1, MineFacts, StackFacts DEF CanPlanRollbackTo, Mark, Mine
    <3>2. \A i \in DOMAIN mutations : i \in present /\ i \notin present' =>
              mutations[i].txn = txn /\ i > Mark(name)
      BY <2>1 DEF RollbackActions
    <3> QED
      BY <2>1, <2>2, <3>1, <3>2, MarkingCompletable
  <2>3. CASE UNCHANGED <<savepoints, mutations>>
    <3>1. \A other : /\ RollbackActions(other)' = RollbackActions(other)
                     /\ CanPlanRollbackTo(other)' <=> CanPlanRollbackTo(other)
      BY <2>1, <2>3 DEF CanPlanRollbackTo, RollbackActions, Mark, Mine
    <3> QED
      BY <2>1, <2>3, <3>1 DEF Completable
  <2> QED
    BY <2>1, <2>2, <2>3
<1>6. ASSUME NEW kind \in Kinds, NEW undo \in BOOLEAN, RecordMutation(kind, undo) PROVE Completable'
  <2>1. undo = TRUE
    BY <1>6
  <2> QED
    BY <1>0, <1>6, <2>1, RecordCompletable
<1>7. CASE EndTransaction
  <2>1. txn' = txn + 1 /\ mutations' = mutations
    BY <1>7 DEF EndTransaction
  <2>2. \A i \in DOMAIN mutations : mutations[i].txn # txn + 1
    <3> TAKE i \in DOMAIN mutations
    <3>1. mutations[i].txn <= txn /\ txn \in Nat
      BY StackFacts DEF StackInv
    <3> QED
      BY <3>1
  <2> QED
    BY <2>1, <2>2 DEF Completable
<1>8. CASE ResetSession
  <2>1. DOMAIN mutations' = {}
    BY <1>8, EmptySeq DEF ResetSession
  <2> QED
    BY <2>1 DEF Completable
<1> QED
  BY <1>1, <1>2, <1>3, <1>4, <1>5, <1>6, <1>7, <1>8 DEF Next, savepointVars

\* A rollback that failed half way can be completed by a later one until the
\* session gives up a savepoint (Create of its name, Release, RollbackTo) or
\* records a mutation that cannot be undone: no attempt, failed or successful,
\* to this or another savepoint, makes the rollback impossible to plan
\* (PlanRollbackTo, ExecuteRollbackTo, MarkRollbackApplied).
THEOREM OnlyDiscardStrands == Spec => OnlyDiscardStrandsUndo
<1>1. StackInv /\ [Next]_savepointVars
        => [Completable /\ ~Completable'
            => GivesUpSavepoint \/ \E kind \in Kinds : RecordMutation(kind, FALSE)]_savepointVars
  BY StepCompletable
<1> QED
  BY <1>1, StackInitial, StackStep, PTL DEF Spec, OnlyDiscardStrandsUndo
=============================================================================
