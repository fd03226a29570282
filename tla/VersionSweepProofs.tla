------------------------- MODULE VersionSweepProofs -------------------------
(***************************************************************************)
(* Proofs about VersionSweep, for any rows, transactions, versions and     *)
(* crashes.                                                                *)
(***************************************************************************)
EXTENDS VersionSweep, FiniteSetTheorems, WellFoundedInduction, TLAPS

-----------------------------------------------------------------------------
(***************************************************************************)
(* Extrema.  What is chosen by a maximum or a minimum exists.              *)
(***************************************************************************)
LEMMA LeastNatural ==
  ASSUME NEW S, S \subseteq Nat, S # {}
  PROVE  \E m \in S : \A n \in S : m <= n
<1> DEFINE less == {ss \in Nat \X Nat : ss[1] < ss[2]}
<1>1. less = OpToRel(<, Nat)
  BY DEF OpToRel
<1>2. IsWellFoundedOn(less, Nat)
  BY <1>1, NatLessThanWellFounded
<1>3. PICK m \in S : \A n \in S : <<n, m>> \notin less
  <2> HIDE DEF less
  <2> QED
    BY <1>2, WFMin
<1>4. \A n \in S : ~(n < m)
  <2> TAKE n \in S
  <2>1. <<n, m>> \in Nat \X Nat /\ <<n, m>>[1] = n /\ <<n, m>>[2] = m
    OBVIOUS
  <2> QED
    BY <1>3, <2>1
<1> HIDE DEF less
<1> QED
  BY <1>4

LEMMA GreatestBounded ==
  ASSUME NEW N \in Nat, NEW S, S \subseteq 0 .. N, S # {}
  PROVE  \E m \in S : \A x \in S : x <= m
<1> DEFINE T == {N - x : x \in S}
<1>1. \A x \in S : N - x \in Nat /\ x \in Nat
  OBVIOUS
<1>2. T \subseteq Nat /\ T # {}
  BY <1>1
<1>3. PICK m \in T : \A n \in T : m <= n
  BY <1>2, LeastNatural
<1>4. PICK x \in S : m = N - x
  BY <1>3
<1>5. \A y \in S : y <= x
  BY <1>1, <1>3, <1>4
<1> QED
  BY <1>5

LEMMA MaxOfBounded ==
  ASSUME NEW N \in Nat, NEW S, S \subseteq 0 .. N, S # {}
  PROVE  Max(S) \in S /\ \A x \in S : x <= Max(S)
<1>1. PICK m \in S : \A x \in S : x <= m
  BY GreatestBounded
<1>2. \A x \in S : m >= x
  BY <1>1
<1>3. Max(S) \in S /\ \A y \in S : Max(S) >= y
  BY <1>2 DEF Max
<1> QED
  BY <1>3

LEMMA MinOfNaturals ==
  ASSUME NEW S, S \subseteq Nat, S # {}
  PROVE  Min(S) \in S /\ \A x \in S : Min(S) <= x
<1>1. PICK m \in S : \A x \in S : m <= x
  BY LeastNatural
<1>2. \A x \in S : m =< x
  BY <1>1
<1> QED
  BY <1>2 DEF Min

LEMMA VersionFields ==
  ASSUME NEW v \in Version
  PROVE  /\ v.row \in Rows /\ v.creator \in Txns /\ v.version \in VersionNumbers
         /\ v.next \in 0 .. MaxVersions /\ v.deleted \in BOOLEAN
         /\ v.version \in Nat /\ v.version # 0 /\ v.version \in 0 .. MaxVersions
         /\ v # NoVersion
<1>1. /\ v.row \in Rows /\ v.creator \in Txns /\ v.version \in VersionNumbers
      /\ v.next \in 0 .. MaxVersions /\ v.deleted \in BOOLEAN
  BY DEF Version
<1>2. v.version \in Nat /\ v.version # 0 /\ v.version \in 0 .. MaxVersions
  BY <1>1, RowConstants DEF VersionNumbers
<1>3. NoVersion.version = 0
  BY DEF NoVersion
<1> QED
  BY <1>1, <1>2, <1>3

LEMMA NewestFacts ==
  ASSUME NEW V, V \subseteq Version, V # {}
  PROVE  /\ Newest(V) \in V /\ Newest(V) # NoVersion
         /\ \A w \in V : w.version <= Newest(V).version
<1> DEFINE S == {v.version : v \in V}
<1>1. S \subseteq 0 .. MaxVersions /\ S # {}
  BY VersionFields
<1>2. PICK m \in S : \A x \in S : x <= m
  BY <1>1, GreatestBounded, RowConstants
<1>3. PICK v \in V : m = v.version
  BY <1>2
<1>4. \A w \in V : w.version <= v.version
  BY <1>2, <1>3
<1>5. Newest(V) \in V /\ \A w \in V : w.version <= Newest(V).version
  BY <1>4 DEF Newest
<1> QED
  BY <1>5, VersionFields

LEMMA NewestOfNone == Newest({}) = NoVersion /\ NoVersion.version = 0
BY DEF Newest, NoVersion

\* With distinct version numbers the newest is determined.
LEMMA NewestUnique ==
  ASSUME NEW V, V \subseteq Version, NEW v \in V,
         \A a, b \in V : a.version = b.version => a = b,
         \A w \in V : w.version <= v.version
  PROVE  Newest(V) = v
<1>1. Newest(V) \in V /\ v.version <= Newest(V).version
  BY NewestFacts
<1>2. Newest(V).version <= v.version
  BY <1>1
<1>3. Newest(V).version \in Nat /\ v.version \in Nat
  BY <1>1, VersionFields
<1>4. Newest(V).version = v.version
  BY <1>1, <1>2, <1>3
<1> QED
  BY <1>1, <1>4

-----------------------------------------------------------------------------
(***************************************************************************)
(* The invariant of the page.  It speaks of an arbitrary inventory x, next *)
(* numbers nt and nc, and page p.  A version whose writer runs has only    *)
(* versions of that writer and undone ones above it, because a writer      *)
(* waits for others' pending versions; so commits stack up in the order of *)
(* their numbers, whatever was removed in between.                         *)
(***************************************************************************)
Runs(x, c) == x[c].state \in {"active", "prepared"}
Done(x, c) == x[c].state = "committed"

TxnsOK(x, nt, nc) ==
    /\ x \in [Txns -> [state : States, commit : Nat]]
    /\ nt \in 1 .. MaxTxn + 1
    /\ nc \in Nat \ {0}
    /\ \A c \in Txns : x[c].state = "none" <=> c >= nt
    /\ \A c \in Txns : Done(x, c) => x[c].commit < nc
    /\ \A c \in Txns : ~Done(x, c) => x[c].commit = 0
    /\ Cardinality({c \in Txns : Done(x, c)}) = nc - 1

RunsOnTop(x, p) ==
    \A v, w \in p :
      /\ v.row = w.row /\ v.version < w.version
      /\ Runs(x, v.creator) /\ x[w.creator].state # "rolled_back"
      => w.creator = v.creator

CommitsInOrder(x, p) ==
    \A v, w \in p :
      /\ v.row = w.row /\ v.version < w.version
      /\ Done(x, v.creator) /\ Done(x, w.creator)
      => x[v.creator].commit <= x[w.creator].commit

PageOK(nt, p) ==
    /\ p \subseteq Version
    /\ \A v, w \in p : v.row = w.row /\ v.version = w.version => v = w
    /\ \A v \in p : v.creator < nt /\ (v.next = 0 \/ v.next > v.version)

\* What a failed owned mutation left without a report belongs to a writer
\* that is undone.
LeftoversOK(x, left) ==
    /\ left \subseteq (Rows \X Txns \X VersionNumbers)
    /\ \A e \in left : x[e[2]].state = "rolled_back"

PageInv ==
    /\ TxnsOK(txn, nextTxn, nextCommit)
    /\ PageOK(nextTxn, page)
    /\ RunsOnTop(txn, page)
    /\ CommitsInOrder(txn, page)
    /\ LeftoversOK(txn, leftovers)

\* How one step may change the inventory x into y.
Moves(x, y) ==
    \A c \in Txns :
      /\ Done(x, c) => y[c] = x[c]
      /\ x[c].state = "rolled_back" => y[c].state = "rolled_back"
      /\ Runs(y, c) => Runs(x, c) \/ x[c].state = "none"
      /\ Done(y, c) => Done(x, c) \/ Runs(x, c)

LEMMA TxnFacts ==
  ASSUME NEW x, NEW nt, NEW nc, TxnsOK(x, nt, nc)
  PROVE  /\ nt \in Nat /\ nt >= 1 /\ nt <= MaxTxn + 1 /\ nc \in Nat /\ nc >= 1
         /\ \A c \in Txns : /\ c \in Nat /\ c >= 1 /\ c <= MaxTxn
                            /\ x[c].state \in States /\ x[c].commit \in Nat
                            /\ x[c] = [state |-> x[c].state, commit |-> x[c].commit]
         /\ nc <= nt
<1>1. /\ nt \in Nat /\ nt >= 1 /\ nt <= MaxTxn + 1 /\ nc \in Nat /\ nc >= 1
      /\ \A c \in Txns : /\ c \in Nat /\ c >= 1 /\ c <= MaxTxn
                         /\ x[c].state \in States /\ x[c].commit \in Nat
                         /\ x[c] = [state |-> x[c].state, commit |-> x[c].commit]
  BY RowConstants DEF TxnsOK, Txns
<1> DEFINE D == {c \in Txns : Done(x, c)}
<1>2. D \subseteq 1 .. (nt - 1)
  <2>1. ASSUME NEW c \in Txns, Done(x, c) PROVE c \in 1 .. (nt - 1)
    <3>1. x[c].state # "none" /\ (x[c].state = "none" <=> c >= nt)
      BY <2>1 DEF TxnsOK, Done
    <3>2. ~(c >= nt) /\ c \in Nat /\ c >= 1 /\ nt \in Nat
      BY <1>1, <3>1
    <3> QED
      BY <3>2
  <2> QED
    BY <2>1
<1>3. IsFiniteSet(1 .. (nt - 1)) /\ Cardinality(1 .. (nt - 1)) = nt - 1
  BY <1>1, FS_Interval
<1>4. Cardinality(D) <= nt - 1
  BY <1>2, <1>3, FS_Subset
<1>5. Cardinality(D) = nc - 1
  BY DEF TxnsOK
<1> QED
  BY <1>1, <1>4, <1>5

-----------------------------------------------------------------------------
(***************************************************************************)
(* The steps of the inventory.                                             *)
(***************************************************************************)
\* Whoever commits in the step has the greatest commit number.
CommitsLast(x, y) ==
    \A b, c \in Txns : Done(y, b) /\ ~Done(x, b) /\ Done(y, c) => y[c].commit <= y[b].commit

Stepped(x, y, nt, nc) == TxnsOK(y, nt, nc) /\ Moves(x, y) /\ CommitsLast(x, y)

Only(x, y, t) == \A c \in Txns : c # t => y[c] = x[c]

LEMMA BeginMoves ==
  ASSUME NEW x, NEW nt, NEW nc, TxnsOK(x, nt, nc), nt \in Txns,
         NEW state \in {"active", "rolled_back"}, NEW y, y = [x EXCEPT ![nt].state = state]
  PROVE  Stepped(x, y, nt + 1, nc) /\ y[nt].state = state /\ Only(x, y, nt)
<1>1. /\ nt \in Nat /\ nt >= 1 /\ nt <= MaxTxn + 1
      /\ \A c \in Txns : c \in Nat /\ c <= MaxTxn /\ x[c].state \in States /\ x[c].commit \in Nat
      /\ x \in [Txns -> [state : States, commit : Nat]] /\ MaxTxn \in Nat
  BY TxnFacts, RowConstants DEF TxnsOK
<1>2. x[nt].state = "none" /\ x[nt].commit = 0
  BY <1>1 DEF TxnsOK, Done
<1>3. /\ y \in [Txns -> [state : States, commit : Nat]]
      /\ y[nt].state = state /\ y[nt].commit = 0
      /\ \A c \in Txns : c # nt => y[c] = x[c]
  BY <1>1, <1>2 DEF States
<1>4. \A c \in Txns : Done(y, c) <=> Done(x, c)
  BY <1>2, <1>3 DEF Done
<1>5. {c \in Txns : Done(y, c)} = {c \in Txns : Done(x, c)}
  BY <1>4
<1>6. \A c \in Txns : y[c].state = "none" <=> c >= nt + 1
  <2> TAKE c \in Txns
  <2>1. CASE c = nt
    BY <1>1, <1>3, <2>1
  <2>2. CASE c # nt
    <3>1. y[c].state = "none" <=> c >= nt
      BY <1>3, <2>2 DEF TxnsOK
    <3> QED
      BY <1>1, <2>2, <3>1
  <2> QED
    BY <2>1, <2>2
<1>7. \A c \in Txns : /\ Done(y, c) => y[c].commit < nc
                      /\ ~Done(y, c) => y[c].commit = 0
  BY <1>2, <1>3, <1>4 DEF TxnsOK
<1>8. nt + 1 \in 1 .. MaxTxn + 1
  BY <1>1 DEF Txns
<1>9. TxnsOK(y, nt + 1, nc)
  BY <1>3, <1>5, <1>6, <1>7, <1>8 DEF TxnsOK
<1>10. Moves(x, y)
  BY <1>2, <1>3, <1>4 DEF Moves, Done, Runs
<1>11. CommitsLast(x, y)
  BY <1>4 DEF CommitsLast
<1> QED
  BY <1>3, <1>9, <1>10, <1>11 DEF Stepped, Only

LEMMA EndMoves ==
  ASSUME NEW x, NEW nt, NEW nc, TxnsOK(x, nt, nc), NEW t \in Txns, Runs(x, t),
         NEW y, y \in [Txns -> [state : States, commit : Nat]], Only(x, y, t),
         y[t].state \in {"prepared", "rolled_back"}, y[t].commit = x[t].commit
  PROVE  Stepped(x, y, nt, nc)
<1>1. /\ x \in [Txns -> [state : States, commit : Nat]] /\ MaxTxn \in Nat
      /\ nt \in 1 .. MaxTxn + 1 /\ nc \in Nat \ {0}
      /\ x[t].state # "none" /\ ~Done(x, t)
  BY RowConstants DEF TxnsOK, Runs, Done
<1>2. ~(t >= nt) /\ x[t].commit = 0
  BY <1>1 DEF TxnsOK
<1>3. /\ y \in [Txns -> [state : States, commit : Nat]]
      /\ y[t].state \in {"prepared", "rolled_back"} /\ y[t].commit = x[t].commit
      /\ \A c \in Txns : c # t => y[c] = x[c]
  BY DEF Only
<1>4. \A c \in Txns : Done(y, c) <=> Done(x, c)
  BY <1>1, <1>3 DEF Done
<1>5. {c \in Txns : Done(y, c)} = {c \in Txns : Done(x, c)}
  BY <1>4
<1>6. \A c \in Txns : y[c].state = "none" <=> c >= nt
  BY <1>2, <1>3 DEF TxnsOK
<1>7. \A c \in Txns : /\ Done(y, c) => y[c].commit < nc
                      /\ ~Done(y, c) => y[c].commit = 0
  BY <1>3, <1>4 DEF TxnsOK
<1>8. TxnsOK(y, nt, nc)
  BY <1>1, <1>3, <1>5, <1>6, <1>7 DEF TxnsOK
<1>9. Moves(x, y)
  BY <1>1, <1>3, <1>4 DEF Moves, Done, Runs
<1>10. CommitsLast(x, y)
  BY <1>4 DEF CommitsLast
<1> QED
  BY <1>3, <1>8, <1>9, <1>10 DEF Stepped, Only

LEMMA CommitMoves ==
  ASSUME NEW x, NEW nt, NEW nc, TxnsOK(x, nt, nc), NEW t \in Txns, Runs(x, t),
         NEW y, y = [x EXCEPT ![t] = [state |-> "committed", commit |-> nc]]
  PROVE  Stepped(x, y, nt, nc + 1) /\ Done(y, t) /\ Only(x, y, t)
<1>1. /\ x \in [Txns -> [state : States, commit : Nat]] /\ MaxTxn \in Nat
      /\ nt \in 1 .. MaxTxn + 1 /\ nc \in Nat \ {0}
      /\ x[t].state # "none" /\ ~Done(x, t)
      /\ \A c \in Txns : x[c].commit \in Nat
  BY RowConstants, TxnFacts DEF TxnsOK, Runs, Done
<1>2. ~(t >= nt)
  BY <1>1 DEF TxnsOK
<1>3. /\ y \in [Txns -> [state : States, commit : Nat]]
      /\ y[t].state = "committed" /\ y[t].commit = nc
      /\ \A c \in Txns : c # t => y[c] = x[c]
  BY <1>1 DEF States
<1>4. Done(y, t) /\ \A c \in Txns : c # t => (Done(y, c) <=> Done(x, c))
  BY <1>3 DEF Done
<1>5. {c \in Txns : Done(y, c)} = {c \in Txns : Done(x, c)} \cup {t}
  BY <1>4
<1>6. Cardinality({c \in Txns : Done(y, c)}) = (nc + 1) - 1
  <2> DEFINE D == {c \in Txns : Done(x, c)}
  <2>1. D \subseteq 1 .. MaxTxn /\ t \notin D
    BY <1>1 DEF Txns
  <2>2. IsFiniteSet(1 .. MaxTxn)
    BY <1>1, FS_Interval
  <2>3. IsFiniteSet(D)
    BY <2>1, <2>2, FS_Subset
  <2>4. Cardinality(D) = nc - 1
    BY DEF TxnsOK
  <2> HIDE DEF D
  <2>5. Cardinality(D \cup {t}) = Cardinality(D) + 1
    BY <2>1, <2>3, FS_AddElement
  <2>6. {c \in Txns : Done(y, c)} = D \cup {t}
    BY <1>5 DEF D
  <2>7. Cardinality({c \in Txns : Done(y, c)}) = (nc - 1) + 1
    BY <2>4, <2>5, <2>6
  <2>8. (nc - 1) + 1 = (nc + 1) - 1
    BY <1>1
  <2> QED
    BY <2>7, <2>8
<1>7. \A c \in Txns : y[c].state = "none" <=> c >= nt
  BY <1>2, <1>3 DEF TxnsOK
<1>8. \A c \in Txns : c # t /\ Done(y, c) => y[c].commit < nc
  BY <1>3, <1>4 DEF TxnsOK
<1>9. \A c \in Txns : Done(y, c) => y[c].commit <= nc /\ y[c].commit < nc + 1
  BY <1>1, <1>3, <1>8
<1>10. \A c \in Txns : ~Done(y, c) => y[c].commit = 0
  BY <1>3, <1>4 DEF TxnsOK
<1>11. TxnsOK(y, nt, nc + 1)
  <2>1. nc + 1 \in Nat \ {0}
    BY <1>1
  <2>2. \A c \in Txns : Done(y, c) => y[c].commit < nc + 1
    BY <1>9
  <2> QED
    BY ONLY <1>1, <1>3, <1>6, <1>7, <1>10, <2>1, <2>2 DEF TxnsOK
<1>12. Moves(x, y)
  BY <1>1, <1>3, <1>4 DEF Moves, Done, Runs
<1>13. CommitsLast(x, y)
  BY <1>3, <1>4, <1>9 DEF CommitsLast
<1> QED
  BY <1>3, <1>4, <1>11, <1>12, <1>13 DEF Stepped, Only

LEMMA CrashMoves ==
  ASSUME NEW x, NEW nt, NEW nc, TxnsOK(x, nt, nc), NEW y,
         y = [c \in Txns |-> IF x[c].state = "active"
                             THEN [x[c] EXCEPT !.state = "rolled_back"] ELSE x[c]]
  PROVE  Stepped(x, y, nt, nc)
         /\ \A c \in Txns : x[c].state = "active" => y[c].state = "rolled_back"
<1>1. x \in [Txns -> [state : States, commit : Nat]] /\ nt \in 1 .. MaxTxn + 1 /\ nc \in Nat \ {0}
  BY DEF TxnsOK
<1>2. /\ y \in [Txns -> [state : States, commit : Nat]]
      /\ \A c \in Txns : x[c].state # "active" => y[c] = x[c]
      /\ \A c \in Txns : x[c].state = "active" =>
            y[c].state = "rolled_back" /\ y[c].commit = x[c].commit
  BY <1>1 DEF States
<1>3. \A c \in Txns : Done(y, c) <=> Done(x, c)
  BY <1>2 DEF Done
<1>4. {c \in Txns : Done(y, c)} = {c \in Txns : Done(x, c)}
  BY <1>3
<1>5. \A c \in Txns : y[c].state = "none" <=> c >= nt
  <2> TAKE c \in Txns
  <2>1. x[c].state = "none" <=> c >= nt
    BY DEF TxnsOK
  <2> QED
    BY <1>2, <2>1
<1>6. \A c \in Txns : /\ Done(y, c) => y[c].commit < nc
                      /\ ~Done(y, c) => y[c].commit = 0
  <2> TAKE c \in Txns
  <2>1. /\ Done(x, c) => x[c].commit < nc
        /\ ~Done(x, c) => x[c].commit = 0
    BY DEF TxnsOK
  <2>2. y[c].commit = x[c].commit
    BY <1>2
  <2> QED
    BY <1>3, <2>1, <2>2
<1>7. TxnsOK(y, nt, nc)
  BY <1>1, <1>2, <1>4, <1>5, <1>6 DEF TxnsOK
<1>8. Moves(x, y)
  BY <1>2, <1>3 DEF Moves, Done, Runs
<1>9. CommitsLast(x, y)
  BY <1>3 DEF CommitsLast
<1> QED
  BY <1>2, <1>7, <1>8, <1>9 DEF Stepped, Only

LEMMA NoMove ==
  ASSUME NEW x
  PROVE  Moves(x, x) /\ CommitsLast(x, x)
BY DEF Moves, CommitsLast

LEMMA MovesKeepPage ==
  ASSUME NEW x, NEW y, NEW nt, NEW nc, NEW p, TxnsOK(x, nt, nc), PageOK(nt, p),
         RunsOnTop(x, p), CommitsInOrder(x, p), Moves(x, y), CommitsLast(x, y)
  PROVE  RunsOnTop(y, p) /\ CommitsInOrder(y, p)
<1>1. \A v \in p : /\ v.creator \in Txns
                   /\ Runs(y, v.creator) => Runs(x, v.creator)
                   /\ Done(y, v.creator) => Done(x, v.creator) \/ Runs(x, v.creator)
                   /\ x[v.creator].state = "rolled_back" => y[v.creator].state = "rolled_back"
                   /\ Done(x, v.creator) => y[v.creator] = x[v.creator]
  <2> TAKE v \in p
  <2>1. v \in Version /\ v.creator < nt
    BY DEF PageOK
  <2>2. v.creator \in Txns
    BY <2>1, VersionFields
  <2>3. nt \in Nat /\ v.creator \in Nat
    BY <2>2, TxnFacts
  <2>4. ~(v.creator >= nt)
    BY <2>1, <2>3
  <2>5. x[v.creator].state # "none"
    BY <2>2, <2>4 DEF TxnsOK
  <2> QED
    BY <2>2, <2>5 DEF Moves
<1>2. RunsOnTop(y, p)
  BY <1>1 DEF RunsOnTop
<1>3. CommitsInOrder(y, p)
  <2> SUFFICES ASSUME NEW v \in p, NEW w \in p, v.row = w.row, v.version < w.version,
                      Done(y, v.creator), Done(y, w.creator)
               PROVE  y[v.creator].commit <= y[w.creator].commit
    BY DEF CommitsInOrder
  <2>1. CASE ~Done(x, w.creator)
    BY <1>1, <2>1 DEF CommitsLast
  <2>2. CASE Done(x, w.creator) /\ Done(x, v.creator)
    BY <1>1, <2>2 DEF CommitsInOrder
  <2>3. CASE Done(x, w.creator) /\ ~Done(x, v.creator)
    <3>1. Runs(x, v.creator) /\ x[w.creator].state # "rolled_back"
      BY <1>1, <2>3 DEF Done
    <3>2. w.creator = v.creator
      BY <3>1 DEF RunsOnTop
    <3> QED
      BY <2>3, <3>2
  <2> QED
    BY <2>1, <2>2, <2>3
<1> QED
  BY <1>2, <1>3

-----------------------------------------------------------------------------
(***************************************************************************)
(* A mutation of the page.                                                 *)
(***************************************************************************)
Same(v, w) ==
    v.row = w.row /\ v.creator = w.creator /\ v.version = w.version /\ v.deleted = w.deleted

IsNew(w, r, t, n) == w.row = r /\ w.creator = t /\ w.version = n

\* Page q is p and a version n of row r written by t, links aside, and nobody
\* but t has a pending version of the row.
Grown(x, p, q, r, t, n) ==
    /\ \A w \in q : IsNew(w, r, t, n) \/ \E v \in p : Same(v, w)
    /\ \A v \in p : \E w \in q : Same(v, w)
    /\ \E w \in q : IsNew(w, r, t, n)
    /\ \A v \in p : v.row = r => v.version < n
    /\ \A v \in p : v.row = r /\ Runs(x, v.creator) => v.creator = t

LEMMA CreatorsBegun ==
  ASSUME NEW x, NEW nt, NEW nc, TxnsOK(x, nt, nc), NEW p, PageOK(nt, p), NEW v \in p
  PROVE  /\ v \in Version /\ v.creator \in Txns /\ v.creator \in Nat /\ v.creator < nt
         /\ x[v.creator].state # "none"
<1>1. v \in Version /\ v.creator < nt
  BY DEF PageOK
<1>2. v.creator \in Txns
  BY <1>1, VersionFields
<1>3. nt \in Nat /\ v.creator \in Nat
  BY <1>2, TxnFacts
<1>4. ~(v.creator >= nt)
  BY <1>1, <1>3
<1>5. x[v.creator].state # "none"
  BY <1>2, <1>4 DEF TxnsOK
<1> QED
  BY <1>1, <1>2, <1>3, <1>5

LEMMA PrefixBelowNewSequence ==
  ASSUME PageInv, NEW r \in Rows, NEW t
  PROVE  /\ NewSequence(r, t) \in Nat
         /\ \A v \in page : v.row = r => v.version < NewSequence(r, t)
<1> DEFINE V == VersionsOf(r)
<1>1. V \subseteq Version /\ \A v \in page : v.row = r => v \in V
  BY DEF VersionsOf, PageInv, PageOK
<1>2. NewSequence(r, t) = Newest(V).version + 1
  BY DEF NewSequence, MaxRowVersion
<1> HIDE DEF V
<1>3. CASE V = {}
  BY <1>1, <1>2, <1>3, NewestOfNone
<1>4. CASE V # {}
  <2>1. Newest(V) \in V /\ \A w \in V : w.version <= Newest(V).version
    BY <1>1, <1>4, NewestFacts
  <2>2. Newest(V).version \in Nat /\ \A w \in V : w.version \in Nat
    BY <1>1, <2>1, VersionFields
  <2> QED
    BY <1>1, <1>2, <2>1, <2>2
<1> QED
  BY <1>3, <1>4

\* A writer that is not blocked meets no pending version of another: one
\* further down would have stopped what lies above it.
LEMMA UnblockedIsAlone ==
  ASSUME PageInv, NEW r \in Rows, NEW t \in Txns, ~Blocked(r, t),
         NEW v \in page, v.row = r, Runs(txn, v.creator)
  PROVE  v.creator = t
<1> SUFFICES ASSUME v.creator # t PROVE FALSE
  OBVIOUS
<1> DEFINE C == {w \in VersionsOf(r) :
                   \/ Pending(w, t)
                   \/ Evaluate(w, LatestCommittedSnapshot(t)) # "invisible"}
           m == Newest(C)
<1>1. page \subseteq Version /\ RunsOnTop(txn, page)
      /\ \A a, b \in page : a.row = b.row /\ a.version = b.version => a = b
  BY DEF PageInv, PageOK
<1>2. C \subseteq Version /\ \A w \in C : w \in page /\ w.row = r
  BY <1>1 DEF VersionsOf
<1>3. \A w \in C : txn[w.creator].state # "rolled_back"
  BY DEF Pending, Evaluate
<1>4. v \in C
  BY DEF VersionsOf, Pending, Runs
<1>5. m = BaseCandidate(r, t)
  BY DEF BaseCandidate
<1> HIDE DEF C
<1>6. m \in C /\ m # NoVersion /\ v.version <= m.version
  BY <1>2, <1>4, NewestFacts
<1>7. ~Pending(m, t)
  BY <1>5, <1>6 DEF Blocked
<1> HIDE DEF m
<1>8. m \in page /\ m.row = r /\ m.version \in Nat /\ v.version \in Nat
  BY <1>1, <1>2, <1>6, VersionFields
<1>9. CASE m.version = v.version
  <2>1. m = v
    BY <1>1, <1>8, <1>9
  <2> QED
    BY <1>7, <2>1 DEF Pending, Runs
<1>10. CASE m.version # v.version
  <2>1. v.version < m.version
    BY <1>6, <1>8, <1>10
  <2>2. m.creator = v.creator
    BY <1>1, <1>3, <1>6, <1>8, <2>1 DEF RunsOnTop
  <2> QED
    BY <1>7, <2>2 DEF Pending, Runs
<1> QED
  BY <1>9, <1>10

LEMMA MutatedGrows ==
  ASSUME PageInv, NEW r \in Rows, NEW t \in Txns, NEW kind, Admits(r, t, kind),
         NEW nt \in Nat, nextTxn <= nt, t < nt
  PROVE  /\ PageOK(nt, Mutated(r, t, kind))
         /\ Grown(txn, page, Mutated(r, t, kind), r, t, NewSequence(r, t))
<1> DEFINE n == NewSequence(r, t)
           prev == PreviousVersion(r, t)
           q == Mutated(r, t, kind)
           Link(v) == IF v.row = r /\ v.version = prev THEN [v EXCEPT !.next = n] ELSE v
           new == [row |-> r, creator |-> t, version |-> n, next |-> 0,
                   deleted |-> kind = "delete"]
<1>1. ~Blocked(r, t) /\ n \in VersionNumbers
  BY DEF Admits
<1>2. /\ page \subseteq Version
      /\ \A v, w \in page : v.row = w.row /\ v.version = w.version => v = w
      /\ \A v \in page : v.creator < nextTxn /\ (v.next = 0 \/ v.next > v.version)
  BY DEF PageInv, PageOK
<1>3. n \in Nat /\ \A v \in page : v.row = r => v.version < n
  BY PrefixBelowNewSequence
<1>4. q = {Link(v) : v \in page} \cup {new}
  BY DEF Mutated
<1> HIDE DEF n, prev, q
<1>5. n \in 0 .. MaxVersions
  BY <1>1, RowConstants DEF VersionNumbers
<1>6. ASSUME NEW v \in page
      PROVE  /\ Link(v) \in Version /\ Same(v, Link(v))
             /\ Link(v).next = v.next \/ (v.row = r /\ Link(v).next = n)
  <2>1. v \in Version /\ v = [row |-> v.row, creator |-> v.creator, version |-> v.version,
                              next |-> v.next, deleted |-> v.deleted]
    BY <1>2 DEF Version
  <2>2. /\ v.row \in Rows /\ v.creator \in Txns /\ v.version \in VersionNumbers
        /\ v.deleted \in BOOLEAN
    BY <2>1, VersionFields
  <2>3. CASE v.row = r /\ v.version = prev
    <3>1. Link(v) = [row |-> v.row, creator |-> v.creator, version |-> v.version,
                     next |-> n, deleted |-> v.deleted]
      BY <2>1, <2>3
    <3> QED
      BY <1>5, <2>2, <2>3, <3>1 DEF Same, Version
  <2>4. CASE ~(v.row = r /\ v.version = prev)
    <3>1. Link(v) = v
      BY <2>4
    <3> QED
      BY <2>1, <3>1 DEF Same
  <2> QED
    BY <2>3, <2>4
<1>7. /\ new \in Version /\ IsNew(new, r, t, n) /\ new.next = 0 /\ new.creator = t
  BY <1>1, RowConstants DEF Version, IsNew
<1> HIDE DEF Link, new
<1>8. q \subseteq Version
  BY <1>4, <1>6, <1>7
<1>9. \A v, w \in page : v.version \in Nat /\ nextTxn \in Nat /\ v.creator \in Nat
  BY <1>2, VersionFields DEF PageInv, TxnsOK, Txns
<1>10. ASSUME NEW a \in q, NEW b \in q, a.row = b.row, a.version = b.version
       PROVE  a = b
  <2>1. CASE a = new /\ b = new
    BY <2>1
  <2>2. ASSUME NEW v \in page PROVE ~(Link(v).row = r /\ Link(v).version = n)
    <3>1. v.row = r => v.version < n
      BY <1>3, <2>2
    <3>2. Link(v).row = v.row /\ Link(v).version = v.version
      BY <1>6, <2>2 DEF Same
    <3> QED
      BY <1>3, <1>9, <3>1, <3>2
  <2>3. new.row = r /\ new.version = n
    BY <1>7 DEF IsNew
  <2>4. CASE a # new /\ b # new
    <3>1. PICK v \in page : a = Link(v)
      BY <1>4, <2>4
    <3>2. PICK w \in page : b = Link(w)
      BY <1>4, <2>4
    <3>3. v.row = w.row /\ v.version = w.version
      BY <1>6, <1>10, <3>1, <3>2 DEF Same
    <3>4. v = w
      BY <1>2, <3>3
    <3> QED
      BY <3>1, <3>2, <3>4
  <2> QED
    BY <1>4, <1>10, <2>1, <2>2, <2>3, <2>4
<1>11. ASSUME NEW w \in q
       PROVE  w.creator < nt /\ (w.next = 0 \/ w.next > w.version)
  <2>1. CASE w = new
    BY <1>7, <2>1
  <2>2. CASE w # new
    <3>1. PICK v \in page : w = Link(v)
      BY <1>4, <2>2
    <3>2. w.creator = v.creator /\ w.version = v.version
          /\ (w.next = v.next \/ (v.row = r /\ w.next = n))
      BY <1>6, <3>1 DEF Same
    <3>3. v.creator < nt
      BY <1>2, <1>9
    <3>4. v.row = r => n > v.version
      BY <1>3, <1>9
    <3> QED
      BY <1>2, <3>2, <3>3, <3>4
  <2> QED
    BY <2>1, <2>2
<1>12. PageOK(nt, q)
  BY <1>8, <1>10, <1>11 DEF PageOK
<1>13. Grown(txn, page, q, r, t, n)
  <2>1. \A w \in q : IsNew(w, r, t, n) \/ \E v \in page : Same(v, w)
    BY <1>4, <1>6, <1>7
  <2>2. \A v \in page : \E w \in q : Same(v, w)
    BY <1>4, <1>6
  <2>3. \E w \in q : IsNew(w, r, t, n)
    BY <1>4, <1>7
  <2>4. \A v \in page : v.row = r /\ Runs(txn, v.creator) => v.creator = t
    BY <1>1, UnblockedIsAlone
  <2> QED
    BY <1>3, <2>1, <2>2, <2>3, <2>4 DEF Grown
<1> QED
  BY <1>12, <1>13 DEF q, n

\* Growth only looks at the writers of the page, none of which begins.
LEMMA GrownLater ==
  ASSUME NEW x, NEW y, NEW nt, NEW nc, TxnsOK(x, nt, nc), NEW p, PageOK(nt, p), Moves(x, y),
         NEW q, NEW r, NEW t, NEW n, Grown(x, p, q, r, t, n)
  PROVE  Grown(y, p, q, r, t, n)
<1>1. \A v \in p : Runs(y, v.creator) => Runs(x, v.creator)
  BY CreatorsBegun DEF Moves
<1> QED
  BY <1>1 DEF Grown

LEMMA GrowthKeepsPage ==
  ASSUME NEW y, NEW p, NEW q, NEW r, NEW t, NEW n \in Nat, p \subseteq Version,
         RunsOnTop(y, p), CommitsInOrder(y, p), Grown(y, p, q, r, t, n), ~Done(y, t)
  PROVE  RunsOnTop(y, q) /\ CommitsInOrder(y, q)
<1>1. ASSUME NEW v \in q, NEW w \in q, v.row = w.row, v.version < w.version
      PROVE  /\ Runs(y, v.creator) /\ y[w.creator].state # "rolled_back"
                   => w.creator = v.creator
             /\ Done(y, v.creator) /\ Done(y, w.creator)
                   => y[v.creator].commit <= y[w.creator].commit
  <2>1. /\ IsNew(v, r, t, n) \/ \E a \in p : Same(a, v)
        /\ IsNew(w, r, t, n) \/ \E b \in p : Same(b, w)
    BY DEF Grown
  <2>2. \A a \in p : a.version \in Nat /\ (a.row = r => a.version < n)
    BY VersionFields DEF Grown
  <2>3. CASE IsNew(v, r, t, n)
    <3>1. v.row = r /\ v.version = n
      BY <2>3 DEF IsNew
    <3>2. CASE IsNew(w, r, t, n)
      BY <1>1, <3>1, <3>2 DEF IsNew
    <3>3. ASSUME NEW b \in p, Same(b, w) PROVE FALSE
      BY <1>1, <2>2, <3>1, <3>3 DEF Same
    <3> QED
      BY <2>1, <3>2, <3>3
  <2>4. ASSUME NEW a \in p, Same(a, v), IsNew(w, r, t, n)
        PROVE  (Runs(y, v.creator) => w.creator = v.creator) /\ ~Done(y, w.creator)
    <3>1. a.row = r /\ a.creator = v.creator /\ w.creator = t
      BY <1>1, <2>4 DEF Same, IsNew
    <3> QED
      BY <2>4, <3>1 DEF Grown
  <2>5. ASSUME NEW a \in p, Same(a, v), NEW b \in p, Same(b, w)
        PROVE  /\ Runs(y, v.creator) /\ y[w.creator].state # "rolled_back"
                     => w.creator = v.creator
               /\ Done(y, v.creator) /\ Done(y, w.creator)
                     => y[v.creator].commit <= y[w.creator].commit
    <3>1. a.row = b.row /\ a.version < b.version /\ a.creator = v.creator /\ b.creator = w.creator
      BY <1>1, <2>5 DEF Same
    <3> QED
      BY <2>5, <3>1 DEF RunsOnTop, CommitsInOrder
  <2> QED
    BY <2>1, <2>3, <2>4, <2>5
<1>2. RunsOnTop(y, q)
  BY <1>1 DEF RunsOnTop
<1>3. CommitsInOrder(y, q)
  BY <1>1 DEF CommitsInOrder
<1> QED
  BY <1>2, <1>3

-----------------------------------------------------------------------------
(***************************************************************************)
(* Every step keeps the invariant of the page.                             *)
(***************************************************************************)
LEMMA LeftoversLater ==
  ASSUME NEW x, NEW y, NEW left, LeftoversOK(x, left), Moves(x, y)
  PROVE  LeftoversOK(y, left)
<1>1. \A e \in left : e[2] \in Txns
  BY DEF LeftoversOK
<1> QED
  BY <1>1 DEF LeftoversOK, Moves

LEMMA PageSettles ==
  ASSUME PageInv, NEW nt, NEW nc, TxnsOK(txn', nt, nc), nextTxn <= nt,
         Moves(txn, txn'), CommitsLast(txn, txn'), page' = page,
         nextTxn' = nt, nextCommit' = nc, LeftoversOK(txn', leftovers')
  PROVE  PageInv'
<1>1. RunsOnTop(txn', page) /\ CommitsInOrder(txn', page)
  BY MovesKeepPage DEF PageInv
<1>2. PageOK(nt, page)
  <2>1. \A v \in page : v.creator \in Nat /\ v.creator < nextTxn
    BY CreatorsBegun DEF PageInv
  <2>2. nt \in Nat /\ nextTxn \in Nat
    BY TxnFacts DEF PageInv
  <2>3. \A v \in page : v.creator < nt
    BY <2>1, <2>2
  <2> QED
    BY <2>3 DEF PageInv, PageOK
<1> QED
  BY <1>1, <1>2 DEF PageInv

\* A mutation, after its transaction's begin if it has one of its own.
LEMMA MutationSettles ==
  ASSUME PageInv, NEW r \in Rows, NEW t \in Txns, NEW kind, Admits(r, t, kind),
         page' = Mutated(r, t, kind), TxnsOK(txn', nextTxn', nextCommit'),
         nextTxn <= nextTxn', t < nextTxn', Moves(txn, txn'), CommitsLast(txn, txn'),
         ~Done(txn', t), LeftoversOK(txn', leftovers')
  PROVE  PageInv' /\ Grown(txn', page, page', r, t, NewSequence(r, t))
<1>1. nextTxn' \in Nat
  BY TxnFacts
<1>2. PageOK(nextTxn', page') /\ Grown(txn, page, page', r, t, NewSequence(r, t))
  BY <1>1, MutatedGrows
<1>3. NewSequence(r, t) \in Nat /\ page \subseteq Version
  BY PrefixBelowNewSequence DEF PageInv, PageOK
<1>4. RunsOnTop(txn', page) /\ CommitsInOrder(txn', page)
  BY MovesKeepPage DEF PageInv
<1>5. Grown(txn', page, page', r, t, NewSequence(r, t))
  BY <1>2, GrownLater DEF PageInv
<1>6. RunsOnTop(txn', page') /\ CommitsInOrder(txn', page')
  BY <1>3, <1>4, <1>5, GrowthKeepsPage
<1> QED
  BY <1>2, <1>5, <1>6 DEF PageInv

LEMMA PageFacts ==
  ASSUME PageInv
  PROVE  /\ TxnsOK(txn, nextTxn, nextCommit) /\ LeftoversOK(txn, leftovers)
         /\ nextTxn \in Nat /\ nextCommit \in Nat
         /\ \A c \in Txns : c \in Nat /\ (txn[c].state = "none" <=> c >= nextTxn)
<1>1. /\ TxnsOK(txn, nextTxn, nextCommit) /\ LeftoversOK(txn, leftovers)
      /\ nextTxn \in Nat /\ nextCommit \in Nat
      /\ \A c \in Txns : c \in Nat
  BY TxnFacts DEF PageInv
<1>2. \A c \in Txns : txn[c].state = "none" <=> c >= nextTxn
  BY <1>1 DEF TxnsOK
<1> QED
  BY <1>1, <1>2

LEMMA BeginPage ==
  ASSUME PageInv, Begin
  PROVE  PageInv' /\ Moves(txn, txn')
<1>1. /\ nextTxn \in Txns /\ txn' = [txn EXCEPT ![nextTxn].state = "active"]
      /\ nextTxn' = nextTxn + 1 /\ nextCommit' = nextCommit /\ page' = page
      /\ leftovers' = leftovers
  BY DEF Begin, WithState
<1>2. /\ TxnsOK(txn', nextTxn + 1, nextCommit) /\ Moves(txn, txn') /\ CommitsLast(txn, txn')
      /\ \A c \in Txns : c # nextTxn => txn'[c] = txn[c]
  <2>1. Stepped(txn, txn', nextTxn + 1, nextCommit) /\ Only(txn, txn', nextTxn)
        /\ txn'[nextTxn].state = "active"
    BY <1>1, BeginMoves, PageFacts
  <2> QED
    BY <2>1 DEF Stepped, Only
<1>4. LeftoversOK(txn', leftovers')
  BY <1>1, <1>2, PageFacts, LeftoversLater
<1>5. nextTxn <= nextTxn + 1
  BY PageFacts
<1> QED
  BY <1>1, <1>2, <1>4, <1>5, PageSettles

LEMMA MutatePage ==
  ASSUME PageInv, NEW t \in Txns, NEW r \in Rows, NEW kind, Mutate(t, r, kind)
  PROVE  PageInv' /\ Moves(txn, txn') /\ Grown(txn', page, page', r, t, NewSequence(r, t))
<1>1. /\ txn[t].state = "active" /\ Admits(r, t, kind) /\ page' = Mutated(r, t, kind)
      /\ txn' = txn /\ nextTxn' = nextTxn /\ nextCommit' = nextCommit
      /\ leftovers' = leftovers
  BY DEF Mutate
<1>2. Moves(txn, txn') /\ CommitsLast(txn, txn')
  BY <1>1, NoMove
<1>3. ~(t >= nextTxn) /\ t \in Nat /\ nextTxn \in Nat
  BY <1>1, PageFacts
<1>4. t < nextTxn' /\ nextTxn <= nextTxn'
  BY <1>1, <1>3
<1>5. ~Done(txn', t)
  BY <1>1 DEF Done
<1>6. TxnsOK(txn', nextTxn', nextCommit') /\ LeftoversOK(txn', leftovers')
  BY <1>1, PageFacts
<1> QED
  BY <1>1, <1>2, <1>4, <1>5, <1>6, MutationSettles

LEMMA MutateOwnedPage ==
  ASSUME PageInv, NEW r \in Rows, NEW kind, MutateOwned(r, kind)
  PROVE  /\ PageInv' /\ Moves(txn, txn')
         /\ Grown(txn', page, page', r, nextTxn, NewSequence(r, nextTxn))
<1>1. /\ nextTxn \in Txns /\ Admits(r, nextTxn, kind) /\ page' = Mutated(r, nextTxn, kind)
      /\ txn' = [txn EXCEPT ![nextTxn].state = "active"]
      /\ nextTxn' = nextTxn + 1 /\ nextCommit' = nextCommit
      /\ leftovers' = leftovers
  BY DEF MutateOwned, WithState
<1>2. /\ TxnsOK(txn', nextTxn + 1, nextCommit) /\ Moves(txn, txn') /\ CommitsLast(txn, txn')
      /\ txn'[nextTxn].state = "active"
      /\ \A c \in Txns : c # nextTxn => txn'[c] = txn[c]
  <2>1. Stepped(txn, txn', nextTxn + 1, nextCommit) /\ Only(txn, txn', nextTxn)
        /\ txn'[nextTxn].state = "active"
    BY <1>1, BeginMoves, PageFacts
  <2> QED
    BY <2>1 DEF Stepped, Only
<1>4. LeftoversOK(txn', leftovers')
  BY <1>1, <1>2, PageFacts, LeftoversLater
<1>5. nextTxn <= nextTxn' /\ nextTxn < nextTxn' /\ ~Done(txn', nextTxn)
  BY <1>1, <1>2, PageFacts DEF Done
<1>6. TxnsOK(txn', nextTxn', nextCommit')
  BY <1>1, <1>2
<1> QED
  BY <1>1, <1>2, <1>4, <1>5, <1>6, MutationSettles

LEMMA MutateOwnedFailsPage ==
  ASSUME PageInv, NEW r \in Rows, NEW kind, MutateOwnedFails(r, kind)
  PROVE  /\ PageInv' /\ Moves(txn, txn')
         /\ \/ page' = page
            \/ Grown(txn', page, page', r, nextTxn, NewSequence(r, nextTxn))
<1>1. PICK c \in Compensations :
         /\ txn' = [txn EXCEPT ![nextTxn].state = c.state]
         /\ \/ page' = page /\ leftovers' = leftovers
            \/ /\ Admits(r, nextTxn, kind) /\ page' = Mutated(r, nextTxn, kind)
               /\ leftovers' = IF c.unresolved THEN leftovers
                               ELSE leftovers \cup {<<r, nextTxn, NewSequence(r, nextTxn)>>}
  BY DEF MutateOwnedFails, WithState
<1>2. nextTxn \in Txns /\ nextTxn' = nextTxn + 1 /\ nextCommit' = nextCommit
  BY DEF MutateOwnedFails
<1>3. \/ c.state = "rolled_back" /\ c.unresolved = FALSE
      \/ c.state = "active" /\ c.unresolved = TRUE
  BY <1>1 DEF Compensations
<1>4. /\ TxnsOK(txn', nextTxn + 1, nextCommit) /\ Moves(txn, txn') /\ CommitsLast(txn, txn')
      /\ txn'[nextTxn].state = c.state
      /\ \A b \in Txns : b # nextTxn => txn'[b] = txn[b]
  <2>1. Stepped(txn, txn', nextTxn + 1, nextCommit) /\ Only(txn, txn', nextTxn)
        /\ txn'[nextTxn].state = c.state
    <3>1. TxnsOK(txn, nextTxn, nextCommit)
      BY DEF PageInv
    <3>2. c.state \in {"active", "rolled_back"}
      BY <1>3
    <3>3. PICK state \in {"active", "rolled_back"} : state = c.state
      BY <3>2
    <3>4. txn' = [txn EXCEPT ![nextTxn].state = state]
      BY <1>1, <3>3
    <3>5. Stepped(txn, txn', nextTxn + 1, nextCommit) /\ Only(txn, txn', nextTxn)
          /\ txn'[nextTxn].state = state
      BY <1>2, <3>1, <3>4, BeginMoves
    <3> QED
      BY <3>3, <3>5
  <2> QED
    BY <2>1 DEF Stepped, Only
<1>6. LeftoversOK(txn', leftovers)
  BY <1>4, PageFacts, LeftoversLater
<1>7. nextTxn <= nextTxn' /\ nextTxn < nextTxn' /\ ~Done(txn', nextTxn)
  BY <1>2, <1>3, <1>4, PageFacts DEF Done
<1>8. CASE page' = page /\ leftovers' = leftovers
  <2>1. LeftoversOK(txn', leftovers')
    BY <1>6, <1>8
  <2>2. nextTxn <= nextTxn + 1
    BY PageFacts
  <2>3. PageInv'
    BY <1>2, <1>4, <1>8, <2>1, <2>2, PageSettles
  <2> QED
    BY <1>4, <1>8, <2>3
<1>9. CASE /\ Admits(r, nextTxn, kind) /\ page' = Mutated(r, nextTxn, kind)
           /\ leftovers' = IF c.unresolved THEN leftovers
                           ELSE leftovers \cup {<<r, nextTxn, NewSequence(r, nextTxn)>>}
  <2> DEFINE e == <<r, nextTxn, NewSequence(r, nextTxn)>>
  <2>1. NewSequence(r, nextTxn) \in VersionNumbers
    BY <1>9 DEF Admits
  <2>2. e \in Rows \X Txns \X VersionNumbers /\ e[2] = nextTxn
    BY <1>2, <2>1
  <2>3. \/ leftovers' = leftovers
        \/ leftovers' = leftovers \cup {e} /\ txn'[nextTxn].state = "rolled_back"
    BY <1>3, <1>4, <1>9
  <2>4. LeftoversOK(txn', leftovers')
    <3> HIDE DEF e
    <3> QED
      BY <1>6, <2>2, <2>3 DEF LeftoversOK
  <2>5. TxnsOK(txn', nextTxn', nextCommit')
    BY <1>2, <1>4
  <2> QED
    BY <1>2, <1>4, <1>7, <1>9, <2>4, <2>5, MutationSettles
<1> QED
  BY <1>1, <1>8, <1>9

LEMMA PreparePage ==
  ASSUME PageInv, NEW t \in Txns, Prepare(t)
  PROVE  PageInv' /\ Moves(txn, txn')
<1>1. /\ txn[t].state = "active"
      /\ txn' = [txn EXCEPT ![t].state = "prepared"]
      /\ nextTxn' = nextTxn /\ nextCommit' = nextCommit /\ page' = page
      /\ leftovers' = leftovers
  BY DEF Prepare, WithState
<1>2. Runs(txn, t) /\ TxnsOK(txn, nextTxn, nextCommit)
  BY <1>1 DEF Runs, PageInv
<1>3. Stepped(txn, txn', nextTxn, nextCommit) /\ Only(txn, txn', t)
  <2>1. /\ txn' \in [Txns -> [state : States, commit : Nat]] /\ Only(txn, txn', t)
        /\ txn'[t].state \in {"prepared", "rolled_back"} /\ txn'[t].commit = txn[t].commit
    BY <1>1, <1>2 DEF Only, TxnsOK, States
  <2>2. Stepped(txn, txn', nextTxn, nextCommit)
    BY <1>2, <2>1, EndMoves
  <2> QED
    BY <2>1, <2>2
<1>5. LeftoversOK(txn', leftovers')
  BY <1>1, <1>3, PageFacts, LeftoversLater DEF Stepped
<1>6. nextTxn <= nextTxn
  BY PageFacts
<1> QED
  BY <1>1, <1>3, <1>5, <1>6, PageSettles DEF Stepped

LEMMA CommitPage ==
  ASSUME PageInv, NEW t \in Txns, Commit(t)
  PROVE  PageInv' /\ Moves(txn, txn')
<1>1. /\ Runs(txn, t)
      /\ txn' = [txn EXCEPT ![t] = [state |-> "committed", commit |-> nextCommit]]
      /\ nextTxn' = nextTxn /\ nextCommit' = nextCommit + 1 /\ page' = page
      /\ leftovers' = leftovers
  BY DEF Commit, Runs
<1>2. TxnsOK(txn, nextTxn, nextCommit)
  BY DEF PageInv
<1>3. Stepped(txn, txn', nextTxn, nextCommit + 1) /\ Only(txn, txn', t)
  BY <1>1, <1>2, CommitMoves
<1>5. LeftoversOK(txn', leftovers')
  BY <1>1, <1>3, PageFacts, LeftoversLater DEF Stepped
<1>6. nextTxn <= nextTxn
  BY PageFacts
<1> QED
  BY <1>1, <1>3, <1>5, <1>6, PageSettles DEF Stepped

LEMMA RollbackPage ==
  ASSUME PageInv, NEW t \in Txns, Rollback(t)
  PROVE  PageInv' /\ Moves(txn, txn')
<1>1. /\ Runs(txn, t)
      /\ txn' = [txn EXCEPT ![t].state = "rolled_back"]
      /\ nextTxn' = nextTxn /\ nextCommit' = nextCommit /\ page' = page
      /\ leftovers' = leftovers
  BY DEF Rollback, WithState, Runs
<1>2. TxnsOK(txn, nextTxn, nextCommit)
  BY DEF PageInv
<1>3. Stepped(txn, txn', nextTxn, nextCommit) /\ Only(txn, txn', t)
      /\ txn'[t].state = "rolled_back"
  <2>1. /\ txn' \in [Txns -> [state : States, commit : Nat]] /\ Only(txn, txn', t)
        /\ txn'[t].state = "rolled_back" /\ txn'[t].commit = txn[t].commit
    BY <1>1, <1>2 DEF Only, TxnsOK, States
  <2>2. Stepped(txn, txn', nextTxn, nextCommit)
    BY <1>1, <1>2, <2>1, EndMoves
  <2> QED
    BY <2>1, <2>2
<1>5. LeftoversOK(txn', leftovers')
  BY <1>1, <1>3, PageFacts, LeftoversLater DEF Stepped
<1>6. nextTxn <= nextTxn
  BY PageFacts
<1> QED
  BY <1>1, <1>3, <1>5, <1>6, PageSettles DEF Stepped

LEMMA CrashPage ==
  ASSUME PageInv, Crash
  PROVE  PageInv' /\ Moves(txn, txn')
<1>1. /\ txn' = [t \in Txns |-> IF txn[t].state = "active"
                                THEN [txn[t] EXCEPT !.state = "rolled_back"] ELSE txn[t]]
      /\ nextTxn' = nextTxn /\ nextCommit' = nextCommit /\ page' = page
      /\ leftovers' = leftovers
  BY DEF Crash
<1>2. TxnsOK(txn, nextTxn, nextCommit)
  BY DEF PageInv
<1>3. Stepped(txn, txn', nextTxn, nextCommit)
      /\ \A c \in Txns : txn[c].state = "active" => txn'[c].state = "rolled_back"
  BY <1>1, <1>2, CrashMoves
<1>5. LeftoversOK(txn', leftovers')
  BY <1>1, <1>3, PageFacts, LeftoversLater DEF Stepped
<1>6. nextTxn <= nextTxn
  BY PageFacts
<1> QED
  BY <1>1, <1>3, <1>5, <1>6, PageSettles DEF Stepped

\* A step that leaves the inventory alone and adds nothing to the page.
LEMMA ShrinkPage ==
  ASSUME PageInv, UNCHANGED <<txn, nextTxn, nextCommit>>, page' \subseteq page,
         leftovers' \subseteq leftovers
  PROVE  PageInv' /\ Moves(txn, txn')
<1>1. Moves(txn, txn')
  BY NoMove
<1>2. PageOK(nextTxn, page')
  BY DEF PageInv, PageOK
<1>3. RunsOnTop(txn, page') /\ CommitsInOrder(txn, page')
  BY DEF PageInv, RunsOnTop, CommitsInOrder
<1>4. LeftoversOK(txn, leftovers')
  BY DEF PageInv, LeftoversOK
<1> QED
  BY <1>1, <1>2, <1>3, <1>4 DEF PageInv

LEMMA PageStep ==
  ASSUME PageInv, [SweepNext]_sweepVars
  PROVE  PageInv' /\ Moves(txn, txn')
<1>1. CASE BeginStable
  BY <1>1, BeginPage DEF BeginStable
<1>2. CASE ChooseVersions
  BY <1>2, ShrinkPage DEF ChooseVersions, rowVars
<1>3. CASE SweepPage
  <2>1. page' \subseteq page
    BY <1>3 DEF SweepPage, SweptPage
  <2> QED
    BY <1>3, <2>1, ShrinkPage DEF SweepPage
<1>4. ASSUME NEW t \in Txns, PinStatement(t) PROVE PageInv' /\ Moves(txn, txn')
  BY <1>4, ShrinkPage DEF PinStatement, PublishPin
<1>5. CASE RowStep
  <2>1. ASSUME NEW r \in Rows, NEW kind \in {"insert", "update", "delete"}
        PROVE  /\ \A t \in Txns : Mutate(t, r, kind) => PageInv' /\ Moves(txn, txn')
               /\ MutateOwned(r, kind) => PageInv' /\ Moves(txn, txn')
               /\ MutateOwnedFails(r, kind) => PageInv' /\ Moves(txn, txn')
    BY <2>1, MutatePage, MutateOwnedPage, MutateOwnedFailsPage
  <2>2. ASSUME NEW t \in Txns, Unpin(t) PROVE PageInv' /\ Moves(txn, txn')
    BY <2>2, ShrinkPage DEF Unpin
  <2> QED
    BY <1>5, <2>1, <2>2, BeginPage, PreparePage, CommitPage, RollbackPage DEF RowStep
<1>6. CASE Crash
  BY <1>6, CrashPage
<1>7. CASE UNCHANGED sweepVars
  BY <1>7, ShrinkPage DEF sweepVars, rowVars
<1> QED
  BY <1>1, <1>2, <1>3, <1>4, <1>5, <1>6, <1>7 DEF SweepNext

LEMMA PageStart == SweepInit => PageInv
<1> SUFFICES ASSUME SweepInit PROVE PageInv
  OBVIOUS
<1>1. /\ txn = [t \in Txns |-> [state |-> "none", commit |-> 0]] /\ nextTxn = 1
      /\ nextCommit = 1 /\ page = {} /\ leftovers = {}
  BY DEF SweepInit, Init
<1>2. \A c \in Txns : txn[c].state = "none" /\ txn[c].commit = 0 /\ ~Done(txn, c) /\ c >= nextTxn
  BY <1>1, RowConstants DEF Done, Txns
<1>3. {c \in Txns : Done(txn, c)} = {}
  BY <1>2
<1>4. Cardinality({c \in Txns : Done(txn, c)}) = 1 - 1
  BY <1>3, FS_EmptySet
<1>5. txn \in [Txns -> [state : States, commit : Nat]]
  BY <1>1 DEF States
<1>6. TxnsOK(txn, nextTxn, nextCommit)
  BY <1>1, <1>2, <1>4, <1>5, RowConstants DEF TxnsOK
<1> QED
  BY <1>1, <1>6 DEF PageInv, PageOK, RunsOnTop, CommitsInOrder, LeftoversOK

\* The invariant holds of every behaviour, with delete markers reclaimed too.
LEMMA PageAlways == SweepSpec => []PageInv
BY PageStart, PageStep, PTL DEF SweepSpec

-----------------------------------------------------------------------------
(***************************************************************************)
(* What a snapshot shows, as a relation between an inventory, a writer and *)
(* a snapshot.                                                             *)
(***************************************************************************)
Sees(x, c, s) ==
    \/ Done(x, c) /\ c <= s.through /\ c \notin s.excluded
    \/ x[c].state \notin {"rolled_back", "committed"} /\ c = s.reader

Shown(x, p, r, s) == {w \in p : w.row = r /\ Sees(x, w.creator, s)}

ReadFrom(V) == IF Newest(V) = NoVersion \/ Newest(V).deleted THEN NoVersion ELSE Newest(V)

LEMMA ReadIsShown ==
  ASSUME NEW r, NEW s
  PROVE  ReadVersion(r, s) = ReadFrom(Shown(txn, page, r, s))
<1>1. \A w : Evaluate(w, s) = "visible" <=> Sees(txn, w.creator, s)
  BY DEF Evaluate, Sees, Done
<1>2. {w \in VersionsOf(r) : Evaluate(w, s) = "visible"} = Shown(txn, page, r, s)
  BY <1>1 DEF VersionsOf, Shown
<1> QED
  BY <1>2 DEF ReadVersion, ReadFrom

LEMMA LatestFacts ==
  ASSUME PageInv
  PROVE  LET h == LatestCommittedLocalTransactionId IN
         /\ h \in Nat /\ h <= MaxTxn
         /\ h = 0 \/ (h \in Txns /\ Done(txn, h))
         /\ \A t \in Txns : Done(txn, t) => t <= h
<1> DEFINE S == {0} \cup {t \in Txns : Done(txn, t)}
           h == LatestCommittedLocalTransactionId
<1>1. S \subseteq 0 .. MaxTxn /\ S # {} /\ MaxTxn \in Nat
  BY RowConstants DEF Txns
<1>2. PICK m \in S : \A x \in S : x <= m
  BY <1>1, GreatestBounded
<1>3. /\ m \in 0 .. MaxTxn /\ (m = 0 \/ txn[m].state = "committed")
      /\ \A t \in Txns : txn[t].state = "committed" => t <= m
  BY <1>1, <1>2 DEF Done
<1>4. /\ h \in 0 .. MaxTxn /\ (h = 0 \/ txn[h].state = "committed")
      /\ \A t \in Txns : txn[t].state = "committed" => t <= h
  BY <1>3 DEF LatestCommittedLocalTransactionId
<1> QED
  BY <1>1, <1>4 DEF Done, Txns

LEMMA ReadFacts ==
  ASSUME PageInv, NEW r, NEW s, ReadVersion(r, s) # NoVersion
  PROVE  LET v == ReadVersion(r, s) IN
         v \in page /\ v.row = r /\ Sees(txn, v.creator, s) /\ v \in Version
<1> DEFINE V == Shown(txn, page, r, s)
<1>1. ReadVersion(r, s) = ReadFrom(V) /\ V \subseteq Version
  BY ReadIsShown DEF Shown, PageInv, PageOK
<1>2. V # {}
  BY <1>1, NewestOfNone DEF ReadFrom
<1> HIDE DEF V
<1>3. ReadVersion(r, s) = Newest(V) /\ Newest(V) \in V
  BY <1>1, <1>2, NewestFacts DEF ReadFrom
<1> QED
  BY <1>1, <1>3 DEF V, Shown

\* Commits stack up in order, so the newest committed version is the last
\* commit's.
LEMMA LatestRead == PageInv => LatestReadIsLastCommit
<1> SUFFICES ASSUME PageInv, NEW r \in Rows
             PROVE  LET counted == {v \in VersionsOf(r) : Committed(v)}
                        last == {v \in counted : \A w \in counted :
                                   txn[w.creator].commit <= txn[v.creator].commit}
                        left == Newest(last)
                    IN  ReadVersion(r, LatestCommittedSnapshot(0)) =
                          IF left = NoVersion \/ left.deleted THEN NoVersion ELSE left
  BY DEF LatestReadIsLastCommit
<1> DEFINE s == LatestCommittedSnapshot(0)
           h == LatestCommittedLocalTransactionId
           counted == {v \in VersionsOf(r) : Committed(v)}
           last == {v \in counted : \A w \in counted :
                      txn[w.creator].commit <= txn[v.creator].commit}
<1>1. s.reader = 0 /\ s.through = h /\ s.excluded = {}
  BY DEF LatestCommittedSnapshot
<1>2. \A t \in Txns : t # 0 /\ (Done(txn, t) => t <= h)
  BY LatestFacts DEF Txns
<1>3. \A t \in Txns : Sees(txn, t, s) <=> Done(txn, t)
  <2> HIDE DEF s, h
  <2> QED
    BY <1>1, <1>2 DEF Sees
<1> HIDE DEF s, h
<1>4. /\ page \subseteq Version
      /\ \A v \in page : v.creator \in Txns /\ v.version \in Nat /\ txn[v.creator].commit \in Nat
      /\ \A v, w \in page : v.row = w.row /\ v.version = w.version => v = w
  BY VersionFields, TxnFacts DEF PageInv, PageOK
<1>5. Shown(txn, page, r, s) = counted
  BY <1>3, <1>4 DEF Shown, VersionsOf, Committed, Done
<1>6. counted \subseteq page /\ \A v \in counted : v.row = r /\ Done(txn, v.creator)
  BY DEF VersionsOf, Committed, Done
<1>7. last \subseteq counted
  OBVIOUS
<1>8. Newest(counted) = Newest(last)
  <2>1. CASE counted = {}
    BY <1>7, <2>1
  <2>2. CASE counted # {}
    <3> DEFINE m == Newest(counted)
    <3>1. m \in counted /\ \A w \in counted : w.version <= m.version
      BY <1>4, <1>6, <2>2, NewestFacts
    <3>2. ASSUME NEW w \in counted
          PROVE  txn[w.creator].commit <= txn[m.creator].commit
      <4> HIDE DEF m, counted
      <4>1. CASE w.version = m.version
        BY <1>4, <1>6, <3>1, <4>1
      <4>2. CASE w.version # m.version
        <5>1. w.version < m.version
          BY <1>4, <1>6, <3>1, <4>2
        <5> QED
          BY <1>6, <3>1, <5>1 DEF PageInv, CommitsInOrder
      <4> QED
        BY <4>1, <4>2
    <3> HIDE DEF m
    <3>3. m \in last
      BY <3>1, <3>2
    <3> HIDE DEF last, counted
    <3>4. Newest(last) = m
      <4>1. last \subseteq Version /\ \A w \in last : w.version <= m.version
        BY <1>4, <1>6, <1>7, <3>1
      <4>2. \A a, b \in last : a.version = b.version => a = b
        BY <1>4, <1>6, <1>7
      <4> QED
        BY <3>3, <4>1, <4>2, NewestUnique
    <3> QED
      BY <3>4 DEF m
  <2> QED
    BY <2>1, <2>2
<1>9. ReadVersion(r, s) = ReadFrom(Shown(txn, page, r, s))
  BY ReadIsShown
<1> HIDE DEF counted, last
<1>10. ReadVersion(r, s) = IF Newest(last) = NoVersion \/ Newest(last).deleted
                           THEN NoVersion ELSE Newest(last)
  BY <1>5, <1>8, <1>9 DEF ReadFrom
<1> QED
  BY <1>10 DEF s, last, counted

\* A latest-committed read returns what the last transaction to commit a
\* write of the row left there: in every behaviour of writers, failures,
\* crashes and sweeps, with delete markers reclaimed or not.
THEOREM LatestReadsAreLastCommits == SweepSpec => []LatestReadIsLastCommit
BY PageAlways, LatestRead, PTL

LEMMA LeftoversUnread == PageInv => LeftoversStayUnread
<1> SUFFICES ASSUME PageInv, NEW r \in Rows, NEW s, ReadVersion(r, s) # NoVersion
             PROVE  <<r, ReadVersion(r, s).creator, ReadVersion(r, s).version>> \notin leftovers
  BY DEF LeftoversStayUnread
<1> DEFINE c == ReadVersion(r, s).creator
           e == <<r, c, ReadVersion(r, s).version>>
<1>1. Sees(txn, c, s)
  BY ReadFacts
<1>2. e[2] = c
  OBVIOUS
<1> HIDE DEF c, e
<1>3. ASSUME e \in leftovers PROVE FALSE
  <2>1. txn[c].state = "rolled_back"
    BY <1>2, <1>3 DEF PageInv, LeftoversOK
  <2> QED
    BY <1>1, <2>1 DEF Sees, Done
<1> QED
  BY <1>3 DEF c, e

\* What a failed owned mutation left is never read unless the mutation has
\* reported its transaction as unresolved, for any number of rows, versions,
\* transactions and crashes, and whatever callers do with the transactions
\* that were reported.
THEOREM LeftoversAreNeverRead == SweepSpec => []LeftoversStayUnread
BY PageAlways, LeftoversUnread, PTL

-----------------------------------------------------------------------------
(***************************************************************************)
(* Stable boundaries.                                                      *)
(***************************************************************************)
StableInv ==
    /\ PageInv
    /\ stable \in [Txns -> 0 .. NotStable]
    /\ \A c \in Txns : txn[c].state # "active" => stable[c] = NotStable

LEMMA StableStep ==
  ASSUME StableInv, [SweepNext]_sweepVars
  PROVE  StableInv' /\ Moves(txn, txn')
<1>1. PageInv' /\ Moves(txn, txn')
  BY PageStep DEF StableInv
<1>2. /\ nextCommit \in Nat /\ nextCommit >= 1 /\ nextCommit <= nextTxn
      /\ nextTxn \in Nat /\ nextTxn <= MaxTxn + 1 /\ MaxTxn \in Nat
      /\ txn \in [Txns -> [state : States, commit : Nat]]
  BY TxnFacts, RowConstants DEF StableInv, PageInv, TxnsOK
<1>3. CASE BeginStable
  <2>1. /\ stable' = [stable EXCEPT ![nextTxn] = nextCommit - 1] /\ nextTxn \in Txns
        /\ txn' = [txn EXCEPT ![nextTxn].state = "active"]
    BY <1>3 DEF BeginStable, Begin, WithState
  <2>2. nextCommit - 1 \in 0 .. NotStable
    BY <1>2 DEF NotStable
  <2>3. stable' \in [Txns -> 0 .. NotStable]
    BY <2>1, <2>2 DEF StableInv
  <2>4. ASSUME NEW c \in Txns, txn'[c].state # "active" PROVE stable'[c] = NotStable
    <3>1. c # nextTxn
      BY <1>2, <2>1, <2>4
    <3>2. txn'[c] = txn[c] /\ stable'[c] = stable[c]
      BY <1>2, <2>1, <3>1 DEF StableInv
    <3> QED
      BY <2>4, <3>2 DEF StableInv
  <2> QED
    BY <1>1, <2>3, <2>4 DEF StableInv
<1>4. CASE EndsReaders
  <2>1. NotStable \in 0 .. NotStable
    BY <1>2 DEF NotStable
  <2>2. stable' \in [Txns -> 0 .. NotStable]
        /\ \A c \in Txns : txn'[c].state # "active" => stable'[c] = NotStable
    BY <1>4, <2>1 DEF EndsReaders, StableInv
  <2> QED
    BY <1>1, <2>2 DEF StableInv
<1>5. CASE ChooseVersions \/ SweepPage \/ (\E t \in Txns : PinStatement(t)) \/ UNCHANGED sweepVars
  <2>1. stable' = stable /\ txn' = txn
    BY <1>5 DEF ChooseVersions, SweepPage, PinStatement, PublishPin, sweepVars, rowVars
  <2> QED
    BY <1>1, <2>1 DEF StableInv
<1> QED
  BY <1>1, <1>3, <1>4, <1>5 DEF SweepNext

LEMMA StableStart == SweepInit => StableInv
<1> SUFFICES ASSUME SweepInit PROVE StableInv
  OBVIOUS
<1>1. stable = [t \in Txns |-> NotStable]
  BY DEF SweepInit
<1>2. NotStable \in 0 .. NotStable
  BY RowConstants DEF NotStable
<1> QED
  BY <1>1, <1>2, PageStart DEF StableInv

-----------------------------------------------------------------------------
(***************************************************************************)
(* Pinned snapshots.  Whatever runs and could be seen is excluded, so a    *)
(* pinned snapshot gains nothing by later commits; and whatever ended      *)
(* before its reader and is not excluded is below its boundary, which is   *)
(* what the retention boundary of a sweep relies on.                       *)
(***************************************************************************)
PinOK(x, nt, s, t) ==
    /\ s \in Snapshot /\ s.reader = t /\ s.through < nt
    /\ Runs(x, t)
    /\ \A c \in Txns : (c <= s.through \/ c <= t) /\ Runs(x, c) => c \in s.excluded
    /\ \A c \in Txns : c <= t /\ Done(x, c) /\ c \notin s.excluded => c <= s.through

PinsOK(x, nt, pins) ==
    /\ pins \in [Txns -> Snapshot \cup {NoPin}]
    /\ \A t \in Txns : pins[t] # NoPin => PinOK(x, nt, pins[t], t)

PinInv == StableInv /\ PinsOK(txn, nextTxn, pin)

LEMMA SnapshotFields ==
  ASSUME NEW s \in Snapshot
  PROVE  s.through \in Nat /\ s.through <= MaxTxn /\ s.excluded \subseteq Txns /\ s.reader \in Nat
BY RowConstants DEF Snapshot

LEMMA EndedFacts ==
  ASSUME PageInv, NEW c \in Txns
  PROVE  /\ c \in Nat /\ c >= 1 /\ c <= MaxTxn /\ txn[c].commit \in Nat
         /\ Done(txn, c) \/ Runs(txn, c) => c < nextTxn
<1>1. c \in Nat /\ c >= 1 /\ c <= MaxTxn /\ nextTxn \in Nat /\ txn[c].commit \in Nat
  BY TxnFacts DEF PageInv
<1>2. txn[c].state = "none" <=> c >= nextTxn
  BY DEF PageInv, TxnsOK
<1> QED
  BY <1>1, <1>2 DEF Done, Runs

\* What a statement's new snapshot shows: every commit, or every commit up to
\* the boundary of its reader.
ShowsCommits(s, t) ==
    \A c \in Txns : Done(txn, c) =>
       (c <= s.through /\ c \notin s.excluded
          <=> stable[t] = NotStable \/ txn[c].commit <= stable[t])

LEMMA RunningIsRuns == \A c \in Txns : c \in Running <=> Runs(txn, c)
BY DEF Running, Runs

LEMMA PinSnapshotOK ==
  ASSUME StableInv, NEW t \in Txns, txn[t].state = "active", stable[t] = NotStable
  PROVE  PinOK(txn, nextTxn, PinSnapshot(t), t) /\ ShowsCommits(PinSnapshot(t), t)
<1> DEFINE s == PinSnapshot(t)
           h == LatestCommittedLocalTransactionId
<1>1. PageInv
  BY DEF StableInv
<1>2. /\ h \in Nat /\ h <= MaxTxn /\ (h = 0 \/ (h \in Txns /\ Done(txn, h)))
      /\ \A c \in Txns : Done(txn, c) => c <= h
  BY <1>1, LatestFacts
<1>3. s = [reader |-> t, through |-> h, excluded |-> Running]
  BY DEF PinSnapshot
<1> HIDE DEF s, h
<1>4. /\ s.reader = t /\ s.through = h /\ s.excluded = Running /\ Running \subseteq Txns
  BY <1>3 DEF Running
<1>5. t \in Nat /\ t <= MaxTxn /\ nextTxn \in Nat /\ nextTxn >= 1
  BY <1>1, TxnFacts DEF PageInv
<1>6. s \in Snapshot
  BY <1>2, <1>3, <1>4, <1>5, RowConstants DEF Snapshot
<1>7. h < nextTxn
  BY <1>1, <1>2, <1>5, EndedFacts
<1>8. Runs(txn, t) /\ \A c \in Txns : ~(Done(txn, c) /\ Runs(txn, c))
  BY DEF Runs, Done
<1>9. PinOK(txn, nextTxn, s, t)
  BY <1>2, <1>4, <1>6, <1>7, <1>8, RunningIsRuns DEF PinOK
<1>10. ShowsCommits(s, t)
  BY <1>2, <1>4, <1>8, RunningIsRuns DEF ShowsCommits
<1> QED
  BY <1>9, <1>10 DEF s

LEMMA StableSnapshotOK ==
  ASSUME StableInv, NEW t \in Txns, txn[t].state = "active", stable[t] # NotStable
  PROVE  PinOK(txn, nextTxn, StableSnapshot(t), t) /\ ShowsCommits(StableSnapshot(t), t)
<1> DEFINE s == StableSnapshot(t)
           b == stable[t]
           U == {0} \cup CommittedUpTo(b)
           h == Max(U)
<1>1. PageInv /\ MaxTxn \in Nat
  BY RowConstants DEF StableInv
<1>2. U \subseteq 0 .. MaxTxn /\ U # {}
  BY <1>1 DEF CommittedUpTo, Txns
<1>3. s = [reader |-> t, through |-> h, excluded |-> Running \cup CommittedAfter(b)]
  BY DEF StableSnapshot
<1>4. h \in U /\ \A c \in U : c <= h
  <2> HIDE DEF U
  <2> QED
    BY <1>1, <1>2, MaxOfBounded
<1> HIDE DEF s, h
<1>5. b \in Nat
  BY RowConstants DEF StableInv, NotStable
<1> HIDE DEF b
<1>6. /\ \A c \in Txns : c \in CommittedUpTo(b) <=> Done(txn, c) /\ txn[c].commit <= b
      /\ \A c \in Txns : c \in CommittedAfter(b) <=> Done(txn, c) /\ ~(txn[c].commit <= b)
      /\ CommittedUpTo(b) \subseteq Txns /\ CommittedAfter(b) \subseteq Txns /\ Running \subseteq Txns
  <2>1. \A c \in Txns : txn[c].commit \in Nat
    BY <1>1, EndedFacts
  <2> QED
    BY <1>5, <2>1 DEF CommittedUpTo, CommittedAfter, Done, Running
<1>7. /\ s.reader = t /\ s.through = h /\ s.excluded = Running \cup CommittedAfter(b)
      /\ h \in Nat /\ h <= MaxTxn /\ (h = 0 \/ (h \in Txns /\ Done(txn, h)))
      /\ \A c \in Txns : Done(txn, c) /\ txn[c].commit <= b => c <= h
  <2>1. h \in Nat /\ h <= MaxTxn
    BY <1>1, <1>2, <1>4
  <2>2. h = 0 \/ (h \in Txns /\ Done(txn, h))
    BY <1>4, <1>6
  <2>3. \A c \in Txns : Done(txn, c) /\ txn[c].commit <= b => c <= h
    BY <1>4, <1>6
  <2>4. s.reader = t /\ s.through = h /\ s.excluded = Running \cup CommittedAfter(b)
    BY <1>3
  <2> QED
    BY <2>1, <2>2, <2>3, <2>4
<1> HIDE DEF U
<1>8. t \in Nat /\ t <= MaxTxn /\ nextTxn \in Nat /\ nextTxn >= 1
  BY <1>1, TxnFacts DEF PageInv
<1>9. s \in Snapshot
  <2>1. t \in 0 .. MaxTxn /\ h \in 0 .. MaxTxn
    BY <1>1, <1>7, <1>8
  <2>2. Running \cup CommittedAfter(b) \in SUBSET Txns
    BY <1>6
  <2> QED
    BY <1>3, <2>1, <2>2 DEF Snapshot
<1>10. h < nextTxn
  BY <1>1, <1>7, <1>8, EndedFacts
<1>11. Runs(txn, t) /\ \A c \in Txns : ~(Done(txn, c) /\ Runs(txn, c))
  BY DEF Runs, Done
<1>12. PinOK(txn, nextTxn, s, t)
  BY <1>6, <1>7, <1>9, <1>10, <1>11, RunningIsRuns DEF PinOK
<1>13. ShowsCommits(s, t)
  BY <1>6, <1>7, <1>11, RunningIsRuns DEF ShowsCommits, b
<1> QED
  BY <1>12, <1>13 DEF s

LEMMA StatementSnapshotOK ==
  ASSUME StableInv, NEW t \in Txns, txn[t].state = "active"
  PROVE  PinOK(txn, nextTxn, StatementSnapshot(t), t) /\ ShowsCommits(StatementSnapshot(t), t)
BY PinSnapshotOK, StableSnapshotOK DEF StatementSnapshot

LEMMA PinsLater ==
  ASSUME NEW x, NEW y, NEW nt, NEW nc, NEW mt, NEW mc, TxnsOK(x, nt, nc), TxnsOK(y, mt, mc),
         nt <= mt, Moves(x, y), NEW s, NEW t \in Txns, PinOK(x, nt, s, t), Runs(y, t)
  PROVE  PinOK(y, mt, s, t)
<1>1. /\ nt \in Nat /\ mt \in Nat /\ \A c \in Txns : c \in Nat
      /\ \A c \in Txns : x[c].state = "none" <=> c >= nt
  BY TxnFacts DEF TxnsOK
<1>2. /\ s \in Snapshot /\ s.reader = t /\ s.through < nt /\ Runs(x, t)
      /\ \A c \in Txns : (c <= s.through \/ c <= t) /\ Runs(x, c) => c \in s.excluded
      /\ \A c \in Txns : c <= t /\ Done(x, c) /\ c \notin s.excluded => c <= s.through
  BY DEF PinOK
<1>3. s.through \in Nat
  BY <1>2, SnapshotFields
<1>4. t < nt
  BY <1>1, <1>2 DEF Runs
<1>5. \A c \in Txns : (c <= s.through \/ c <= t) => c < nt /\ x[c].state # "none"
  BY <1>1, <1>2, <1>3, <1>4
<1>6. \A c \in Txns : (c <= s.through \/ c <= t) /\ Runs(y, c) => c \in s.excluded
  BY <1>2, <1>5 DEF Moves
<1>7. \A c \in Txns : c <= t /\ Done(y, c) /\ c \notin s.excluded => c <= s.through
  BY <1>2, <1>5 DEF Moves
<1>8. s.through < mt
  BY <1>1, <1>2, <1>3
<1> QED
  BY <1>2, <1>6, <1>7, <1>8 DEF PinOK

\* What a step does to pins and to the readers with a stable snapshot.
PinsStep ==
    /\ pin' \in [Txns -> Snapshot \cup {NoPin}]
    /\ \A t \in Txns :
         \/ pin'[t] = NoPin
         \/ pin'[t] = pin[t] /\ (Runs(txn, t) => Runs(txn', t))
         \/ /\ txn' = txn /\ nextTxn' = nextTxn /\ txn[t].state = "active"
            /\ pin'[t] = StatementSnapshot(t)

ReadersStep ==
    \A t \in Txns : txn'[t].state = "active" =>
       \/ txn[t].state = "active" /\ stable'[t] = stable[t]
       \/ stable'[t] = NotStable
       \/ stable'[t] = nextCommit - 1

LEMMA StepOfOne ==
  ASSUME PinInv, NEW t \in Txns, Only(txn, txn', t), EndsReaders,
         \/ t = nextTxn /\ pin' = pin
         \/ Runs(txn', t) /\ txn'[t].state # "active" /\ pin' = pin
         \/ txn'[t].state # "active" /\ pin' = [pin EXCEPT ![t] = NoPin]
  PROVE  PinsStep /\ ReadersStep
<1>1. /\ pin \in [Txns -> Snapshot \cup {NoPin}]
      /\ nextTxn \in Nat
      /\ \A c \in Txns : Runs(txn, c) => c < nextTxn /\ c \in Nat
  <2>1. PageInv /\ pin \in [Txns -> Snapshot \cup {NoPin}]
    BY DEF PinInv, PinsOK, StableInv
  <2>2. nextTxn \in Nat
    BY <2>1, PageFacts
  <2> QED
    BY <2>1, <2>2, EndedFacts
<1>2. \A c \in Txns : c # t => (Runs(txn, c) => Runs(txn', c))
  BY DEF Only, Runs
<1>3. PinsStep
  <2>1. pin' \in [Txns -> Snapshot \cup {NoPin}]
    BY <1>1
  <2>2. ASSUME NEW c \in Txns
        PROVE  pin'[c] = NoPin \/ (pin'[c] = pin[c] /\ (Runs(txn, c) => Runs(txn', c)))
    <3>1. CASE c # t
      BY <1>1, <1>2, <3>1
    <3>2. CASE c = t
      <4>1. CASE t = nextTxn /\ pin' = pin
        <5>1. ~Runs(txn, c)
          BY <1>1, <3>2, <4>1
        <5> QED
          BY <4>1, <5>1
      <4> QED
        BY <1>1, <3>2, <4>1
    <3> QED
      BY <3>1, <3>2
  <2> QED
    BY <2>1, <2>2 DEF PinsStep
<1>4. ReadersStep
  <2> SUFFICES ASSUME NEW c \in Txns, txn'[c].state = "active"
               PROVE  (txn[c].state = "active" /\ stable'[c] = stable[c]) \/ stable'[c] = NotStable
    BY DEF ReadersStep
  <2>1. stable'[c] = stable[c] /\ (txn[c].state # "active" => stable[c] = NotStable)
    BY DEF EndsReaders, PinInv, StableInv
  <2> QED
    BY <2>1
<1> QED
  BY <1>3, <1>4

LEMMA StepOfReaders ==
  ASSUME PinInv, [SweepNext]_sweepVars
  PROVE  PinsStep /\ ReadersStep
<1>1. /\ pin \in [Txns -> Snapshot \cup {NoPin}] /\ nextTxn \in Nat
      /\ txn \in [Txns -> [state : States, commit : Nat]]
      /\ stable \in [Txns -> 0 .. NotStable]
      /\ \A c \in Txns : pin[c] # NoPin => Runs(txn, c)
  <2>1. PageInv
    BY DEF PinInv, StableInv
  <2>2. nextTxn \in Nat
    BY <2>1, PageFacts
  <2> QED
    BY <2>2 DEF PinInv, PinsOK, PinOK, StableInv, PageInv, TxnsOK
<1>2. CASE BeginStable
  <2>1. /\ nextTxn \in Txns /\ pin' = pin /\ stable' = [stable EXCEPT ![nextTxn] = nextCommit - 1]
        /\ txn' = [txn EXCEPT ![nextTxn].state = "active"]
    BY <1>2 DEF BeginStable, Begin, WithState
  <2>2. \A c \in Txns : c # nextTxn => txn'[c] = txn[c] /\ stable'[c] = stable[c]
    BY <1>1, <2>1
  <2>3. stable'[nextTxn] = nextCommit - 1
    BY <1>1, <2>1
  <2>4. ReadersStep
    BY <2>2, <2>3 DEF ReadersStep
  <2>5. Runs(txn', nextTxn)
    BY <1>1, <2>1 DEF Runs
  <2>6. \A c \in Txns : Runs(txn, c) => Runs(txn', c)
    BY <2>2, <2>5 DEF Runs
  <2> QED
    BY <1>1, <2>1, <2>4, <2>6 DEF PinsStep
<1>3. ASSUME txn' = txn, stable' = stable \/ EndsReaders,
             pin' = pin \/ \E t \in Txns : pin' = [pin EXCEPT ![t] = NoPin]
      PROVE  PinsStep /\ ReadersStep
  <2>1. pin' \in [Txns -> Snapshot \cup {NoPin}]
        /\ \A c \in Txns : pin'[c] = NoPin \/ pin'[c] = pin[c]
    BY <1>1, <1>3
  <2> QED
    BY <1>3, <2>1 DEF PinsStep, ReadersStep, EndsReaders
<1>4. CASE ChooseVersions \/ SweepPage \/ UNCHANGED sweepVars
  BY <1>3, <1>4 DEF ChooseVersions, SweepPage, sweepVars, rowVars
<1>5. ASSUME NEW t \in Txns, PinStatement(t) PROVE PinsStep /\ ReadersStep
  <2>1. /\ pin' = [pin EXCEPT ![t] = StatementSnapshot(t)] /\ txn[t].state = "active"
        /\ txn' = txn /\ nextTxn' = nextTxn /\ stable' = stable
    BY <1>5 DEF PinStatement, PublishPin
  <2>2. StatementSnapshot(t) \in Snapshot
    BY <2>1, StatementSnapshotOK DEF PinOK, PinInv
  <2>3. /\ pin' \in [Txns -> Snapshot \cup {NoPin}] /\ pin'[t] = StatementSnapshot(t)
        /\ \A c \in Txns : c # t => pin'[c] = pin[c]
    BY <1>1, <2>1, <2>2
  <2> QED
    BY <2>1, <2>3 DEF PinsStep, ReadersStep
<1>6. CASE RowStep /\ EndsReaders /\ UNCHANGED evidence
  <2>1. ASSUME NEW r \in Rows, NEW kind \in {"insert", "update", "delete"}, NEW t \in Txns,
               Mutate(t, r, kind)
        PROVE  PinsStep /\ ReadersStep
    BY <1>3, <1>6, <2>1 DEF Mutate
  <2>2. ASSUME nextTxn \in Txns, pin' = pin,
               \E state \in {"active", "rolled_back"} : txn' = WithState(nextTxn, state)
        PROVE  PinsStep /\ ReadersStep
    <3>1. Only(txn, txn', nextTxn)
      BY <1>1, <2>2 DEF WithState, Only
    <3> QED
      BY <1>6, <2>2, <3>1, StepOfOne
  <2>3. ASSUME NEW r \in Rows, NEW kind \in {"insert", "update", "delete"},
               MutateOwned(r, kind) \/ MutateOwnedFails(r, kind)
        PROVE  PinsStep /\ ReadersStep
    <3>1. \E state \in {"active", "rolled_back"} : txn' = WithState(nextTxn, state)
      BY <2>3 DEF MutateOwned, MutateOwnedFails, Compensations
    <3>2. nextTxn \in Txns /\ pin' = pin
      BY <2>3 DEF MutateOwned, MutateOwnedFails
    <3> QED
      BY <2>2, <3>1, <3>2
  <2>4. CASE Begin
    <3>1. \E state \in {"active", "rolled_back"} : txn' = WithState(nextTxn, state)
      BY <2>4 DEF Begin
    <3> QED
      BY <2>2, <2>4, <3>1 DEF Begin
  <2>5. ASSUME NEW t \in Txns, Prepare(t) PROVE PinsStep /\ ReadersStep
    <3>1. /\ Only(txn, txn', t) /\ Runs(txn', t) /\ txn'[t].state # "active" /\ pin' = pin
      BY <1>1, <2>5 DEF Prepare, WithState, Only, Runs
    <3> QED
      BY <1>6, <3>1, StepOfOne
  <2>6. ASSUME NEW t \in Txns, Commit(t) \/ Rollback(t) PROVE PinsStep /\ ReadersStep
    <3>1. /\ Only(txn, txn', t) /\ txn'[t].state # "active" /\ pin' = [pin EXCEPT ![t] = NoPin]
      BY <1>1, <2>6 DEF Commit, Rollback, WithState, Only, EndsPin
    <3> QED
      BY <1>6, <3>1, StepOfOne
  <2>7. ASSUME NEW t \in Txns, Unpin(t) PROVE PinsStep /\ ReadersStep
    BY <1>3, <1>6, <2>7 DEF Unpin, EndsPin
  <2> QED
    BY <1>6, <2>1, <2>3, <2>4, <2>5, <2>6, <2>7 DEF RowStep
<1>7. CASE Crash
  <2>1. /\ pin' = [t \in Txns |-> NoPin]
        /\ \A c \in Txns : txn'[c].state # "active"
    <3>1. \A c \in Txns : txn[c] \in [state : States, commit : Nat]
      BY <1>1
    <3> QED
      BY <1>7, <3>1 DEF Crash
  <2> QED
    BY <2>1 DEF PinsStep, ReadersStep
<1> QED
  BY <1>2, <1>4, <1>5, <1>6, <1>7 DEF SweepNext

LEMMA PinStepInv ==
  ASSUME PinInv, [SweepNext]_sweepVars
  PROVE  PinInv' /\ Moves(txn, txn') /\ PinsStep /\ ReadersStep
<1>1. StableInv' /\ Moves(txn, txn') /\ PinsStep /\ ReadersStep
  BY StableStep, StepOfReaders DEF PinInv
<1>2. TxnsOK(txn, nextTxn, nextCommit) /\ TxnsOK(txn', nextTxn', nextCommit')
      /\ PinsOK(txn, nextTxn, pin) /\ StableInv
  BY <1>1 DEF PinInv, StableInv, PageInv
<1>3. nextTxn <= nextTxn'
  <2>1. nextTxn' = nextTxn \/ nextTxn' = nextTxn + 1
    BY DEF SweepNext, BeginStable, ChooseVersions, SweepPage, PinStatement, PublishPin, RowStep,
       Crash, Begin, Mutate, MutateOwned, MutateOwnedFails, Prepare, Commit, Rollback, Unpin,
       sweepVars, rowVars
  <2>2. nextTxn \in Nat
    BY <1>2, TxnFacts
  <2> QED
    BY <2>1, <2>2
<1>4. ASSUME NEW t \in Txns, pin'[t] # NoPin
      PROVE  PinOK(txn', nextTxn', pin'[t], t)
  <2>1. CASE pin'[t] = pin[t] /\ (Runs(txn, t) => Runs(txn', t))
    <3>1. PinOK(txn, nextTxn, pin[t], t)
      BY <1>2, <1>4, <2>1 DEF PinsOK
    <3>2. Runs(txn', t)
      BY <2>1, <3>1 DEF PinOK
    <3>3. PinOK(txn', nextTxn', pin[t], t)
      BY <1>1, <1>2, <1>3, <3>1, <3>2, PinsLater
    <3> QED
      BY <2>1, <3>3
  <2>2. CASE /\ txn' = txn /\ nextTxn' = nextTxn /\ txn[t].state = "active"
             /\ pin'[t] = StatementSnapshot(t)
    BY <1>2, <2>2, StatementSnapshotOK
  <2> QED
    BY <1>1, <1>4, <2>1, <2>2 DEF PinsStep
<1>5. PinsOK(txn', nextTxn', pin')
  BY <1>1, <1>4 DEF PinsOK, PinsStep
<1> QED
  BY <1>1, <1>5 DEF PinInv

LEMMA PinStart == SweepInit => PinInv
<1> SUFFICES ASSUME SweepInit PROVE PinInv
  OBVIOUS
<1>1. pin = [t \in Txns |-> NoPin]
  BY DEF SweepInit, Init
<1> QED
  BY <1>1, StableStart DEF PinInv, PinsOK

-----------------------------------------------------------------------------
(***************************************************************************)
(* What a sweep has chosen.  A version is doomed if its writer is undone,  *)
(* or if a newer version of the row is committed and seen through every    *)
(* snapshot there is and every one a running stable reader can still take. *)
(* Once that is so it stays so, which is what makes the choice and the     *)
(* removal safe as two steps.                                              *)
(***************************************************************************)
SeenByAll(x, pins, st, c) ==
    /\ Done(x, c)
    /\ \A t \in Txns : pins[t] # NoPin => c <= pins[t].through /\ c \notin pins[t].excluded
    /\ \A t \in Txns : x[t].state = "active" /\ st[t] # NotStable => x[c].commit <= st[t]

Doomed(x, p, pins, st, v) ==
    \/ x[v.creator].state = "rolled_back"
    \/ \E w \in p : /\ w.row = v.row /\ w.version > v.version
                    /\ SeenByAll(x, pins, st, w.creator)

EvidenceOK(x, p, pins, st, ev) ==
    /\ \A e \in ev : \E v \in p : Identity(v) = e
    /\ \A v \in p : Identity(v) \in ev => Doomed(x, p, pins, st, v)

EvInv == PinInv /\ EvidenceOK(txn, page, pin, stable, evidence)

LEMMA PinFacts ==
  ASSUME PinInv, NEW t \in Txns, pin[t] # NoPin
  PROVE  /\ PinOK(txn, nextTxn, pin[t], t)
         /\ pin[t].reader = t /\ pin[t].through \in Nat /\ pin[t].excluded \subseteq Txns
<1>1. PinOK(txn, nextTxn, pin[t], t)
  BY DEF PinInv, PinsOK
<1> QED
  BY <1>1, SnapshotFields DEF PinOK

\* The horizon of cleanup is below whatever a pinned snapshot excludes, below
\* its reader, and below every commit a stable reader does not see.
LEMMA HorizonFacts ==
  ASSUME PinInv
  PROVE  /\ CleanupHorizon \in Nat
         /\ \A t \in Txns : pin[t] # NoPin =>
              CleanupHorizon <= t /\ \A c \in pin[t].excluded : CleanupHorizon <= c
         /\ \A t, c \in Txns :
              txn[t].state = "active" /\ stable[t] # NotStable /\ c \in CommittedAfter(stable[t])
                => CleanupHorizon <= c
<1>1. PageInv /\ nextTxn \in Nat /\ Txns \subseteq Nat
  BY PageFacts DEF PinInv, StableInv
<1>2. /\ Min({nextTxn} \cup Running) \in Nat /\ Min({nextTxn} \cup Active) \in Nat
  <2>1. {nextTxn} \cup Running \subseteq Nat /\ {nextTxn} \cup Active \subseteq Nat
    BY <1>1 DEF Running, Active
  <2> QED
    BY <2>1, MinOfNaturals
<1>3. OldestInteresting \in Nat /\ OldestActive \in Nat
  BY <1>2 DEF OldestInteresting, OldestActive
<1>4. ASSUME NEW t \in Txns, pin[t] # NoPin
      PROVE  /\ SnapshotRetentionBoundary(pin[t]) \in Nat
             /\ SnapshotRetentionBoundary(pin[t]) <= t
             /\ \A c \in pin[t].excluded : SnapshotRetentionBoundary(pin[t]) <= c
  <2> DEFINE S == pin[t].excluded \cup {pin[t].reader}
  <2>1. S \subseteq Nat /\ t \in S
    BY <1>1, <1>4, PinFacts
  <2>2. Min(S) \in Nat /\ \A c \in S : Min(S) <= c
    <3> HIDE DEF S
    <3> QED
      BY <2>1, MinOfNaturals
  <2>3. SnapshotRetentionBoundary(pin[t]) = Min(S)
    BY DEF SnapshotRetentionBoundary
  <2> QED
    BY <2>1, <2>2, <2>3
<1> DEFINE P == PublishedSnapshotRetentionHorizons
           Q == IF P = {} THEN {OldestActive} ELSE {nextTxn} \cup P
<1>5. P \subseteq Nat /\ \A t \in Txns : pin[t] # NoPin => SnapshotRetentionBoundary(pin[t]) \in P
  BY <1>4 DEF PublishedSnapshotRetentionHorizons
<1>6. StableHolds \subseteq Nat /\ \A t, c \in Txns :
              txn[t].state = "active" /\ stable[t] # NotStable /\ c \in CommittedAfter(stable[t])
                => c \in StableHolds
  <2> DEFINE R == {t \in Active : stable[t] # NotStable}
             B == {stable[t] : t \in R}
  <2>1. B \subseteq Nat
    <3>1. \A t \in Txns : stable[t] \in Nat
      BY RowConstants DEF PinInv, StableInv, NotStable
    <3> QED
      BY <3>1 DEF Active
  <2>2. \A b : CommittedAfter(b) \subseteq Txns
    BY DEF CommittedAfter
  <2>3. StableHolds = IF R = {} THEN {} ELSE {OldestInteresting} \cup CommittedAfter(Min(B))
    BY DEF StableHolds
  <2>4. ASSUME NEW t \in Txns, NEW c \in Txns, txn[t].state = "active", stable[t] # NotStable,
               c \in CommittedAfter(stable[t])
        PROVE  c \in StableHolds
    <3>1. t \in R /\ stable[t] \in B
      BY <2>4 DEF Active
    <3>2. Min(B) \in B /\ Min(B) <= stable[t]
      <4> HIDE DEF B
      <4> QED
        BY <2>1, <3>1, MinOfNaturals
    <3>3. Min(B) \in Nat /\ stable[t] \in Nat /\ txn[c].commit \in Nat
      <4>1. txn[c].commit \in Nat
        BY <1>1, EndedFacts
      <4> HIDE DEF B
      <4> QED
        BY <2>1, <3>1, <3>2, <4>1
    <3>4. c \in CommittedAfter(Min(B))
      <4> HIDE DEF B
      <4> QED
        BY <2>4, <3>2, <3>3 DEF CommittedAfter
    <3> QED
      BY <2>3, <3>1, <3>4
  <2>5. StableHolds \subseteq Nat
    BY <1>1, <1>3, <2>2, <2>3
  <2> QED
    BY <2>4, <2>5
<1>7. Q \cup StableHolds \subseteq Nat /\ Q \cup StableHolds # {} /\ P \subseteq Q
  BY <1>1, <1>3, <1>5, <1>6
<1>8. OldestSnapshot = Min(Q \cup StableHolds)
  BY DEF OldestSnapshot
<1> HIDE DEF P, Q
<1>9. OldestSnapshot \in Nat /\ \A c \in Q \cup StableHolds : OldestSnapshot <= c
  BY <1>7, <1>8, MinOfNaturals
<1> DEFINE H == {OldestInteresting, OldestActive, OldestSnapshot}
<1>10. H \subseteq Nat /\ CleanupHorizon = Min(H) /\ OldestSnapshot \in H
  BY <1>3, <1>9 DEF CleanupHorizon
<1> HIDE DEF H
<1>11. CleanupHorizon \in Nat /\ CleanupHorizon <= OldestSnapshot
  BY <1>10, MinOfNaturals
<1>12. \A c \in Q \cup StableHolds : c \in Nat /\ CleanupHorizon <= c
  <2> TAKE c \in Q \cup StableHolds
  <2>1. c \in Nat /\ OldestSnapshot <= c
    BY <1>7, <1>9
  <2> QED
    BY <1>9, <1>11, <2>1
<1>13. ASSUME NEW t \in Txns, pin[t] # NoPin
       PROVE  CleanupHorizon <= t /\ \A c \in pin[t].excluded : CleanupHorizon <= c
  <2> DEFINE b == SnapshotRetentionBoundary(pin[t])
  <2>1. b \in Nat /\ b <= t /\ \A c \in pin[t].excluded : b <= c
    BY <1>4, <1>13
  <2>2. CleanupHorizon <= b
    BY <1>5, <1>7, <1>12, <1>13
  <2>3. t \in Nat /\ pin[t].excluded \subseteq Nat
    BY <1>1, <1>13, PinFacts
  <2> HIDE DEF b
  <2> QED
    BY <1>11, <2>1, <2>2, <2>3
<1> QED
  BY <1>6, <1>11, <1>12, <1>13

\* Whatever commits below the horizon is seen by everyone.
LEMMA BelowHorizonSeen ==
  ASSUME PinInv, NEW c \in Txns, Done(txn, c), c < CleanupHorizon
  PROVE  SeenByAll(txn, pin, stable, c)
<1>1. CleanupHorizon \in Nat /\ c \in Nat /\ PageInv
  BY HorizonFacts, PageFacts DEF PinInv, StableInv
<1>2. ASSUME NEW t \in Txns, pin[t] # NoPin
      PROVE  c <= pin[t].through /\ c \notin pin[t].excluded
  <2>1. CleanupHorizon <= t /\ t \in Nat
    BY <1>1, <1>2, HorizonFacts, EndedFacts
  <2>2. c <= t
    BY <1>1, <2>1
  <2>3. c \notin pin[t].excluded
    <3>1. \A d \in pin[t].excluded : CleanupHorizon <= d
      BY <1>2, HorizonFacts
    <3> QED
      BY <1>1, <3>1
  <2>4. PinOK(txn, nextTxn, pin[t], t)
    BY <1>2, PinFacts
  <2> QED
    BY <2>2, <2>3, <2>4 DEF PinOK
<1>3. ASSUME NEW t \in Txns, txn[t].state = "active", stable[t] # NotStable
      PROVE  txn[c].commit <= stable[t]
  <2>1. c \notin CommittedAfter(stable[t])
    <3>1. c \in CommittedAfter(stable[t]) => CleanupHorizon <= c
      BY <1>3, HorizonFacts
    <3> QED
      BY <1>1, <3>1
  <2>2. txn[c].commit \in Nat /\ stable[t] \in Nat
    <3>1. txn[c].commit \in Nat
      BY <1>1, EndedFacts
    <3>2. stable[t] \in Nat
      BY RowConstants DEF PinInv, StableInv, NotStable
    <3> QED
      BY <3>1, <3>2
  <2> QED
    BY <2>1, <2>2 DEF CommittedAfter, Done
<1> QED
  BY <1>2, <1>3 DEF SeenByAll

LEMMA ReclaimableIsDoomed ==
  ASSUME PinInv, ~ReclaimDeleteMarkers, NEW v \in page, NEW hold \in Nat, Reclaimable(v, hold)
  PROVE  Doomed(txn, page, pin, stable, v)
<1>1. CASE txn[v.creator].state = "rolled_back"
  BY <1>1 DEF Doomed
<1>2. CASE txn[v.creator].state # "rolled_back"
  <2>1. txn[v.creator].state = "committed" /\ ~v.deleted /\ v.next # 0
    BY <1>2 DEF Reclaimable, IsCleanupReclaimableByKind
  <2>2. SuccessorAllows(v, hold)
    BY <2>1 DEF Reclaimable
  <2>3. PICK w \in page : /\ w.row = v.row /\ w.version = v.next
                          /\ w.creator < Min({CleanupHorizon, hold})
                          /\ txn[w.creator].state = "committed"
    BY <2>2 DEF SuccessorAllows, SuccessorOf
  <2>4. PageInv /\ CleanupHorizon \in Nat
    BY HorizonFacts DEF PinInv, StableInv
  <2>5. w.version > v.version
    BY <2>1, <2>3, <2>4 DEF PageInv, PageOK
  <2>6. Min({CleanupHorizon, hold}) <= CleanupHorizon /\ Min({CleanupHorizon, hold}) \in Nat
    <3>1. {CleanupHorizon, hold} \subseteq Nat
      BY <2>4
    <3> QED
      BY <3>1, MinOfNaturals
  <2>7. w.creator \in Txns /\ w.creator \in Nat
    BY <2>4, CreatorsBegun DEF PageInv
  <2>8. w.creator < CleanupHorizon
    BY <2>3, <2>4, <2>6, <2>7
  <2>9. Done(txn, w.creator)
    BY <2>3 DEF Done
  <2>10. SeenByAll(txn, pin, stable, w.creator)
    BY <2>7, <2>8, <2>9, BelowHorizonSeen
  <2> QED
    BY <2>3, <2>5, <2>10 DEF Doomed
<1> QED
  BY <1>1, <1>2

LEMMA SeenLater ==
  ASSUME PinInv, [SweepNext]_sweepVars, NEW c \in Txns, SeenByAll(txn, pin, stable, c)
  PROVE  SeenByAll(txn', pin', stable', c)
<1>1. /\ Done(txn, c) /\ txn'[c] = txn[c]
      /\ PinsStep /\ ReadersStep
  BY PinStepInv DEF SeenByAll, Moves
<1>2. Done(txn', c)
  BY <1>1 DEF Done
<1>3. ASSUME NEW t \in Txns, pin'[t] # NoPin
      PROVE  c <= pin'[t].through /\ c \notin pin'[t].excluded
  <2>1. CASE pin'[t] = pin[t]
    BY <1>3, <2>1 DEF SeenByAll
  <2>2. CASE txn[t].state = "active" /\ pin'[t] = StatementSnapshot(t)
    <3>1. ShowsCommits(StatementSnapshot(t), t)
      BY <2>2, StatementSnapshotOK DEF PinInv
    <3>2. stable[t] = NotStable \/ txn[c].commit <= stable[t]
      BY <2>2 DEF SeenByAll
    <3> QED
      BY <1>1, <2>2, <3>1, <3>2 DEF ShowsCommits
  <2> QED
    BY <1>1, <1>3, <2>1, <2>2 DEF PinsStep
<1>4. ASSUME NEW t \in Txns, txn'[t].state = "active", stable'[t] # NotStable
      PROVE  txn'[c].commit <= stable'[t]
  <2>1. CASE txn[t].state = "active" /\ stable'[t] = stable[t]
    BY <1>1, <1>4, <2>1 DEF SeenByAll
  <2>2. CASE stable'[t] = nextCommit - 1
    <3>1. txn[c].commit < nextCommit /\ txn[c].commit \in Nat /\ nextCommit \in Nat
      BY <1>1, TxnFacts DEF PinInv, StableInv, PageInv, TxnsOK
    <3> QED
      BY <1>1, <2>2, <3>1
  <2> QED
    BY <1>1, <1>4, <2>1, <2>2 DEF ReadersStep
<1> QED
  BY <1>2, <1>3, <1>4 DEF SeenByAll

\* A write: the page grows by one version, which its writer is marked to have
\* written, unless the writer began in the step and has no snapshot.
Writes(r, t) ==
    /\ Grown(txn', page, page', r, t, NewSequence(r, t)) /\ ~Done(txn', t)
    /\ pin' = pin /\ evidence' = evidence
    /\ \/ t = nextTxn /\ saw' = saw
       \/ saw' = [saw EXCEPT ![t][r] = OwnWrite]

LEMMA StepOfPage ==
  ASSUME PageInv, [SweepNext]_sweepVars
  PROVE  \/ SweepPage
         \/ page' = page
         \/ \E r \in Rows, t \in Txns : Writes(r, t)
<1>0. txn \in [Txns -> [state : States, commit : Nat]]
  BY DEF PageInv, TxnsOK
<1>1. CASE BeginStable \/ ChooseVersions \/ (\E t \in Txns : PinStatement(t)) \/ Crash
           \/ UNCHANGED sweepVars
  BY <1>1 DEF BeginStable, Begin, ChooseVersions, PinStatement, PublishPin, Crash, sweepVars,
     rowVars
<1>2. CASE RowStep /\ EndsReaders /\ UNCHANGED evidence
  <2>1. CASE Begin \/ \E t \in Txns : Prepare(t) \/ Commit(t) \/ Rollback(t) \/ Unpin(t)
    BY <2>1 DEF Begin, Prepare, Commit, Rollback, Unpin
  <2>2. ASSUME NEW r \in Rows, NEW kind, NEW t \in Txns, Mutate(t, r, kind)
        PROVE  Writes(r, t)
    <3>1. Grown(txn', page, page', r, t, NewSequence(r, t))
      BY <2>2, MutatePage
    <3>2. ~Done(txn', t)
      BY <2>2 DEF Mutate, Done
    <3> QED
      BY <1>2, <2>2, <3>1, <3>2 DEF Mutate, Writes
  <2>3. ASSUME NEW r \in Rows, NEW kind, MutateOwned(r, kind)
        PROVE  nextTxn \in Txns /\ Writes(r, nextTxn)
    <3>1. Grown(txn', page, page', r, nextTxn, NewSequence(r, nextTxn))
      BY <2>3, MutateOwnedPage
    <3>2. nextTxn \in Txns /\ ~Done(txn', nextTxn)
      BY <1>0, <2>3 DEF MutateOwned, WithState, Done
    <3> QED
      BY <1>2, <2>3, <3>1, <3>2 DEF MutateOwned, Writes
  <2>4. ASSUME NEW r \in Rows, NEW kind, MutateOwnedFails(r, kind)
        PROVE  page' = page \/ (nextTxn \in Txns /\ Writes(r, nextTxn))
    <3>1. page' = page \/ Grown(txn', page, page', r, nextTxn, NewSequence(r, nextTxn))
      BY <2>4, MutateOwnedFailsPage
    <3>2. nextTxn \in Txns /\ ~Done(txn', nextTxn)
      BY <1>0, <2>4 DEF MutateOwnedFails, Compensations, WithState, Done
    <3> QED
      BY <1>2, <2>4, <3>1, <3>2 DEF MutateOwnedFails, Writes
  <2> QED
    BY <1>2, <2>1, <2>2, <2>3, <2>4 DEF RowStep
<1> QED
  BY <1>1, <1>2 DEF SweepNext

\* What is chosen and is still on the grown page was there before.
LEMMA GrownKeepsEvidence ==
  ASSUME NEW x, NEW p, NEW q, NEW r, NEW t, NEW n \in Nat, Grown(x, p, q, r, t, n),
         p \subseteq Version, NEW ev, \A e \in ev : \E v \in p : Identity(v) = e,
         NEW y, NEW pins, NEW st, \A v \in p : Identity(v) \in ev => Doomed(y, p, pins, st, v)
  PROVE  EvidenceOK(y, q, pins, st, ev)
<1>1. \A v, w : Same(v, w) => Identity(v) = Identity(w)
  BY DEF Same, Identity
<1>2. \A v, w : Identity(v) = Identity(w) =>
                  v.row = w.row /\ v.creator = w.creator /\ v.version = w.version
  BY DEF Identity
<1>3. ASSUME NEW e \in ev PROVE \E w \in q : Identity(w) = e
  BY <1>1 DEF Grown
<1>4. ASSUME NEW w \in q, Identity(w) \in ev PROVE Doomed(y, q, pins, st, w)
  <2>1. PICK v \in p : Identity(v) = Identity(w)
    BY <1>4
  <2>2. v.row = w.row /\ v.creator = w.creator /\ v.version = w.version
    BY <1>2, <2>1
  <2>3. Doomed(y, p, pins, st, v)
    BY <1>4, <2>1
  <2>4. CASE y[v.creator].state = "rolled_back"
    BY <2>2, <2>4 DEF Doomed
  <2>5. ASSUME NEW u \in p, u.row = v.row, u.version > v.version,
               SeenByAll(y, pins, st, u.creator)
        PROVE  Doomed(y, q, pins, st, w)
    <3>1. PICK z \in q : Same(u, z)
      BY DEF Grown
    <3>2. z.row = w.row /\ z.version > w.version /\ SeenByAll(y, pins, st, z.creator)
      BY <2>2, <2>5, <3>1 DEF Same
    <3> QED
      BY <3>2 DEF Doomed
  <2> QED
    BY <2>3, <2>4, <2>5 DEF Doomed
<1> QED
  BY <1>3, <1>4 DEF EvidenceOK

LEMMA DoomedLater ==
  ASSUME PinInv, [SweepNext]_sweepVars, NEW v \in page, Doomed(txn, page, pin, stable, v)
  PROVE  Doomed(txn', page, pin', stable', v)
<1>1. PageInv /\ Moves(txn, txn')
  BY PinStepInv DEF PinInv, StableInv
<1>2. \A w \in page : w.creator \in Txns
  BY <1>1, CreatorsBegun DEF PageInv
<1>3. txn[v.creator].state = "rolled_back" => txn'[v.creator].state = "rolled_back"
  BY <1>1, <1>2 DEF Moves
<1>4. \A w \in page : SeenByAll(txn, pin, stable, w.creator) =>
                        SeenByAll(txn', pin', stable', w.creator)
  BY <1>2, SeenLater
<1> QED
  BY <1>3, <1>4 DEF Doomed

LEMMA EvidenceStep ==
  ASSUME EvInv, ~ReclaimDeleteMarkers, [SweepNext]_sweepVars
  PROVE  EvInv'
<1>1. PinInv /\ PinInv' /\ PageInv /\ EvidenceOK(txn, page, pin, stable, evidence)
  BY PinStepInv DEF EvInv, PinInv, StableInv
<1>2. CASE evidence' = {}
  <2>1. EvidenceOK(txn', page', pin', stable', {})
    BY DEF EvidenceOK
  <2> QED
    BY <1>1, <1>2, <2>1 DEF EvInv
<1>3. ASSUME page' = page, evidence' = evidence PROVE EvInv'
  <2>1. EvidenceOK(txn', page, pin', stable', evidence)
    BY <1>1, DoomedLater DEF EvidenceOK
  <2> QED
    BY <1>1, <1>3, <2>1 DEF EvInv
<1>4. ASSUME NEW r \in Rows, NEW t \in Txns, Writes(r, t) PROVE EvInv'
  <2>1. /\ \A e \in evidence : \E v \in page : Identity(v) = e
        /\ \A v \in page : Identity(v) \in evidence => Doomed(txn', page, pin', stable', v)
    BY <1>1, DoomedLater DEF EvidenceOK
  <2>2. Grown(txn', page, page', r, t, NewSequence(r, t)) /\ evidence' = evidence
    BY <1>4 DEF Writes
  <2>3. NewSequence(r, t) \in Nat /\ page \subseteq Version
    BY <1>1, PrefixBelowNewSequence DEF PageInv, PageOK
  <2>4. EvidenceOK(txn', page', pin', stable', evidence)
    BY <2>1, <2>2, <2>3, GrownKeepsEvidence
  <2> QED
    BY <1>1, <2>2, <2>4 DEF EvInv
<1>5. CASE ChooseVersions
  <2>1. PICK workset \in SUBSET Candidates, hold \in 1 .. nextTxn :
          evidence' = {Identity(v) : v \in {w \in workset : Reclaimable(w, hold)}}
    BY <1>5 DEF ChooseVersions
  <2>2. /\ page' = page /\ txn' = txn /\ pin' = pin /\ stable' = stable
    BY <1>5 DEF ChooseVersions, rowVars
  <2>3. workset \subseteq page /\ hold \in Nat
    BY <1>1, <2>1, PageFacts DEF Candidates
  <2>4. \A e \in evidence' : \E v \in page : Identity(v) = e
    BY <2>1, <2>3
  <2>5. ASSUME NEW v \in page, Identity(v) \in evidence'
        PROVE  Doomed(txn, page, pin, stable, v)
    <3>1. PICK w \in workset : Reclaimable(w, hold) /\ Identity(w) = Identity(v)
      BY <2>1, <2>5
    <3>2. w.row = v.row /\ w.version = v.version
      BY <3>1 DEF Identity
    <3>3. w = v
      BY <1>1, <2>3, <3>2 DEF PageInv, PageOK
    <3> QED
      BY <1>1, <2>3, <3>1, <3>3, ReclaimableIsDoomed
  <2>6. EvidenceOK(txn, page, pin, stable, evidence')
    BY <2>4, <2>5 DEF EvidenceOK
  <2> QED
    BY <1>1, <2>2, <2>6 DEF EvInv
<1>6. evidence' = {} \/ evidence' = evidence \/ ChooseVersions
  BY DEF SweepNext, BeginStable, SweepPage, PinStatement, sweepVars
<1>7. SweepPage => evidence' = {}
  BY DEF SweepPage
<1> QED
  BY <1>1, <1>2, <1>3, <1>4, <1>5, <1>6, <1>7, StepOfPage

LEMMA EvidenceStart == SweepInit => EvInv
<1> SUFFICES ASSUME SweepInit PROVE EvInv
  OBVIOUS
<1>1. evidence = {}
  BY DEF SweepInit
<1> QED
  BY <1>1, PinStart DEF EvInv, EvidenceOK

-----------------------------------------------------------------------------
(***************************************************************************)
(* A sweep changes no read.                                                *)
(***************************************************************************)
\* Snapshot s sees whatever everybody sees.
ShowsSeen(s) == \A c \in Txns : SeenByAll(txn, pin, stable, c) => Sees(txn, c, s)

LEMMA ReadableShowsSeen ==
  ASSUME PinInv, NEW s \in Readable
  PROVE  ShowsSeen(s)
<1> SUFFICES ASSUME NEW c \in Txns, SeenByAll(txn, pin, stable, c) PROVE Sees(txn, c, s)
  BY DEF ShowsSeen
<1>1. Done(txn, c) /\ PageInv
  BY DEF SeenByAll, PinInv, StableInv
<1>2. CASE s = LatestCommittedSnapshot(0)
  <2>1. s.through = LatestCommittedLocalTransactionId /\ s.excluded = {}
    BY <1>2 DEF LatestCommittedSnapshot
  <2>2. c <= LatestCommittedLocalTransactionId
    BY <1>1, LatestFacts
  <2> QED
    BY <1>1, <2>1, <2>2 DEF Sees
<1>3. ASSUME NEW t \in Txns, pin[t] # NoPin, s = pin[t] PROVE Sees(txn, c, s)
  BY <1>1, <1>3 DEF Sees, SeenByAll
<1>4. ASSUME NEW t \in Active, s = StatementSnapshot(t) PROVE Sees(txn, c, s)
  <2>1. t \in Txns /\ txn[t].state = "active"
    BY <1>4 DEF Active
  <2>2. ShowsCommits(s, t)
    BY <1>4, <2>1, StatementSnapshotOK DEF PinInv
  <2>3. stable[t] = NotStable \/ txn[c].commit <= stable[t]
    BY <2>1 DEF SeenByAll
  <2> QED
    BY <1>1, <2>1, <2>2, <2>3 DEF Sees, ShowsCommits
<1> QED
  BY <1>2, <1>3, <1>4 DEF Readable

\* The newest version a reader is shown is not doomed.
LEMMA SweptNewest ==
  ASSUME EvInv, NEW r, NEW s, ShowsSeen(s)
  PROVE  Newest(Shown(txn, SweptPage, r, s)) = Newest(Shown(txn, page, r, s))
<1> DEFINE V == Shown(txn, page, r, s)
           W == Shown(txn, SweptPage, r, s)
           m == Newest(V)
<1>1. /\ page \subseteq Version /\ EvidenceOK(txn, page, pin, stable, evidence)
      /\ \A a, b \in page : a.row = b.row /\ a.version = b.version => a = b
      /\ \A v \in page : v.creator \in Txns /\ v.version \in Nat
  BY VersionFields DEF EvInv, PinInv, StableInv, PageInv, PageOK
<1>2. W \subseteq V /\ V \subseteq page /\ \A v \in V : v.row = r /\ Sees(txn, v.creator, s)
  BY DEF Shown, SweptPage
<1>3. \A v \in V : Identity(v) \notin evidence => v \in W
  BY DEF Shown, SweptPage
<1>4. \A w \in page : w.row = r /\ Sees(txn, w.creator, s) => w \in V
  BY DEF Shown
<1> HIDE DEF V, W
<1>5. CASE V = {}
  <2>1. W = V
    BY <1>2, <1>5
  <2> QED
    BY <2>1 DEF V, W
<1>6. CASE V # {}
  <2>1. m \in V /\ \A w \in V : w.version <= m.version
    BY <1>1, <1>2, <1>6, NewestFacts
  <2> HIDE DEF m
  <2>2. ASSUME Identity(m) \in evidence PROVE FALSE
    <3>1. Doomed(txn, page, pin, stable, m) /\ Sees(txn, m.creator, s)
      BY <1>1, <1>2, <2>1, <2>2 DEF EvidenceOK
    <3>2. txn[m.creator].state # "rolled_back"
      BY <3>1 DEF Sees, Done
    <3>3. PICK w \in page : /\ w.row = m.row /\ w.version > m.version
                            /\ SeenByAll(txn, pin, stable, w.creator)
      BY <3>1, <3>2 DEF Doomed
    <3>4. w \in V
      BY <1>1, <1>2, <1>4, <2>1, <3>3 DEF ShowsSeen
    <3> QED
      BY <1>1, <1>2, <2>1, <3>3, <3>4
  <2>3. m \in W
    BY <1>3, <2>1, <2>2
  <2>4. /\ W \subseteq Version /\ \A w \in W : w.version <= m.version
        /\ \A a, b \in W : a.version = b.version => a = b
    BY <1>1, <1>2, <2>1
  <2>5. Newest(W) = m
    BY <2>3, <2>4, NewestUnique
  <2> QED
    BY <2>5 DEF m, V, W
<1> QED
  BY <1>5, <1>6 DEF V, W

LEMMA NextReadIsShown ==
  ASSUME NEW r, NEW s
  PROVE  ReadVersion(r, s)' = ReadFrom(Shown(txn', page', r, s))
<1>1. \A w : Evaluate(w, s)' = "visible" <=> Sees(txn', w.creator, s)
  BY DEF Evaluate, Sees, Done
<1>2. {w \in VersionsOf(r)' : Evaluate(w, s)' = "visible"} = Shown(txn', page', r, s)
  BY <1>1 DEF VersionsOf, Shown
<1> QED
  BY <1>2 DEF ReadVersion, ReadFrom

LEMMA SweptRead ==
  ASSUME EvInv, NEW r, NEW s, ShowsSeen(s), SweepPage
  PROVE  ReadVersion(r, s)' = ReadVersion(r, s)
<1>1. page' = SweptPage /\ txn' = txn
  BY DEF SweepPage
<1>2. ReadVersion(r, s)' = ReadFrom(Shown(txn, SweptPage, r, s))
  BY <1>1, NextReadIsShown
<1>3. ReadVersion(r, s) = ReadFrom(Shown(txn, page, r, s))
  BY ReadIsShown
<1>4. Newest(Shown(txn, SweptPage, r, s)) = Newest(Shown(txn, page, r, s))
  BY SweptNewest
<1> QED
  BY <1>2, <1>3, <1>4 DEF ReadFrom

\* No step but the sweep takes versions off the page.
LEMMA OnlySweepsRemove ==
  ASSUME PageInv, [SweepNext]_sweepVars, page' = SweptPage, page' # page
  PROVE  SweepPage
<1>1. page' \subseteq page
  BY DEF SweptPage
<1>2. ASSUME NEW r \in Rows, NEW t \in Txns, Writes(r, t) PROVE FALSE
  <2>1. PICK w \in page' : IsNew(w, r, t, NewSequence(r, t))
    BY <1>2 DEF Writes, Grown
  <2>2. w \in page /\ w.row = r /\ w.version = NewSequence(r, t)
    BY <1>1, <2>1 DEF IsNew
  <2>3. w.version < NewSequence(r, t) /\ NewSequence(r, t) \in Nat
    BY <2>2, PrefixBelowNewSequence
  <2> QED
    BY <2>2, <2>3
<1> QED
  BY <1>2, StepOfPage

\* Where delete markers are kept, removing versions changes the result of no
\* reader: the latest commit, any pinned snapshot (published before the
\* choice, or between choice and removal), the next statement of any running
\* transaction.  (The request may ask for delete markers too: then a deleted
\* row comes back, which MCVersionSweepMarkers shows.)
THEOREM SweepsChangeNoRead ==
  ASSUME ~ReclaimDeleteMarkers
  PROVE  SweepSpec => SweepChangesNoRead
<1>1. ASSUME EvInv, [SweepNext]_sweepVars
      PROVE  [page' = SweptPage /\ page' # page =>
                \A r \in Rows, s \in Readable :
                  ReadVersion(r, s)' = ReadVersion(r, s)]_sweepVars
  <2> SUFFICES ASSUME page' = SweptPage, page' # page, NEW r \in Rows, NEW s \in Readable
               PROVE  ReadVersion(r, s)' = ReadVersion(r, s)
    OBVIOUS
  <2>1. PinInv /\ PageInv
    BY <1>1 DEF EvInv, PinInv, StableInv
  <2>2. SweepPage
    BY <1>1, <2>1, OnlySweepsRemove
  <2>3. ShowsSeen(s)
    BY <2>1, ReadableShowsSeen
  <2> QED
    BY <1>1, <2>2, <2>3, SweptRead
<1>2. EvInv /\ [SweepNext]_sweepVars => EvInv'
  BY EvidenceStep
<1> QED
  BY <1>1, <1>2, EvidenceStart, PTL DEF SweepSpec, SweepChangesNoRead

-----------------------------------------------------------------------------
(***************************************************************************)
(* What a pinned snapshot shows.                                           *)
(***************************************************************************)
ReadsKept(x, p, pins, sw) ==
    \A t \in Txns, r \in Rows :
      pins[t] # NoPin /\ sw[t][r] # OwnWrite =>
        ReadFrom(Shown(x, p, r, pins[t])).version = sw[t][r]

Seen == 0 .. MaxVersions \cup {OwnWrite}

SawInv == EvInv /\ saw \in [Txns -> [Rows -> Seen]] /\ ReadsKept(txn, page, pin, saw)

LEMMA ReadInRange ==
  ASSUME NEW V, V \subseteq Version
  PROVE  ReadFrom(V).version \in 0 .. MaxVersions /\ ReadFrom(V).version \in Seen
<1>1. NoVersion.version \in 0 .. MaxVersions
  BY RowConstants, NewestOfNone
<1>2. CASE V = {}
  BY <1>1, <1>2, NewestOfNone DEF ReadFrom, Seen
<1>3. CASE V # {}
  <2>1. Newest(V).version \in 0 .. MaxVersions
    BY <1>3, NewestFacts, VersionFields
  <2> QED
    BY <1>1, <2>1 DEF ReadFrom, Seen
<1> QED
  BY <1>2, <1>3

\* Links aside, equal sets of versions are read alike.
LEMMA SameReads ==
  ASSUME NEW V, NEW W, V \subseteq Version, W \subseteq Version,
         \A a, b \in W : a.version = b.version => a = b,
         \A v \in V : \E w \in W : Same(v, w), \A w \in W : \E v \in V : Same(v, w)
  PROVE  ReadFrom(W).version = ReadFrom(V).version
<1>1. CASE V = {}
  <2>1. W = V
    BY <1>1
  <2> QED
    BY <2>1
<1>2. CASE V # {}
  <2>1. Newest(V) \in V /\ Newest(V) # NoVersion /\ \A v \in V : v.version <= Newest(V).version
    BY <1>2, NewestFacts
  <2>2. PICK w \in W : Same(Newest(V), w)
    BY <2>1
  <2>3. w.version = Newest(V).version /\ w.deleted = Newest(V).deleted
    BY <2>2 DEF Same
  <2>4. \A u \in W : u.version <= w.version
    BY <2>1, <2>3 DEF Same
  <2>5. Newest(W) = w
    BY <2>4, NewestUnique
  <2>6. w # NoVersion
    BY VersionFields
  <2> QED
    BY <2>1, <2>3, <2>5, <2>6 DEF ReadFrom
<1> QED
  BY <1>1, <1>2

\* For as long as its reader runs, what a snapshot sees of those that had
\* begun does not change.
LEMMA SightLasts ==
  ASSUME NEW x, NEW y, NEW nt, NEW nc, TxnsOK(x, nt, nc), NEW s, NEW t \in Txns, PinOK(x, nt, s, t),
         Moves(x, y), Runs(y, t), NEW c \in Txns, x[c].state # "none"
  PROVE  Sees(y, c, s) <=> Sees(x, c, s)
<1>1. /\ s.reader = t /\ Runs(x, t)
      /\ \A d \in Txns : d <= s.through /\ Runs(x, d) => d \in s.excluded
  BY DEF PinOK
<1>2. CASE c = t
  BY <1>1, <1>2 DEF Sees, Runs, Done
<1>3. CASE c # t
  <2>1. Done(x, c) => Done(y, c)
    BY DEF Moves, Done
  <2>2. Done(y, c) => Done(x, c) \/ Runs(x, c)
    BY DEF Moves
  <2> QED
    BY <1>1, <1>3, <2>1, <2>2 DEF Sees
<1> QED
  BY <1>2, <1>3

\* The page is left alone: a snapshot is dropped, kept, or new and its reader
\* told what it shows.
SawStep ==
    \A t \in Txns :
      \/ pin'[t] = NoPin
      \/ pin'[t] = pin[t] /\ saw'[t] = saw[t] /\ (Runs(txn, t) => Runs(txn', t))
      \/ txn' = txn /\ \A r \in Rows :
           saw'[t][r] = ReadFrom(Shown(txn, page, r, pin'[t])).version

LEMMA StepOfSaw ==
  ASSUME PinInv, saw \in [Txns -> [Rows -> Seen]], [SweepNext]_sweepVars
  PROVE  /\ saw' \in [Txns -> [Rows -> Seen]]
         /\ SweepPage \/ (page' = page /\ SawStep) \/ \E r \in Rows, t \in Txns : Writes(r, t)
<1>1. /\ PageInv /\ pin \in [Txns -> Snapshot \cup {NoPin}] /\ PinsStep
      /\ 0 \in Seen /\ OwnWrite \in Seen /\ page \subseteq Version
  BY PinStepInv, RowConstants DEF PinInv, PinsOK, StableInv, Seen, PageInv, PageOK
<1>2. ASSUME page' = page, pin' = pin, saw' = saw
      PROVE  saw' \in [Txns -> [Rows -> Seen]] /\ page' = page /\ SawStep
  <2>1. ASSUME NEW t \in Txns, pin[t] # NoPin PROVE Runs(txn, t) => Runs(txn', t)
    BY <1>1, <1>2, <2>1 DEF PinsStep
  <2> QED
    BY <1>2, <2>1 DEF SawStep
<1>3. ASSUME page' = page, NEW t \in Txns, pin' = [pin EXCEPT ![t] = NoPin],
             saw' = [saw EXCEPT ![t] = [r \in Rows |-> 0]]
      PROVE  saw' \in [Txns -> [Rows -> Seen]] /\ page' = page /\ SawStep
  <2>1. saw' \in [Txns -> [Rows -> Seen]]
    <3>1. [r \in Rows |-> 0] \in [Rows -> Seen]
      BY <1>1
    <3> QED
      BY <1>3, <3>1
  <2>2. ASSUME NEW c \in Txns, pin'[c] # NoPin
        PROVE  pin'[c] = pin[c] /\ saw'[c] = saw[c] /\ (Runs(txn, c) => Runs(txn', c))
    <3>1. c # t /\ pin'[c] = pin[c] /\ saw'[c] = saw[c]
      BY <1>1, <1>3, <2>2
    <3> QED
      BY <1>1, <2>2, <3>1 DEF PinsStep
  <2> QED
    BY <1>3, <2>1, <2>2 DEF SawStep
<1>4. CASE BeginStable \/ ChooseVersions \/ UNCHANGED sweepVars
  BY <1>2, <1>4 DEF BeginStable, Begin, ChooseVersions, sweepVars, rowVars
<1>5. ASSUME NEW t \in Txns, PinStatement(t)
      PROVE  saw' \in [Txns -> [Rows -> Seen]] /\ page' = page /\ SawStep
  <2> DEFINE s == StatementSnapshot(t)
             F == [r \in Rows |-> ReadVersion(r, s).version]
  <2>1. /\ pin' = [pin EXCEPT ![t] = s] /\ saw' = [saw EXCEPT ![t] = F]
        /\ txn' = txn /\ page' = page
    BY <1>5 DEF PinStatement, PublishPin
  <2>2. ASSUME NEW r \in Rows
        PROVE  /\ F[r] = ReadFrom(Shown(txn, page, r, s)).version
               /\ F[r] \in Seen
    <3>1. ReadVersion(r, s) = ReadFrom(Shown(txn, page, r, s))
      BY ReadIsShown
    <3>2. Shown(txn, page, r, s) \subseteq Version
      BY <1>1 DEF Shown
    <3>3. ReadFrom(Shown(txn, page, r, s)).version \in Seen
      BY <3>2, ReadInRange
    <3> HIDE DEF s
    <3> QED
      BY <3>1, <3>3
  <2>3. F \in [Rows -> Seen]
    BY <2>2
  <2> HIDE DEF F, s
  <2>4. saw' \in [Txns -> [Rows -> Seen]] /\ saw'[t] = F /\ pin'[t] = s
        /\ \A c \in Txns : c # t => saw'[c] = saw[c] /\ pin'[c] = pin[c]
    BY <1>1, <2>1, <2>3
  <2>5. SawStep
    <3>1. \A r \in Rows : saw'[t][r] = ReadFrom(Shown(txn, page, r, pin'[t])).version
      BY <2>2, <2>4
    <3> QED
      BY <2>1, <2>4, <3>1 DEF SawStep
  <2> QED
    BY <2>1, <2>4, <2>5
<1>6. CASE RowStep /\ EndsReaders /\ UNCHANGED evidence
  <2>1. CASE Begin \/ \E t \in Txns : Prepare(t)
    BY <1>2, <2>1 DEF Begin, Prepare
  <2>2. CASE \E t \in Txns : Commit(t) \/ Rollback(t) \/ Unpin(t)
    BY <1>3, <2>2 DEF Commit, Rollback, Unpin, EndsPin
  <2>3. ASSUME NEW r \in Rows, NEW kind, NEW t \in Txns, Mutate(t, r, kind)
        PROVE  saw' \in [Txns -> [Rows -> Seen]] /\ Writes(r, t)
    <3>1. saw' = [saw EXCEPT ![t][r] = OwnWrite] /\ saw[t] \in [Rows -> Seen]
      BY <2>3 DEF Mutate
    <3>2. [saw[t] EXCEPT ![r] = OwnWrite] \in [Rows -> Seen]
      BY <1>1, <3>1
    <3>3. saw' \in [Txns -> [Rows -> Seen]]
      BY <3>1, <3>2
    <3>4. Grown(txn', page, page', r, t, NewSequence(r, t))
      BY <1>1, <2>3, MutatePage
    <3>5. ~Done(txn', t)
      BY <2>3 DEF Mutate, Done
    <3> QED
      BY <1>6, <2>3, <3>1, <3>3, <3>4, <3>5 DEF Mutate, Writes
  <2>4. ASSUME NEW r \in Rows, NEW kind, MutateOwned(r, kind) \/ MutateOwnedFails(r, kind)
        PROVE  saw' = saw /\ pin' = pin
    BY <2>4 DEF MutateOwned, MutateOwnedFails
  <2>5. ASSUME NEW r \in Rows, NEW kind, MutateOwned(r, kind) \/ MutateOwnedFails(r, kind)
        PROVE  page' = page \/ SweepPage \/ \E q \in Rows, t \in Txns : Writes(q, t)
    BY <1>1, StepOfPage
  <2> QED
    BY <1>2, <1>6, <2>1, <2>2, <2>3, <2>4, <2>5 DEF RowStep
<1>7. CASE Crash
  <2>1. page' = page /\ pin' = [t \in Txns |-> NoPin]
        /\ saw' = [t \in Txns |-> [r \in Rows |-> 0]]
    BY <1>7 DEF Crash
  <2> QED
    BY <1>1, <2>1 DEF SawStep
<1>8. CASE SweepPage
  BY <1>8 DEF SweepPage
<1> QED
  BY <1>4, <1>5, <1>6, <1>7, <1>8 DEF SweepNext

LEMMA SawStepKeeps ==
  ASSUME SawInv, ~ReclaimDeleteMarkers, [SweepNext]_sweepVars
  PROVE  SawInv'
<1>1. /\ EvInv /\ EvInv' /\ PinInv /\ PinInv' /\ PageInv /\ PageInv' /\ Moves(txn, txn')
      /\ TxnsOK(txn, nextTxn, nextCommit) /\ ReadsKept(txn, page, pin, saw)
      /\ saw \in [Txns -> [Rows -> Seen]]
  BY EvidenceStep, PinStepInv DEF SawInv, EvInv, PinInv, StableInv, PageInv
<1>2. /\ saw' \in [Txns -> [Rows -> Seen]]
      /\ SweepPage \/ (page' = page /\ SawStep) \/ \E r \in Rows, t \in Txns : Writes(r, t)
  BY <1>1, StepOfSaw
<1>3. ASSUME NEW t \in Txns, pin[t] # NoPin, Runs(txn', t)
      PROVE  \A v \in page : Sees(txn', v.creator, pin[t]) <=> Sees(txn, v.creator, pin[t])
  <2> TAKE v \in page
  <2>1. PinOK(txn, nextTxn, pin[t], t)
    BY <1>1, <1>3, PinFacts
  <2>2. v.creator \in Txns /\ txn[v.creator].state # "none"
    BY <1>1, CreatorsBegun DEF PageInv
  <2> QED
    BY <1>1, <1>3, <2>1, <2>2, SightLasts
<1>4. ASSUME NEW t \in Txns, NEW r \in Rows, pin'[t] # NoPin, saw'[t][r] # OwnWrite
      PROVE  ReadFrom(Shown(txn', page', r, pin'[t])).version = saw'[t][r]
  <2>0. Runs(txn', t)
    <3>1. PinsOK(txn', nextTxn', pin')
      BY <1>1 DEF PinInv
    <3> QED
      BY <1>4, <3>1 DEF PinsOK, PinOK
  <2>1. CASE SweepPage
    <3>1. pin' = pin /\ saw' = saw /\ txn' = txn /\ page' = SweptPage
      BY <2>1 DEF SweepPage
    <3>2. pin[t] \in Readable
      BY <1>4, <3>1 DEF Readable
    <3>3. ShowsSeen(pin[t])
      BY <1>1, <3>2, ReadableShowsSeen
    <3>4. Newest(Shown(txn, SweptPage, r, pin[t])) = Newest(Shown(txn, page, r, pin[t]))
      BY <1>1, <3>3, SweptNewest
    <3>5. ReadFrom(Shown(txn, page, r, pin[t])).version = saw[t][r]
      BY <1>1, <1>4, <3>1 DEF ReadsKept
    <3> QED
      BY <3>1, <3>4, <3>5 DEF ReadFrom
  <2>2. CASE page' = page /\ SawStep
    <3>1. CASE txn' = txn /\ \A q \in Rows :
                 saw'[t][q] = ReadFrom(Shown(txn, page, q, pin'[t])).version
      BY <2>2, <3>1
    <3>2. CASE pin'[t] = pin[t] /\ saw'[t] = saw[t]
      <4>1. \A v \in page : Sees(txn', v.creator, pin[t]) <=> Sees(txn, v.creator, pin[t])
        BY <1>3, <1>4, <2>0, <3>2
      <4>2. Shown(txn', page, r, pin[t]) = Shown(txn, page, r, pin[t])
        BY <4>1 DEF Shown
      <4>3. ReadFrom(Shown(txn, page, r, pin[t])).version = saw[t][r]
        BY <1>1, <1>4, <3>2 DEF ReadsKept
      <4> QED
        BY <2>2, <3>2, <4>2, <4>3
    <3> QED
      BY <1>4, <2>2, <3>1, <3>2 DEF SawStep
  <2>3. ASSUME NEW q \in Rows, NEW u \in Txns, Writes(q, u)
        PROVE  ReadFrom(Shown(txn', page', r, pin'[t])).version = saw'[t][r]
    <3> DEFINE s == pin[t]
               n == NewSequence(q, u)
               V == Shown(txn, page, r, s)
               W == Shown(txn', page', r, s)
    <3>1. /\ Grown(txn', page, page', q, u, n) /\ ~Done(txn', u) /\ pin' = pin
          /\ (u = nextTxn /\ saw' = saw) \/ saw' = [saw EXCEPT ![u][q] = OwnWrite]
      BY <2>3 DEF Writes
    <3>2. pin[t] # NoPin /\ Runs(txn, t) /\ s.reader = t
      BY <1>1, <1>4, <3>1, PinFacts DEF PinOK
    <3>3. u = nextTxn => u # t
      <4>1. t < nextTxn /\ t \in Nat
        BY <1>1, <3>2, EndedFacts
      <4>2. nextTxn \in Nat
        BY <1>1, PageFacts
      <4> QED
        BY <4>1, <4>2
    <3>4. u = t => r # q
      <4>1. ASSUME saw' = [saw EXCEPT ![u][q] = OwnWrite], u = t, r = q PROVE FALSE
        <5>1. saw'[t][r] = OwnWrite
          BY <1>1, <4>1
        <5> QED
          BY <1>4, <5>1
      <4> QED
        BY <3>1, <3>3, <4>1
    <3>5. saw'[t][r] = saw[t][r]
      <4>1. CASE saw' = saw
        BY <4>1
      <4>2. CASE saw' = [saw EXCEPT ![u][q] = OwnWrite]
        BY <1>1, <3>4, <4>2
      <4> QED
        BY <3>1, <4>1, <4>2
    <3>6. ReadFrom(V).version = saw[t][r]
      BY <1>1, <1>4, <3>1, <3>5 DEF ReadsKept
    <3>7. \A v \in page : Sees(txn', v.creator, s) <=> Sees(txn, v.creator, s)
      BY <1>3, <2>0, <3>2
    <3> HIDE DEF s, n
    <3>8. ~(u # t /\ Sees(txn', u, s))
      BY <3>1, <3>2 DEF Sees
    <3>9. /\ page' \subseteq Version /\ page \subseteq Version
          /\ \A a, b \in page' : a.row = b.row /\ a.version = b.version => a = b
      BY <1>1 DEF PageInv, PageOK
    <3>10. \A v \in V : \E w \in W : Same(v, w)
      <4> TAKE v \in V
      <4>1. v \in page /\ v.row = r /\ Sees(txn', v.creator, s)
        BY <3>7 DEF Shown
      <4>2. PICK w \in page' : Same(v, w)
        BY <3>1, <4>1 DEF Grown
      <4>3. w \in W
        BY <4>1, <4>2 DEF Same, Shown
      <4> QED
        BY <4>2, <4>3
    <3>11. \A w \in W : \E v \in V : Same(v, w)
      <4> TAKE w \in W
      <4>1. w \in page' /\ w.row = r /\ Sees(txn', w.creator, s)
        BY DEF Shown
      <4>2. ~IsNew(w, q, u, n)
        BY <3>4, <3>8, <4>1 DEF IsNew
      <4>3. PICK v \in page : Same(v, w)
        BY <3>1, <4>1, <4>2 DEF Grown
      <4>4. v \in V
        BY <3>7, <4>1, <4>3 DEF Same, Shown
      <4> QED
        BY <4>3, <4>4
    <3>12. /\ V \subseteq Version /\ W \subseteq Version
           /\ \A a, b \in W : a.version = b.version => a = b
      BY <3>9 DEF Shown
    <3> HIDE DEF V, W
    <3>13. ReadFrom(W).version = ReadFrom(V).version
      BY <3>10, <3>11, <3>12, SameReads
    <3> QED
      BY <3>1, <3>5, <3>6, <3>13 DEF V, W, s
  <2> QED
    BY <1>2, <2>1, <2>2, <2>3
<1>5. ReadsKept(txn', page', pin', saw')
  BY <1>4 DEF ReadsKept
<1> QED
  BY <1>1, <1>2, <1>5 DEF SawInv

LEMMA SawStart == SweepInit => SawInv
<1> SUFFICES ASSUME SweepInit PROVE SawInv
  OBVIOUS
<1>1. /\ pin = [t \in Txns |-> NoPin] /\ saw = [t \in Txns |-> [r \in Rows |-> 0]] /\ 0 \in Seen
  BY RowConstants DEF SweepInit, Init, Seen
<1>2. saw \in [Txns -> [Rows -> Seen]] /\ ReadsKept(txn, page, pin, saw)
  BY <1>1 DEF ReadsKept
<1> QED
  BY <1>2, EvidenceStart DEF SawInv

LEMMA KeptIsStable == SawInv => PinnedReadsAreStable
<1> SUFFICES ASSUME SawInv, NEW t \in Txns, NEW r \in Rows, pin[t] # NoPin, saw[t][r] # OwnWrite
             PROVE  ReadVersion(r, pin[t]).version = saw[t][r]
  BY DEF PinnedReadsAreStable
<1>1. ReadVersion(r, pin[t]) = ReadFrom(Shown(txn, page, r, pin[t]))
  BY ReadIsShown
<1> QED
  BY <1>1 DEF SawInv, ReadsKept

\* Where delete markers are kept, a snapshot shows the same version of a row
\* from its publication until it is dropped, through commits, rollbacks,
\* failed mutations and sweeps, unless its own transaction writes the row.
THEOREM PinnedReadsStay ==
  ASSUME ~ReclaimDeleteMarkers
  PROVE  SweepSpec => []PinnedReadsAreStable
<1>1. SawInv /\ [SweepNext]_sweepVars => SawInv'
  BY SawStepKeeps
<1> QED
  BY <1>1, SawStart, KeptIsStable, PTL DEF SweepSpec

-----------------------------------------------------------------------------
(***************************************************************************)
(* What a reader with a stable snapshot sees at each of its statements:    *)
(* the newest version committed up to its boundary.  Later commits are     *)
(* above the boundary, new versions are not committed, and what a sweep    *)
(* removes lies below a version every such reader sees.                    *)
(***************************************************************************)
UpTo(x, p, r, b) ==
    {w \in p : w.row = r /\ Done(x, w.creator) /\ x[w.creator].commit <= b}

Views == [Txns -> [Rows -> 0 .. MaxVersions]]

ViewsKept(x, p, st, nc, vw) ==
    \A t \in Txns : x[t].state = "active" /\ st[t] # NotStable =>
      /\ st[t] < nc
      /\ \A r \in Rows : ReadFrom(UpTo(x, p, r, st[t])).version = vw[t][r]

ViewInv ==
    /\ EvInv /\ view \in Views
    /\ ViewsKept(txn, page, stable, nextCommit, view)

\* A reader keeps its boundary and its view, or begins.
BeginsReader(t) ==
    /\ BeginStable /\ stable'[t] = nextCommit - 1
    /\ \A r \in Rows : view'[t][r] = ReadVersion(r, LatestCommittedSnapshot(0)).version

ViewStep ==
    \A t \in Txns : txn'[t].state = "active" /\ stable'[t] # NotStable =>
      \/ txn[t].state = "active" /\ stable'[t] = stable[t] /\ view'[t] = view[t]
      \/ BeginsReader(t)

LEMMA StepOfView ==
  ASSUME PinInv, view \in Views, [SweepNext]_sweepVars
  PROVE  view' \in Views /\ ViewStep
<1>1. /\ PageInv /\ page \subseteq Version /\ 0 \in 0 .. MaxVersions
      /\ txn \in [Txns -> [state : States, commit : Nat]]
      /\ stable \in [Txns -> 0 .. NotStable]
      /\ \A c \in Txns : txn[c].state # "active" => stable[c] = NotStable
  BY RowConstants DEF PinInv, StableInv, PageInv, PageOK, TxnsOK
<1>2. CASE BeginStable
  <2> DEFINE F == [r \in Rows |-> ReadVersion(r, LatestCommittedSnapshot(0)).version]
  <2>1. /\ nextTxn \in Txns /\ view' = [view EXCEPT ![nextTxn] = F]
        /\ stable' = [stable EXCEPT ![nextTxn] = nextCommit - 1]
        /\ txn' = [txn EXCEPT ![nextTxn].state = "active"]
    BY <1>2 DEF BeginStable, Begin, WithState
  <2>2. ASSUME NEW r \in Rows
        PROVE  ReadVersion(r, LatestCommittedSnapshot(0)).version \in 0 .. MaxVersions
    <3> DEFINE s == LatestCommittedSnapshot(0)
    <3>1. Shown(txn, page, r, s) \subseteq Version
      BY <1>1 DEF Shown
    <3> QED
      BY <3>1, ReadIsShown, ReadInRange
  <2>3. F \in [Rows -> 0 .. MaxVersions]
    BY <2>2
  <2>4. \A r \in Rows : F[r] = ReadVersion(r, LatestCommittedSnapshot(0)).version
    OBVIOUS
  <2> HIDE DEF F
  <2>5. /\ view' \in Views /\ view'[nextTxn] = F /\ stable'[nextTxn] = nextCommit - 1
        /\ \A c \in Txns : c # nextTxn =>
             view'[c] = view[c] /\ stable'[c] = stable[c] /\ txn'[c] = txn[c]
    BY <1>1, <2>1, <2>3 DEF Views
  <2> QED
    BY <1>2, <2>4, <2>5 DEF ViewStep, BeginsReader
<1>3. CASE EndsReaders
  <2>1. [r \in Rows |-> 0] \in [Rows -> 0 .. MaxVersions]
    BY <1>1
  <2>2. view' \in Views
    BY <1>3, <2>1 DEF EndsReaders, Views
  <2>3. ViewStep
    BY <1>1, <1>3 DEF EndsReaders, ViewStep
  <2> QED
    BY <2>2, <2>3
<1>4. CASE view' = view /\ stable' = stable /\ txn' = txn
  BY <1>4 DEF ViewStep
<1>5. BeginStable \/ EndsReaders \/ (view' = view /\ stable' = stable /\ txn' = txn)
  BY DEF SweepNext, ChooseVersions, SweepPage, PinStatement, PublishPin, sweepVars, rowVars
<1> QED
  BY <1>2, <1>3, <1>4, <1>5

\* Whoever commits takes the next commit number.
LEMMA CommitsNumbered ==
  ASSUME PageInv, [SweepNext]_sweepVars
  PROVE  /\ nextCommit' = nextCommit \/ nextCommit' = nextCommit + 1
         /\ \A c \in Txns : Done(txn', c) /\ ~Done(txn, c) => txn'[c].commit = nextCommit
<1>1. txn \in [Txns -> [state : States, commit : Nat]]
  BY DEF PageInv, TxnsOK
<1>2. ASSUME NEW t \in Txns, NEW state, state # "committed", txn' = WithState(t, state),
             NEW c \in Txns, Done(txn', c)
      PROVE  Done(txn, c)
  BY <1>1, <1>2 DEF WithState, Done
<1>3. CASE txn' = txn /\ nextCommit' = nextCommit
  BY <1>3
<1>4. ASSUME NEW t \in Txns, Commit(t)
      PROVE  /\ nextCommit' = nextCommit + 1
             /\ \A c \in Txns : Done(txn', c) /\ ~Done(txn, c) => txn'[c].commit = nextCommit
  BY <1>1, <1>4 DEF Commit, Done
<1>5. CASE \E t \in Txns, state \in {"active", "prepared", "rolled_back"} :
             txn' = WithState(t, state) /\ nextCommit' = nextCommit
  BY <1>2, <1>5
<1>6. CASE Crash
  BY <1>1, <1>6 DEF Crash, Done
<1>7. CASE BeginStable \/ Begin
  BY <1>5, <1>7 DEF BeginStable, Begin
<1>8. CASE \E r \in Rows, kind \in {"insert", "update", "delete"} :
             MutateOwned(r, kind) \/ MutateOwnedFails(r, kind)
  BY <1>5, <1>8 DEF MutateOwned, MutateOwnedFails, Compensations
<1>9. CASE \E t \in Txns : Prepare(t) \/ Rollback(t)
  BY <1>5, <1>9 DEF Prepare, Rollback
<1>10. CASE \E t \in Txns : Unpin(t) \/ PinStatement(t)
                           \/ \E r \in Rows, kind \in {"insert", "update", "delete"} : Mutate(t, r, kind)
  BY <1>3, <1>10 DEF Unpin, PinStatement, PublishPin, Mutate
<1>11. CASE ChooseVersions \/ SweepPage \/ UNCHANGED sweepVars
  BY <1>3, <1>11 DEF ChooseVersions, SweepPage, sweepVars, rowVars
<1> QED
  BY <1>4, <1>6, <1>7, <1>8, <1>9, <1>10, <1>11 DEF SweepNext, RowStep

LEMMA UpToLater ==
  ASSUME PinInv, [SweepNext]_sweepVars, NEW b \in Nat, b < nextCommit, NEW r
  PROVE  UpTo(txn', page, r, b) = UpTo(txn, page, r, b)
<1>1. PageInv /\ Moves(txn, txn')
  BY PinStepInv DEF PinInv, StableInv
<1>2. nextCommit \in Nat /\ \A v \in page : v.creator \in Txns
  BY <1>1, PageFacts, CreatorsBegun DEF PageInv
<1>3. \A c \in Txns : Done(txn', c) /\ ~Done(txn, c) => ~(txn'[c].commit <= b)
  BY <1>1, <1>2, CommitsNumbered
<1>4. \A c \in Txns : Done(txn, c) => Done(txn', c) /\ txn'[c] = txn[c]
  BY <1>1 DEF Moves, Done
<1> QED
  BY <1>2, <1>3, <1>4 DEF UpTo

\* Its own writes aside, a statement of a stable reader is shown what was
\* committed up to its boundary.
LEMMA ShownUpTo ==
  ASSUME PinInv, NEW t \in Txns, txn[t].state = "active", stable[t] # NotStable,
         NEW p, p \subseteq page, NEW r, NEW s,
         s.through = StatementSnapshot(t).through, s.excluded = StatementSnapshot(t).excluded,
         \A v \in p : v.row = r => v.creator # s.reader
  PROVE  Shown(txn, p, r, s) = UpTo(txn, p, r, stable[t])
<1>1. ShowsCommits(StatementSnapshot(t), t)
  BY StatementSnapshotOK DEF PinInv
<1>2. \A v \in p : v.creator \in Txns
  BY CreatorsBegun DEF PinInv, StableInv, PageInv
<1>3. \A v \in p : v.row = r => (Sees(txn, v.creator, s) <=>
                      Done(txn, v.creator) /\ txn[v.creator].commit <= stable[t])
  BY <1>1, <1>2 DEF ShowsCommits, Sees
<1> QED
  BY <1>3 DEF Shown, UpTo

LEMMA SweptUpTo ==
  ASSUME EvInv, NEW t \in Txns, txn[t].state = "active", stable[t] # NotStable, NEW r
  PROVE  Newest(UpTo(txn, SweptPage, r, stable[t])) = Newest(UpTo(txn, page, r, stable[t]))
<1> DEFINE d == StatementSnapshot(t)
           s == [reader |-> 0, through |-> d.through, excluded |-> d.excluded]
<1>1. PinInv /\ t \in Active /\ d \in Readable
  BY DEF EvInv, Readable, Active
<1>2. ShowsSeen(d)
  BY <1>1, ReadableShowsSeen
<1> HIDE DEF d
<1>3. s.reader = 0 /\ s.through = d.through /\ s.excluded = d.excluded
  OBVIOUS
<1> HIDE DEF s
<1>4. \A v \in page : v.creator # s.reader
  <2>1. \A v \in page : v.creator \in Txns
    BY <1>1, CreatorsBegun DEF PinInv, StableInv, PageInv
  <2> QED
    BY <1>3, <2>1, RowConstants DEF Txns
<1>5. ShowsSeen(s)
  BY <1>2, <1>3 DEF ShowsSeen, Sees, SeenByAll, Done
<1>6. SweptPage \subseteq page
  BY DEF SweptPage
<1>7. Newest(Shown(txn, SweptPage, r, s)) = Newest(Shown(txn, page, r, s))
  BY <1>5, SweptNewest
<1>8. Shown(txn, page, r, s) = UpTo(txn, page, r, stable[t])
  BY <1>1, <1>3, <1>4, ShownUpTo DEF d
<1>9. Shown(txn, SweptPage, r, s) = UpTo(txn, SweptPage, r, stable[t])
  BY <1>1, <1>3, <1>4, <1>6, ShownUpTo DEF d
<1> QED
  BY <1>7, <1>8, <1>9

\* A version written in the step is not committed.
LEMMA WrittenUpTo ==
  ASSUME PageInv, PageInv', NEW q \in Rows, NEW u \in Txns, Writes(q, u), NEW r, NEW b
  PROVE  ReadFrom(UpTo(txn', page', r, b)).version = ReadFrom(UpTo(txn', page, r, b)).version
<1> DEFINE V == UpTo(txn', page, r, b)
           W == UpTo(txn', page', r, b)
           n == NewSequence(q, u)
<1>1. Grown(txn', page, page', q, u, n) /\ ~Done(txn', u)
  BY DEF Writes
<1> HIDE DEF n
<1>2. /\ page' \subseteq Version /\ page \subseteq Version
      /\ \A a, c \in page' : a.row = c.row /\ a.version = c.version => a = c
  BY DEF PageInv, PageOK
<1>3. \A v \in V : \E w \in W : Same(v, w)
  BY <1>1 DEF Grown, Same, UpTo
<1>4. \A w \in W : \E v \in V : Same(v, w)
  <2> TAKE w \in W
  <2>1. w \in page' /\ w.row = r /\ Done(txn', w.creator) /\ txn'[w.creator].commit <= b
    BY DEF UpTo
  <2>2. ~IsNew(w, q, u, n)
    BY <1>1, <2>1 DEF IsNew
  <2>3. PICK v \in page : Same(v, w)
    BY <1>1, <2>1, <2>2 DEF Grown
  <2>4. v \in V
    BY <2>1, <2>3 DEF Same, UpTo
  <2> QED
    BY <2>3, <2>4
<1>5. /\ V \subseteq Version /\ W \subseteq Version
      /\ \A a, c \in W : a.version = c.version => a = c
  BY <1>2 DEF UpTo
<1> HIDE DEF V, W
<1>6. ReadFrom(W).version = ReadFrom(V).version
  BY <1>3, <1>4, <1>5, SameReads
<1> QED
  BY <1>6 DEF V, W

\* The latest commit is what is committed up to the last commit number.
LEMMA LatestUpTo ==
  ASSUME PageInv, NEW r
  PROVE  ReadVersion(r, LatestCommittedSnapshot(0)) = ReadFrom(UpTo(txn, page, r, nextCommit - 1))
<1> DEFINE s == LatestCommittedSnapshot(0)
<1>1. s.reader = 0 /\ s.through = LatestCommittedLocalTransactionId /\ s.excluded = {}
  BY DEF LatestCommittedSnapshot
<1>2. ASSUME NEW v \in page
      PROVE  Sees(txn, v.creator, s) <=> Done(txn, v.creator) /\ txn[v.creator].commit <= nextCommit - 1
  <2>1. v.creator \in Txns /\ v.creator # 0
    BY CreatorsBegun, RowConstants DEF PageInv, Txns
  <2>2. Done(txn, v.creator) => v.creator <= LatestCommittedLocalTransactionId
    BY <2>1, LatestFacts
  <2>3. Done(txn, v.creator) => txn[v.creator].commit <= nextCommit - 1
    BY <2>1, EndedFacts, PageFacts DEF TxnsOK
  <2> HIDE DEF s
  <2> QED
    BY <1>1, <2>1, <2>2, <2>3 DEF Sees
<1> HIDE DEF s
<1>3. Shown(txn, page, r, s) = UpTo(txn, page, r, nextCommit - 1)
  BY <1>2 DEF Shown, UpTo
<1> QED
  BY <1>3, ReadIsShown DEF s

LEMMA ViewStepKeeps ==
  ASSUME ViewInv, ~ReclaimDeleteMarkers, [SweepNext]_sweepVars
  PROVE  ViewInv'
<1>1. /\ EvInv /\ EvInv' /\ PinInv /\ PageInv /\ PageInv'
      /\ ViewsKept(txn, page, stable, nextCommit, view) /\ view \in Views
      /\ stable \in [Txns -> 0 .. NotStable]
  BY EvidenceStep DEF ViewInv, EvInv, PinInv, StableInv
<1>2. view' \in Views /\ ViewStep
  BY <1>1, StepOfView
<1>3. /\ nextCommit \in Nat /\ nextCommit >= 1
      /\ nextCommit' = nextCommit \/ nextCommit' = nextCommit + 1
  BY <1>1, CommitsNumbered, TxnFacts DEF PageInv
<1>4. ASSUME NEW t \in Txns, txn[t].state = "active", stable[t] # NotStable, NEW r \in Rows
      PROVE  ReadFrom(UpTo(txn', page', r, stable[t])).version = view[t][r]
  <2> DEFINE b == stable[t]
  <2>1. b \in Nat /\ b < nextCommit /\ ReadFrom(UpTo(txn, page, r, b)).version = view[t][r]
    BY <1>1, <1>4, RowConstants DEF ViewsKept, NotStable
  <2>2. UpTo(txn', page, r, b) = UpTo(txn, page, r, b)
    BY <1>1, <2>1, UpToLater
  <2>3. CASE SweepPage
    <3>1. Newest(UpTo(txn, SweptPage, r, b)) = Newest(UpTo(txn, page, r, b))
      BY <1>1, <1>4, SweptUpTo
    <3>2. txn' = txn /\ page' = SweptPage
      BY <2>3 DEF SweepPage
    <3> HIDE DEF b
    <3> QED
      BY <2>1, <3>1, <3>2 DEF ReadFrom, b
  <2>4. CASE page' = page
    BY <2>1, <2>2, <2>4
  <2>5. ASSUME NEW q \in Rows, NEW u \in Txns, Writes(q, u)
        PROVE  ReadFrom(UpTo(txn', page', r, b)).version = view[t][r]
    <3>1. ReadFrom(UpTo(txn', page', r, b)).version = ReadFrom(UpTo(txn', page, r, b)).version
      BY <1>1, <2>5, WrittenUpTo
    <3> QED
      BY <2>1, <2>2, <3>1
  <2> QED
    BY <1>1, <2>3, <2>4, <2>5, StepOfPage
<1>5. ASSUME NEW t \in Txns, BeginsReader(t), NEW r \in Rows
      PROVE  /\ stable'[t] < nextCommit
             /\ ReadFrom(UpTo(txn', page', r, stable'[t])).version = view'[t][r]
  <2>1. /\ stable'[t] = nextCommit - 1 /\ page' = page
        /\ view'[t][r] = ReadVersion(r, LatestCommittedSnapshot(0)).version
    BY <1>5 DEF BeginsReader, BeginStable, Begin
  <2>2. nextCommit - 1 \in Nat /\ nextCommit - 1 < nextCommit
    BY <1>3
  <2>3. UpTo(txn', page, r, nextCommit - 1) = UpTo(txn, page, r, nextCommit - 1)
    BY <1>1, <2>2, UpToLater
  <2>4. ReadVersion(r, LatestCommittedSnapshot(0)) = ReadFrom(UpTo(txn, page, r, nextCommit - 1))
    BY <1>1, LatestUpTo
  <2> QED
    BY <2>1, <2>2, <2>3, <2>4
<1>6. ASSUME NEW t \in Txns, txn'[t].state = "active", stable'[t] # NotStable
      PROVE  /\ stable'[t] < nextCommit'
             /\ \A r \in Rows : ReadFrom(UpTo(txn', page', r, stable'[t])).version = view'[t][r]
  <2>1. CASE txn[t].state = "active" /\ stable'[t] = stable[t] /\ view'[t] = view[t]
    <3>1. stable[t] \in Nat /\ stable[t] < nextCommit
      BY <1>1, <1>6, <2>1, RowConstants DEF ViewsKept, NotStable
    <3> QED
      BY <1>3, <1>4, <1>6, <2>1, <3>1
  <2>2. CASE BeginsReader(t)
    <3>1. stable'[t] = nextCommit - 1
      BY <2>2 DEF BeginsReader
    <3> QED
      BY <1>3, <1>5, <2>2, <3>1
  <2> QED
    BY <1>2, <1>6, <2>1, <2>2 DEF ViewStep
<1>7. ViewsKept(txn', page', stable', nextCommit', view')
  BY <1>6 DEF ViewsKept
<1> QED
  BY <1>1, <1>2, <1>7 DEF ViewInv

LEMMA ViewStart == SweepInit => ViewInv
<1> SUFFICES ASSUME SweepInit PROVE ViewInv
  OBVIOUS
<1>1. /\ view = [t \in Txns |-> [r \in Rows |-> 0]] /\ 0 \in 0 .. MaxVersions
      /\ stable = [t \in Txns |-> NotStable]
  BY RowConstants DEF SweepInit
<1>2. view \in Views /\ ViewsKept(txn, page, stable, nextCommit, view)
  BY <1>1 DEF Views, ViewsKept
<1> QED
  BY <1>2, EvidenceStart DEF ViewInv

LEMMA KeptIsRead == ViewInv => StableReadersKeepTheirView
<1> SUFFICES ASSUME ViewInv, NEW t \in Active, NEW r \in Rows, stable[t] # NotStable,
                    \A v \in VersionsOf(r) : v.creator # t
             PROVE  ReadVersion(r, StatementSnapshot(t)).version = view[t][r]
  BY DEF StableReadersKeepTheirView
<1> DEFINE s == StatementSnapshot(t)
<1>1. PinInv /\ t \in Txns /\ txn[t].state = "active"
  BY DEF ViewInv, EvInv, Active
<1>2. s.reader = t
  BY <1>1, StatementSnapshotOK DEF PinOK, PinInv
<1>3. \A v \in page : v.row = r => v.creator # s.reader
  BY <1>2 DEF VersionsOf
<1>4. Shown(txn, page, r, s) = UpTo(txn, page, r, stable[t])
  BY <1>1, <1>3, ShownUpTo
<1>5. ReadVersion(r, s) = ReadFrom(Shown(txn, page, r, s))
  BY ReadIsShown
<1> QED
  BY <1>1, <1>4, <1>5 DEF ViewInv, ViewsKept

\* Where delete markers are kept, every statement of a reader with a stable
\* snapshot reads, in each row it has not written itself, the version that was
\* the latest committed one when the reader began, through later commits,
\* rollbacks, failed mutations and every choice and removal of a sweep.
THEOREM StableReadersKeep ==
  ASSUME ~ReclaimDeleteMarkers
  PROVE  SweepSpec => []StableReadersKeepTheirView
<1>1. ViewInv /\ [SweepNext]_sweepVars => ViewInv'
  BY ViewStepKeeps
<1> QED
  BY <1>1, ViewStart, KeptIsRead, PTL DEF SweepSpec

-----------------------------------------------------------------------------
(***************************************************************************)
(* Types.  They rest on the same invariants: a commit number stays in its  *)
(* range because there are no more commits than transactions.              *)
(***************************************************************************)
TypesInv ==
    /\ PinInv /\ saw \in [Txns -> [Rows -> Seen]]
    /\ evidence \subseteq (Rows \X Txns \X VersionNumbers)
    /\ crashes \in 0 .. MaxCrashes /\ view \in Views

LEMMA TypesStep ==
  ASSUME TypesInv, [SweepNext]_sweepVars
  PROVE  TypesInv'
<1>1. PinInv /\ PinInv' /\ saw' \in [Txns -> [Rows -> Seen]] /\ view' \in Views
  BY PinStepInv, StepOfSaw, StepOfView DEF TypesInv
<1>2. crashes' \in 0 .. MaxCrashes
  <2>1. crashes' = crashes \/ (crashes < MaxCrashes /\ crashes' = crashes + 1)
    BY DEF SweepNext, BeginStable, ChooseVersions, SweepPage, PinStatement, PublishPin, RowStep,
       Crash, Begin, Mutate, MutateOwned, MutateOwnedFails, Prepare, Commit, Rollback, Unpin,
       sweepVars, rowVars
  <2> QED
    BY <2>1, RowConstants DEF TypesInv
<1>3. evidence' \subseteq (Rows \X Txns \X VersionNumbers)
  <2>1. CASE ChooseVersions
    <3>1. PICK workset \in SUBSET Candidates, hold \in 1 .. nextTxn :
            evidence' = {Identity(v) : v \in {w \in workset : Reclaimable(w, hold)}}
      BY <2>1 DEF ChooseVersions
    <3>2. \A v \in workset : Identity(v) \in Rows \X Txns \X VersionNumbers
      BY <1>1, VersionFields DEF Candidates, PinInv, StableInv, PageInv, PageOK, Identity
    <3> QED
      BY <3>1, <3>2
  <2>2. CASE evidence' = {} \/ evidence' = evidence
    BY <2>2 DEF TypesInv
  <2>3. evidence' = {} \/ evidence' = evidence \/ ChooseVersions
    BY DEF SweepNext, BeginStable, SweepPage, PinStatement, sweepVars
  <2> QED
    BY <2>1, <2>2, <2>3
<1> QED
  BY <1>1, <1>2, <1>3 DEF TypesInv

LEMMA TypesStart == SweepInit => TypesInv
<1> SUFFICES ASSUME SweepInit PROVE TypesInv
  OBVIOUS
<1>1. saw = [t \in Txns |-> [r \in Rows |-> 0]] /\ 0 \in Seen /\ evidence = {}
      /\ crashes = 0 /\ 0 \in 0 .. MaxCrashes
  BY RowConstants DEF SweepInit, Init, Seen
<1> QED
  BY <1>1, PinStart, ViewStart DEF TypesInv, ViewInv

LEMMA TypesHold == TypesInv => SweepTypeOK
<1> SUFFICES ASSUME TypesInv PROVE SweepTypeOK
  OBVIOUS
<1>1. PageInv /\ MaxTxn \in Nat
  BY RowConstants DEF TypesInv, PinInv, StableInv
<1>2. /\ nextTxn \in Nat /\ nextTxn >= 1 /\ nextTxn <= MaxTxn + 1
      /\ nextCommit \in Nat /\ nextCommit >= 1 /\ nextCommit <= nextTxn
  BY <1>1, TxnFacts DEF PageInv
<1>3. nextTxn \in 1 .. MaxTxn + 1 /\ nextCommit \in 1 .. MaxTxn + 1
  BY <1>1, <1>2
<1>4. ASSUME NEW c \in Txns PROVE txn[c] \in [state : States, commit : 0 .. MaxTxn]
  <2>1. /\ txn[c].state \in States /\ txn[c].commit \in Nat
        /\ txn[c] = [state |-> txn[c].state, commit |-> txn[c].commit]
    BY <1>1, <1>4, TxnFacts DEF PageInv
  <2>2. txn[c].commit < nextCommit \/ txn[c].commit = 0
    BY <1>1 DEF PageInv, TxnsOK
  <2>3. txn[c].commit \in 0 .. MaxTxn
    BY <1>1, <1>2, <2>1, <2>2
  <2> QED
    BY <2>1, <2>3
<1>5. txn \in [Txns -> [state : States, commit : 0 .. MaxTxn]]
  <2>1. txn = [c \in Txns |-> txn[c]]
    BY <1>1 DEF PageInv, TxnsOK
  <2> QED
    BY <1>4, <2>1
<1>6. /\ page \subseteq Version
      /\ leftovers \subseteq (Rows \X Txns \X VersionNumbers)
  BY <1>1 DEF PageInv, PageOK, LeftoversOK
<1>7. \A t \in Txns : pin[t] = NoPin \/ pin[t] \in Snapshot
  BY DEF TypesInv, PinInv, PinsOK
<1>8. saw \in [Txns -> [Rows -> 0 .. MaxVersions \cup {OwnWrite}]]
      /\ crashes \in 0 .. MaxCrashes
  BY DEF TypesInv, Seen
<1>9. RowsTypeOK
  BY <1>3, <1>5, <1>6, <1>7, <1>8 DEF RowsTypeOK
<1> QED
  BY <1>9 DEF SweepTypeOK, TypesInv, PinInv, StableInv, Views

\* Inventory, page, pins, boundaries and chosen versions keep their types.
THEOREM SweepTypes == SweepSpec => []SweepTypeOK
BY TypesStart, TypesStep, TypesHold, PTL DEF SweepSpec
=============================================================================
