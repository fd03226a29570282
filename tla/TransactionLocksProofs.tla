----------------------- MODULE TransactionLocksProofs -----------------------
(***************************************************************************)
(* Proofs about TransactionLocks, for any transactions, resources and      *)
(* policies.                                                               *)
(***************************************************************************)
EXTENDS TransactionLocks, FiniteSetTheorems, WellFoundedInduction, TLAPS

-----------------------------------------------------------------------------
(***************************************************************************)
(* RemoveOwner.  Its recursion is unfolded by induction, in the form that  *)
(* a nonempty set of naturals has a least element.                         *)
(***************************************************************************)
LEMMA LeastNatural ==
  ASSUME NEW S, S \subseteq Nat, S # {}
  PROVE  \E m \in S : \A n \in S : m <= n
<1> DEFINE less == {ss \in Nat \X Nat : ss[1] < ss[2]}
<1>1. less = OpToRel(<, Nat)
  BY DEF OpToRel
<1>2. IsWellFoundedOn(less, Nat)
  BY <1>1, NatLessThanWellFounded
<1>3. PICK m \in S : \A n \in S : <<n, m>> \notin less
  <2> HIDE DEF less
  <2> QED
    BY <1>2, WFMin
<1>4. \A n \in S : ~(n < m)
  <2> TAKE n \in S
  <2>1. <<n, m>> \in Nat \X Nat /\ <<n, m>>[1] = n /\ <<n, m>>[2] = m
    OBVIOUS
  <2> QED
    BY <1>3, <2>1
<1> HIDE DEF less
<1> QED
  BY <1>4

\* The prefixes of RemoveOwner up to n.
Keeps(kept, s, t, n) ==
    /\ kept[0] = <<>>
    /\ \A m \in 1 .. n :
          kept[m] = IF s[m] = t THEN kept[m - 1] ELSE Append(kept[m - 1], s[m])

Prefixes(kept, s, t, n) == kept = [m \in 0 .. n |-> kept[m]] /\ Keeps(kept, s, t, n)

LEMMA PrefixesExist ==
  ASSUME NEW T, NEW s \in Seq(T), NEW t, NEW n \in 0 .. Len(s)
  PROVE  \E kept : Prefixes(kept, s, t, n)
<1> DEFINE Ok(m) == \E kept : Prefixes(kept, s, t, m)
           bad == {m \in Nat : ~Ok(m)}
<1>1. Ok(0)
  <2> DEFINE k0 == [k \in 0 .. 0 |-> <<>>]
  <2>1. Prefixes(k0, s, t, 0)
    BY DEF Keeps, Prefixes
  <2> HIDE DEF k0
  <2> QED
    BY <2>1
<1>2. ASSUME NEW m \in Nat, m # 0, Ok(m - 1) PROVE Ok(m)
  <2>1. PICK g : g = [k \in 0 .. (m - 1) |-> g[k]] /\ Keeps(g, s, t, m - 1)
    BY <1>2 DEF Prefixes
  <2> DEFINE last == IF s[m] = t THEN g[m - 1] ELSE Append(g[m - 1], s[m])
             h == [k \in 0 .. m |-> IF k = m THEN last ELSE g[k]]
  <2>2. /\ h[m] = last
        /\ \A k \in 0 .. (m - 1) : h[k] = g[k]
    OBVIOUS
  <2>3. h = [k \in 0 .. m |-> h[k]]
    OBVIOUS
  <2> HIDE DEF h
  <2>4. Keeps(h, s, t, m)
    <3>1. h[0] = <<>>
      BY <1>2, <2>1, <2>2 DEF Keeps
    <3>2. ASSUME NEW k \in 1 .. m
          PROVE  h[k] = IF s[k] = t THEN h[k - 1] ELSE Append(h[k - 1], s[k])
      <4>1. CASE k = m
        <5>1. h[m - 1] = g[m - 1] /\ h[k] = last
          BY <1>2, <2>2, <4>1
        <5> QED
          BY <4>1, <5>1
      <4>2. CASE k # m
        <5>1. k \in 1 .. (m - 1) /\ k \in 0 .. (m - 1) /\ k - 1 \in 0 .. (m - 1)
          BY <4>2
        <5>2. h[k] = g[k] /\ h[k - 1] = g[k - 1]
          BY <2>2, <5>1
        <5> HIDE DEF last
        <5> QED
          BY <2>1, <5>1, <5>2 DEF Keeps
      <4> QED
        BY <4>1, <4>2
    <3> QED
      BY <3>1, <3>2 DEF Keeps
  <2>5. Prefixes(h, s, t, m)
    BY <2>3, <2>4 DEF Prefixes
  <2> QED
    BY <2>5
<1>3. bad = {}
  <2> HIDE DEF Ok
  <2> SUFFICES ASSUME bad # {} PROVE FALSE
    OBVIOUS
  <2>1. PICK m \in bad : \A k \in bad : m <= k
    BY LeastNatural
  <2>2. m \in Nat /\ ~Ok(m) /\ m # 0
    BY <1>1
  <2>3. m - 1 \in Nat /\ ~(m <= m - 1)
    BY <2>2
  <2>4. Ok(m - 1)
    BY <2>1, <2>3
  <2> QED
    BY <1>2, <2>2, <2>4
<1>4. Ok(n)
  <2> HIDE DEF Ok
  <2> QED
    BY <1>3
<1> QED
  BY <1>4

\* What RemoveOwner returns: the others, each as often as before, no more of
\* them.
Removed(r, s, t, T) ==
    /\ r \in Seq(T)
    /\ Len(r) <= Len(s)
    /\ \A o : (\E i \in DOMAIN r : r[i] = o) <=> o # t /\ (\E i \in DOMAIN s : s[i] = o)
    /\ (\A i, j \in DOMAIN s : s[i] = s[j] => i = j) =>
          (\A i, j \in DOMAIN r : r[i] = r[j] => i = j)

LEMMA RemoveOwnerFacts ==
  ASSUME NEW T, NEW s \in Seq(T), NEW t
  PROVE  Removed(RemoveOwner(s, t), s, t, T)
<1> DEFINE Val(g, n) == IF n = 0 THEN <<>>
                        ELSE IF s[n] = t THEN g[n - 1] ELSE Append(g[n - 1], s[n])
           Body(g) == [n \in 0 .. Len(s) |-> Val(g, n)]
           kept == CHOOSE g : g = Body(g)
<1>1. RemoveOwner(s, t) = kept[Len(s)]
  BY DEF RemoveOwner
<1>2. Len(s) \in Nat
  OBVIOUS
<1>3. \E g : g = Body(g)
  <2>1. PICK g : Prefixes(g, s, t, Len(s))
    BY <1>2, PrefixesExist
  <2>2. ASSUME NEW n \in 0 .. Len(s)
        PROVE  g[n] = Val(g, n)
    <3>1. CASE n = 0
      BY <2>1, <3>1 DEF Keeps, Prefixes
    <3>2. CASE n # 0
      <4>1. n \in 1 .. Len(s)
        BY <1>2, <3>2
      <4> QED
        BY <2>1, <3>2, <4>1 DEF Keeps, Prefixes
    <3> QED
      BY <3>1, <3>2
  <2> HIDE DEF Val
  <2>3. g = [n \in 0 .. Len(s) |-> g[n]]
    BY <2>1 DEF Prefixes
  <2>4. [n \in 0 .. Len(s) |-> g[n]] = [n \in 0 .. Len(s) |-> Val(g, n)]
    BY <2>2
  <2>5. g = Body(g)
    BY <2>3, <2>4
  <2> HIDE DEF Body
  <2> QED
    BY <2>5
<1>4. kept = Body(kept)
  <2> HIDE DEF Body
  <2> QED
    BY <1>3
<1> HIDE DEF kept
<1>5. /\ kept[0] = <<>>
      /\ \A n \in 0 .. Len(s) : n # 0 =>
            kept[n] = IF s[n] = t THEN kept[n - 1] ELSE Append(kept[n - 1], s[n])
  <2>1. \A n \in 0 .. Len(s) : kept[n] = Val(kept, n)
    <3> HIDE DEF Val
    <3> QED
      BY <1>4
  <2>2. kept[0] = <<>>
    BY <1>2, <2>1
  <2> QED
    BY <2>1, <2>2
<1> HIDE DEF Body
<1> DEFINE Good(n) ==
             /\ kept[n] \in Seq(T)
             /\ Len(kept[n]) <= n
             /\ \A o : (\E i \in DOMAIN kept[n] : kept[n][i] = o)
                          <=> o # t /\ (\E i \in 1 .. n : s[i] = o)
             /\ (\A i, j \in DOMAIN s : s[i] = s[j] => i = j) =>
                   (\A i, j \in DOMAIN kept[n] : kept[n][i] = kept[n][j] => i = j)
           bad == {n \in 0 .. Len(s) : ~Good(n)}
<1>6. Good(0)
  BY <1>5
<1>7. ASSUME NEW n \in 1 .. Len(s), Good(n - 1) PROVE Good(n)
  <2> DEFINE p == kept[n - 1]
             k == kept[n]
  <2>1. /\ n \in Nat /\ n \in 0 .. Len(s) /\ n # 0 /\ n \in DOMAIN s /\ s[n] \in T
        /\ 1 .. n = (1 .. (n - 1)) \cup {n} /\ n \notin 1 .. (n - 1)
        /\ \A i \in 1 .. (n - 1) : i \in DOMAIN s
    BY <1>2
  <2>2. /\ p \in Seq(T) /\ Len(p) <= n - 1
        /\ \A o : (\E i \in DOMAIN p : p[i] = o) <=> o # t /\ (\E i \in 1 .. (n - 1) : s[i] = o)
        /\ (\A i, j \in DOMAIN s : s[i] = s[j] => i = j) =>
              (\A i, j \in DOMAIN p : p[i] = p[j] => i = j)
    BY <1>7
  <2>3. k = IF s[n] = t THEN p ELSE Append(p, s[n])
    BY <1>5, <2>1
  <2> HIDE DEF p, k
  <2>4. CASE s[n] = t
    <3>1. k = p
      BY <2>3, <2>4
    <3>2. \A o : o # t => ((\E i \in 1 .. n : s[i] = o) <=> (\E i \in 1 .. (n - 1) : s[i] = o))
      BY <2>1, <2>4
    <3>3. Len(k) <= n
      BY <2>1, <2>2, <3>1
    <3> QED
      BY <2>2, <3>1, <3>2, <3>3 DEF k
  <2>5. CASE s[n] # t
    <3>1. k = Append(p, s[n])
      BY <2>3, <2>5
    <3>2. /\ k \in Seq(T) /\ Len(k) = Len(p) + 1 /\ Len(p) \in Nat
          /\ DOMAIN p = 1 .. Len(p) /\ DOMAIN k = 1 .. Len(k)
          /\ \A i \in 1 .. Len(p) : k[i] = p[i]
          /\ k[Len(k)] = s[n]
      BY <2>1, <2>2, <3>1
    <3>3. /\ DOMAIN k = DOMAIN p \cup {Len(k)} /\ Len(k) \notin DOMAIN p
          /\ \A i \in DOMAIN p : k[i] = p[i]
      BY <3>2
    <3>4. Len(k) <= n
      BY <2>1, <2>2, <3>2
    <3>5. \A o : (\E i \in DOMAIN k : k[i] = o) <=> o # t /\ (\E i \in 1 .. n : s[i] = o)
      <4>1. \A o : (\E i \in DOMAIN k : k[i] = o) <=> (\E i \in DOMAIN p : p[i] = o) \/ s[n] = o
        BY <3>2, <3>3
      <4>2. \A o : (\E i \in 1 .. n : s[i] = o) <=> (\E i \in 1 .. (n - 1) : s[i] = o) \/ s[n] = o
        BY <2>1
      <4> QED
        BY <2>2, <2>5, <4>1, <4>2
    <3>6. ASSUME \A i, j \in DOMAIN s : s[i] = s[j] => i = j,
                 NEW i \in DOMAIN k, NEW j \in DOMAIN k, k[i] = k[j]
          PROVE  i = j
      <4>1. \A m \in DOMAIN p : p[m] # s[n]
        BY <2>1, <2>2, <3>6
      <4> QED
        BY <2>2, <3>2, <3>3, <3>6, <4>1
    <3> QED
      BY <3>2, <3>4, <3>5, <3>6 DEF k
  <2> QED
    BY <2>4, <2>5
<1>8. bad = {}
  <2> HIDE DEF Good
  <2> SUFFICES ASSUME bad # {} PROVE FALSE
    OBVIOUS
  <2>1. bad \subseteq Nat
    BY <1>2
  <2>2. PICK m \in bad : \A k \in bad : m <= k
    BY <2>1, LeastNatural
  <2>3. m \in 0 .. Len(s) /\ ~Good(m) /\ m # 0
    BY <1>6
  <2>4. m \in 1 .. Len(s) /\ m - 1 \in 0 .. Len(s) /\ ~(m <= m - 1)
    BY <1>2, <2>3
  <2>5. Good(m - 1)
    BY <2>2, <2>4
  <2> QED
    BY <1>7, <2>3, <2>4, <2>5
<1>9. Good(Len(s))
  <2> HIDE DEF Good
  <2> QED
    BY <1>2, <1>8
<1>10. DOMAIN s = 1 .. Len(s)
  OBVIOUS
<1> QED
  BY <1>1, <1>9, <1>10 DEF Removed

-----------------------------------------------------------------------------
(***************************************************************************)
(* The inductive invariant.  Beyond the two properties the run checks it   *)
(* says whose request a wait record holds and that no two records have the *)
(* same place in the order of waits: the order NoOvertaking compares.      *)
(***************************************************************************)
OwnersOf(lock) == {lock.owners[i] : i \in DOMAIN lock.owners}

LockOK(lock) ==
    /\ lock \in LockRecord
    /\ \A i, j \in DOMAIN lock.owners : lock.owners[i] = lock.owners[j] => i = j
    /\ lock.mode = "exclusive" => Len(lock.owners) = 1
    /\ lock.mode = "unknown" <=> lock.owners = <<>>

WaitsOK(w, next) ==
    /\ w \in [Txns -> WaitingRecord \cup {NoWait}]
    /\ \A t \in Txns : w[t] # NoWait => w[t].request.txn = t /\ w[t].sequence < next
    /\ \A t, u \in Txns : w[t] # NoWait /\ w[u] # NoWait /\ w[t].sequence = w[u].sequence
                             => t = u

\* What the wait record of t may ask for while the lock is this one.
Lacks(lock, t, q) == t \in OwnersOf(lock) => lock.mode = "shared" /\ q.mode = "exclusive"

LackOK(ls, w) ==
    \A t \in Txns : w[t] # NoWait => Lacks(ls[w[t].request.resource], t, w[t].request)

LocksInv ==
    /\ locks \in [Resources -> LockRecord]
    /\ \A r \in Resources : LockOK(locks[r])
    /\ WaitsOK(waiting, nextSequence)
    /\ LackOK(locks, waiting)
    /\ nextSequence \in 1 .. MaxSequence + 1
    /\ admission \in Policies
    /\ clock \in 1 .. MaxClock

LEMMA WaitRecords ==
  ASSUME NEW x \in WaitingRecord \cup {NoWait}, x # NoWait
  PROVE  /\ x \in WaitingRecord
         /\ x.request \in Request /\ x.sequence \in 1 .. MaxSequence
         /\ x.request.resource \in Resources /\ x.request.txn \in Txns
         /\ x.request.mode \in Modes
BY DEF WaitingRecord, Request

LEMMA RecordsAreWaits ==
  ASSUME NEW q \in Request, NEW n \in 1 .. MaxSequence
  PROVE  LET x == [request |-> q, sequence |-> n]
         IN  x \in WaitingRecord /\ x # NoWait /\ x.request = q /\ x.sequence = n
<1> DEFINE x == [request |-> q, sequence |-> n]
<1>1. x.sequence = n /\ NoWait.sequence = 0 /\ n # 0
  BY LockConstants DEF NoWait
<1> QED
  BY <1>1 DEF WaitingRecord

LEMMA InvGivesProperties ==
  LocksInv => LocksTypeOK /\ ExclusiveIsExclusive /\ WaitersLackTheirLock
<1> SUFFICES ASSUME LocksInv PROVE LocksTypeOK /\ ExclusiveIsExclusive /\ WaitersLackTheirLock
  OBVIOUS
<1>1. LocksTypeOK
  BY DEF LocksInv, LocksTypeOK, WaitsOK
<1>2. ExclusiveIsExclusive
  BY DEF LocksInv, LockOK, ExclusiveIsExclusive
<1>3. WaitersLackTheirLock
  BY DEF LocksInv, LackOK, Lacks, OwnersOf, Owners, Waiters, WaitersLackTheirLock
<1> QED
  BY <1>1, <1>2, <1>3

LEMMA InitialLocks == Init => LocksInv
<1> SUFFICES ASSUME Init PROVE LocksInv
  OBVIOUS
<1>1. NoLock \in LockRecord /\ NoLock.owners = <<>> /\ NoLock.mode = "unknown"
  BY DEF NoLock, LockRecord
<1>2. LockOK(NoLock)
  BY <1>1 DEF LockOK
<1>3. \A r \in Resources : locks[r] = NoLock
  BY DEF Init
<1>4. locks \in [Resources -> LockRecord] /\ \A r \in Resources : LockOK(locks[r])
  BY <1>1, <1>2, <1>3 DEF Init
<1>5. WaitsOK(waiting, nextSequence) /\ LackOK(locks, waiting)
  BY DEF Init, WaitsOK, LackOK
<1>6. nextSequence \in 1 .. MaxSequence + 1 /\ admission \in Policies /\ clock \in 1 .. MaxClock
  BY LockConstants DEF Init
<1> QED
  BY <1>4, <1>5, <1>6 DEF LocksInv

-----------------------------------------------------------------------------
(***************************************************************************)
(* AcquireInternal.                                                        *)
(***************************************************************************)
\* A decision to grant, or to let wait, says this of the lock.
LEMMA DecisionFacts ==
  ASSUME NEW w, NEW q, NEW seq
  PROVE  LET lock == locks[q.resource]
             owned == q.txn \in OwnersOf(lock)
             keeps == lock.mode \in {"exclusive", q.mode}
             d == Decision(w, q, seq)
         IN  /\ d \in {"granted", "already_owned"} =>
                   \/ q.resource \notin Held
                   \/ owned /\ keeps
                   \/ CompatibleWithExisting(q) /\ (owned \/ PriorWaiters(w, q, seq) = {})
             /\ d = "wait_required" =>
                   q.resource \in Held /\ (owned => ~keeps)
<1> DEFINE lock == locks[q.resource]
           owned == q.txn \in OwnersOf(lock)
           keeps == lock.mode \in {"exclusive", q.mode}
           compat == CompatibleWithExisting(q)
           prior == PriorWaiters(w, q, seq)
           held == q.resource \in Held
           full == admission.maxHeldLocks # 0 /\ Cardinality(Held) >= admission.maxHeldLocks
           path == HasDeadlockPath(w, FirstBlockingOwner(q), q.txn)
           wd == WaitDecision(w, q)
<1>1. wd \in {"timeout", "admission_refused", "wait_required"}
  BY DEF WaitDecision
<1>2. Decision(w, q, seq) =
        IF full /\ ~held THEN "admission_refused"
        ELSE IF ~held THEN "granted"
        ELSE IF owned /\ (keeps \/ compat) THEN "already_owned"
        ELSE IF ~owned /\ prior # {} THEN wd
        ELSE IF compat THEN "granted"
        ELSE IF path THEN "deadlock_detected"
        ELSE wd
  BY DEF Decision, Owners, OwnersOf
<1> HIDE DEF lock, owned, keeps, compat, prior, held, full, path, wd
<1>3. /\ Decision(w, q, seq) \in {"granted", "already_owned"} =>
            \/ ~held
            \/ owned /\ keeps
            \/ compat /\ (owned \/ prior = {})
      /\ Decision(w, q, seq) = "wait_required" => held /\ (owned => ~keeps)
  BY <1>1, <1>2
<1> QED
  BY <1>3 DEF lock, owned, keeps, compat, prior, held

\* A grant keeps the lock well formed, adds at most the requester to its
\* owners and takes no shared lock from its other owners.
Grants(lock, new, t) ==
    /\ LockOK(new)
    /\ OwnersOf(new) = OwnersOf(lock) \cup {t}
    /\ \A u \in OwnersOf(lock) : u # t /\ lock.mode = "shared" => new.mode = "shared"

LEMMA GrantKeepsLock ==
  ASSUME LocksInv, NEW w, NEW q \in Request, NEW seq,
         Decision(w, q, seq) \in {"granted", "already_owned"}
  PROVE  Grants(locks[q.resource], GrantedLock(q), q.txn)
<1> DEFINE lock == locks[q.resource]
           new == GrantedLock(q)
           owned == q.txn \in OwnersOf(lock)
<1>1. /\ q.resource \in Resources /\ q.txn \in Txns /\ q.mode \in {"shared", "exclusive"}
      /\ LockOK(lock)
  BY LockConstants DEF Request, LocksInv
<1>2. /\ lock.owners \in Seq(Txns) /\ lock.mode \in {"shared", "exclusive", "unknown"}
      /\ Len(lock.owners) \in Nat /\ DOMAIN lock.owners = 1 .. Len(lock.owners)
      /\ q.resource \in Held <=> lock.owners # <<>>
      /\ lock.owners = <<>> <=> Len(lock.owners) = 0
  BY <1>1 DEF LockOK, LockRecord, Held
<1>3. \/ q.resource \notin Held
      \/ owned /\ lock.mode \in {"exclusive", q.mode}
      \/ CompatibleWithExisting(q)
  BY DecisionFacts
<1>4. new = [owners |-> IF owned THEN lock.owners ELSE Append(lock.owners, q.txn),
             mode |-> IF q.resource \notin Held \/ q.mode = "exclusive" THEN q.mode
                      ELSE lock.mode]
  BY DEF GrantedLock, Owners, OwnersOf
<1>5. /\ new.owners = IF owned THEN lock.owners ELSE Append(lock.owners, q.txn)
      /\ new.mode = IF q.resource \notin Held \/ q.mode = "exclusive" THEN q.mode ELSE lock.mode
      /\ new = [owners |-> new.owners, mode |-> new.mode]
  BY <1>4
<1>6. owned => q.resource \in Held
  BY <1>2 DEF OwnersOf
<1>7. CompatibleWithExisting(q) <=>
        \/ lock.mode = "shared" /\ q.mode = "shared"
        \/ lock.owners = <<q.txn>>
  BY DEF CompatibleWithExisting
\* Owners.
<1>8. CASE owned
  <2>1. new.owners = lock.owners
    BY <1>5, <1>8
  <2>2. OwnersOf(new) = OwnersOf(lock) \cup {q.txn}
    BY <1>8, <2>1 DEF OwnersOf
  <2>3. /\ lock.mode # "unknown"
        /\ lock.mode = "exclusive" => lock.owners = <<q.txn>>
    <3>1. PICK i \in DOMAIN lock.owners : lock.owners[i] = q.txn
      BY <1>8 DEF OwnersOf
    <3>2. lock.mode = "exclusive" => Len(lock.owners) = 1
      BY <1>1 DEF LockOK
    <3>3. ASSUME Len(lock.owners) = 1 PROVE lock.owners = <<q.txn>>
      BY <1>2, <3>1, <3>3
    <3> QED
      BY <1>1, <1>6, <1>8, <1>2, <3>2, <3>3 DEF LockOK
  <2>4. q.mode = "exclusive" => lock.owners = <<q.txn>>
    BY <1>2, <1>3, <1>6, <1>7, <1>8, <2>3
  <2>5. lock.owners = <<q.txn>> => Len(lock.owners) = 1 /\ OwnersOf(lock) = {q.txn}
    BY DEF OwnersOf
  <2>6. /\ new \in LockRecord
        /\ new.mode = "exclusive" => Len(new.owners) = 1
        /\ new.mode # "unknown" /\ new.owners # <<>>
    BY <1>1, <1>2, <1>5, <1>6, <1>8, <2>1, <2>3, <2>4, <2>5 DEF LockRecord
  <2>7. LockOK(new)
    BY <1>1, <2>1, <2>6 DEF LockOK
  <2>8. ASSUME NEW u \in OwnersOf(lock), u # q.txn, lock.mode = "shared"
        PROVE  new.mode = "shared"
    BY <1>1, <1>5, <1>6, <1>8, <2>4, <2>5, <2>8
  <2> QED
    BY <2>2, <2>7, <2>8 DEF Grants
<1>9. CASE ~owned
  <2>1. new.owners = Append(lock.owners, q.txn)
    BY <1>5, <1>9
  <2>2. /\ new.owners \in Seq(Txns) /\ Len(new.owners) = Len(lock.owners) + 1
        /\ DOMAIN new.owners = DOMAIN lock.owners \cup {Len(new.owners)}
        /\ Len(new.owners) \notin DOMAIN lock.owners
        /\ new.owners[Len(new.owners)] = q.txn
        /\ \A i \in DOMAIN lock.owners : new.owners[i] = lock.owners[i]
    BY <1>1, <1>2, <2>1
  <2>3. OwnersOf(new) = OwnersOf(lock) \cup {q.txn}
    BY <2>2 DEF OwnersOf
  <2>4. lock.owners # <<q.txn>>
    BY <1>9 DEF OwnersOf
  <2>5. q.resource \in Held => lock.mode = "shared" /\ q.mode = "shared"
    BY <1>3, <1>7, <1>9, <2>4
  <2>6. \A i, j \in DOMAIN new.owners : new.owners[i] = new.owners[j] => i = j
    <3>1. \A i \in DOMAIN lock.owners : lock.owners[i] # q.txn
      BY <1>9 DEF OwnersOf
    <3>2. \A i, j \in DOMAIN lock.owners : lock.owners[i] = lock.owners[j] => i = j
      BY <1>1 DEF LockOK
    <3> QED
      BY <2>2, <3>1, <3>2
  <2>7. /\ new \in LockRecord
        /\ new.mode = "exclusive" => Len(new.owners) = 1
        /\ new.mode # "unknown" /\ new.owners # <<>>
    <3>1. new.mode = q.mode \/ new.mode = lock.mode
      BY <1>5
    <3>2. new.owners # <<>>
      BY <1>2, <2>2
    <3>3. q.resource \notin Held => Len(new.owners) = 1 /\ new.mode = q.mode
      BY <1>2, <1>5, <2>2
    <3>4. q.resource \in Held => new.mode = "shared"
      BY <1>5, <2>5
    <3>5. new.mode \in {"shared", "exclusive"}
      BY <1>1, <3>3, <3>4
    <3>6. new \in LockRecord
      BY <1>5, <2>2, <3>5 DEF LockRecord
    <3> QED
      BY <3>2, <3>3, <3>4, <3>5, <3>6
  <2>8. LockOK(new)
    BY <2>6, <2>7 DEF LockOK
  <2>9. ASSUME NEW u \in OwnersOf(lock), lock.mode = "shared"
        PROVE  new.mode = "shared"
    <3>1. q.resource \in Held
      BY <1>2, <2>9 DEF OwnersOf
    <3> QED
      BY <1>5, <2>5, <3>1
  <2> QED
    BY <2>3, <2>8, <2>9 DEF Grants
<1> QED
  BY <1>8, <1>9

\* The wait records w and the place seq that AcquireInternal is called with.
AcquireArgs(w, q, seq) ==
    /\ WaitsOK(w, nextSequence)
    /\ LackOK(locks, w)
    /\ \/ seq = 0
       \/ /\ seq \in 1 .. MaxSequence /\ seq < nextSequence
          /\ \A u \in Txns \ {q.txn} : w[u] # NoWait => w[u].sequence # seq

LEMMA AcquireKeepsInv ==
  ASSUME LocksInv, NEW w, NEW q \in Request, NEW seq, AcquireArgs(w, q, seq),
         AcquireInternal(w, q, seq)
  PROVE  LocksInv'
<1> DEFINE r == q.resource
           t == q.txn
           lock == locks[r]
           d == Decision(w, q, seq)
<1>1. /\ r \in Resources /\ t \in Txns /\ q.mode \in {"shared", "exclusive"}
      /\ LockOK(lock) /\ locks \in [Resources -> LockRecord]
      /\ WaitsOK(w, nextSequence) /\ LackOK(locks, w)
      /\ w \in [Txns -> WaitingRecord \cup {NoWait}]
      /\ nextSequence \in 1 .. MaxSequence + 1 /\ MaxSequence \in Nat
      /\ admission \in Policies /\ clock \in 1 .. MaxClock
      /\ admission' = admission /\ clock' = clock
  BY LockConstants DEF Request, LocksInv, AcquireArgs, AcquireInternal, WaitsOK
<1>2. CASE /\ d \in {"granted", "already_owned"}
           /\ locks' = [locks EXCEPT ![r] = GrantedLock(q)]
           /\ waiting' = GrantedWaits(w, q)
           /\ UNCHANGED nextSequence
  <2> DEFINE new == GrantedLock(q)
  <2>1. /\ LockOK(new) /\ OwnersOf(new) = OwnersOf(lock) \cup {t}
        /\ \A u \in OwnersOf(lock) : u # t /\ lock.mode = "shared" => new.mode = "shared"
    <3>1. Decision(w, q, seq) \in {"granted", "already_owned"}
      BY <1>2
    <3>2. Grants(lock, new, t)
      BY <3>1, GrantKeepsLock
    <3> QED
      BY <3>2 DEF Grants
  <2> HIDE DEF new
  <2>2. /\ locks' \in [Resources -> LockRecord]
        /\ \A s \in Resources : locks'[s] = IF s = r THEN new ELSE locks[s]
    BY <1>1, <1>2, <2>1 DEF LockOK, new
  <2>3. \A s \in Resources : LockOK(locks'[s])
    BY <2>1, <2>2 DEF LocksInv
  <2>4. /\ waiting' \in [Txns -> WaitingRecord \cup {NoWait}]
        /\ waiting'[t] = NoWait
        /\ \A u \in Txns : u # t => waiting'[u] = w[u]
    BY <1>1, <1>2 DEF GrantedWaits
  <2>5. WaitsOK(waiting', nextSequence')
    BY <1>1, <1>2, <2>4 DEF WaitsOK
  <2>6. LackOK(locks', waiting')
    <3> SUFFICES ASSUME NEW u \in Txns, waiting'[u] # NoWait
                 PROVE  Lacks(locks'[waiting'[u].request.resource], u, waiting'[u].request)
      BY DEF LackOK
    <3> DEFINE p == waiting'[u].request
    <3>1. u # t /\ waiting'[u] = w[u] /\ w[u] # NoWait
      BY <2>4
    <3>2. p.resource \in Resources
      BY <2>4, WaitRecords
    <3>3. Lacks(locks[p.resource], u, p)
      BY <1>1, <3>1 DEF LackOK
    <3> HIDE DEF p
    <3>4. CASE p.resource # r
      BY <2>2, <3>2, <3>3, <3>4 DEF p
    <3>5. CASE p.resource = r
      <4>1. Lacks(new, u, p)
        BY <2>1, <3>1, <3>3, <3>5 DEF Lacks
      <4> QED
        BY <1>1, <2>2, <3>5, <4>1 DEF p
    <3> QED
      BY <3>4, <3>5
  <2> QED
    BY <1>1, <1>2, <2>2, <2>3, <2>5, <2>6 DEF LocksInv
<1>3. CASE /\ d = "wait_required"
           /\ seq # 0 \/ nextSequence <= MaxSequence
           /\ waiting' = [w EXCEPT ![t] = [request |-> q, sequence |-> WaitSequence(w, seq)]]
           /\ nextSequence' = IF seq = 0 THEN nextSequence + 1 ELSE nextSequence
           /\ UNCHANGED locks
  <2> DEFINE n == WaitSequence(w, seq)
             x == [request |-> q, sequence |-> n]
  <2>1. /\ n \in 1 .. MaxSequence /\ n < nextSequence'
        /\ nextSequence' \in 1 .. MaxSequence + 1 /\ nextSequence <= nextSequence'
        /\ \A u \in Txns \ {t} : w[u] # NoWait => w[u].sequence # n
    <3>1. CASE seq = 0
      <4>1. n = nextSequence /\ nextSequence' = nextSequence + 1 /\ nextSequence <= MaxSequence
        BY <1>3, <3>1 DEF WaitSequence
      <4>2. \A u \in Txns : w[u] # NoWait =>
               w[u].sequence < nextSequence /\ w[u].sequence \in 1 .. MaxSequence
        BY <1>1, WaitRecords DEF WaitsOK
      <4> HIDE DEF n
      <4> QED
        BY <1>1, <4>1, <4>2
    <3>2. CASE seq # 0
      BY <1>1, <1>3, <3>2 DEF WaitSequence, AcquireArgs
    <3> QED
      BY <3>1, <3>2
  <2>2. x \in WaitingRecord /\ x # NoWait /\ x.request = q /\ x.sequence = n
    <3> HIDE DEF n
    <3> QED
      BY <2>1, RecordsAreWaits
  <2> HIDE DEF x, n
  <2>3. /\ waiting' \in [Txns -> WaitingRecord \cup {NoWait}]
        /\ waiting'[t] = x
        /\ \A u \in Txns : u # t => waiting'[u] = w[u]
    BY <1>1, <1>3, <2>2 DEF x, n
  <2>4. \A u \in Txns : w[u] # NoWait => w[u].sequence < nextSequence /\ w[u].sequence \in 1 .. MaxSequence
    BY <1>1, WaitRecords DEF WaitsOK
  <2>5. WaitsOK(waiting', nextSequence')
    <3>1. \A u \in Txns : waiting'[u] # NoWait =>
             waiting'[u].request.txn = u /\ waiting'[u].sequence < nextSequence'
      <4> TAKE u \in Txns
      <4>1. CASE u = t
        BY <2>1, <2>2, <2>3, <4>1
      <4>2. CASE u # t
        <5>1. w[u] # NoWait => w[u].request.txn = u
          BY <1>1 DEF WaitsOK
        <5> QED
          BY <1>1, <2>1, <2>3, <2>4, <4>2, <5>1
      <4> QED
        BY <4>1, <4>2
    <3>2. ASSUME NEW u \in Txns, NEW v \in Txns, waiting'[u] # NoWait, waiting'[v] # NoWait,
                 waiting'[u].sequence = waiting'[v].sequence
          PROVE  u = v
      <4>1. CASE u # t /\ v # t
        BY <1>1, <2>3, <3>2, <4>1 DEF WaitsOK
      <4>2. CASE u = t \/ v = t
        BY <2>1, <2>2, <2>3, <3>2, <4>2
      <4> QED
        BY <4>1, <4>2
    <3> QED
      BY <2>3, <3>1, <3>2 DEF WaitsOK
  <2>6. Lacks(lock, t, q)
    <3>1. r \in Held /\ (t \in OwnersOf(lock) => lock.mode \notin {"exclusive", q.mode})
      BY <1>3, DecisionFacts
    <3>2. lock.mode \in {"shared", "exclusive"}
      BY <1>1, <3>1 DEF LockOK, LockRecord, Held
    <3> QED
      BY <1>1, <3>1, <3>2 DEF Lacks
  <2>7. LackOK(locks', waiting')
    <3> SUFFICES ASSUME NEW u \in Txns, waiting'[u] # NoWait
                 PROVE  Lacks(locks[waiting'[u].request.resource], u, waiting'[u].request)
      BY <1>3 DEF LackOK
    <3>1. CASE u = t
      BY <2>2, <2>3, <2>6, <3>1
    <3>2. CASE u # t
      BY <1>1, <2>3, <3>2 DEF LackOK
    <3> QED
      BY <3>1, <3>2
  <2>8. locks' = locks
    BY <1>3
  <2> QED
    BY <1>1, <2>1, <2>5, <2>7, <2>8 DEF LocksInv
<1>4. CASE /\ d \in {"timeout", "deadlock_detected", "admission_refused"}
           /\ waiting' = w
           /\ UNCHANGED <<locks, nextSequence>>
  BY <1>1, <1>4 DEF LocksInv
<1> QED
  BY <1>2, <1>3, <1>4 DEF AcquireInternal

-----------------------------------------------------------------------------
(***************************************************************************)
(* Release and ReleaseAll.                                                 *)
(***************************************************************************)
Drops(lock, new, t) ==
    /\ LockOK(new)
    /\ OwnersOf(new) = OwnersOf(lock) \ {t}
    /\ OwnersOf(new) # {} => new.mode = lock.mode

LEMMA WithoutOwnerDrops ==
  ASSUME NEW lock, LockOK(lock), NEW t
  PROVE  Drops(lock, WithoutOwner(lock, t), t)
<1> DEFINE owners == RemoveOwner(lock.owners, t)
           new == WithoutOwner(lock, t)
<1>1. /\ lock.owners \in Seq(Txns) /\ lock.mode \in {"shared", "exclusive", "unknown"}
      /\ Len(lock.owners) \in Nat /\ lock = [owners |-> lock.owners, mode |-> lock.mode]
      /\ \A i, j \in DOMAIN lock.owners : lock.owners[i] = lock.owners[j] => i = j
      /\ lock.mode = "exclusive" => Len(lock.owners) = 1
      /\ lock.mode = "unknown" => lock.owners = <<>>
  BY DEF LockOK, LockRecord
<1>2. /\ owners \in Seq(Txns) /\ Len(owners) <= Len(lock.owners)
      /\ \A o : (\E i \in DOMAIN owners : owners[i] = o)
                   <=> o # t /\ (\E i \in DOMAIN lock.owners : lock.owners[i] = o)
      /\ \A i, j \in DOMAIN owners : owners[i] = owners[j] => i = j
  <2>1. Removed(owners, lock.owners, t, Txns)
    BY <1>1, RemoveOwnerFacts
  <2> HIDE DEF owners
  <2> QED
    BY <1>1, <2>1 DEF Removed
<1>3. new = IF owners = <<>> THEN NoLock ELSE [lock EXCEPT !.owners = owners]
  BY DEF WithoutOwner
<1> HIDE DEF owners, new
<1>4. {owners[i] : i \in DOMAIN owners} = OwnersOf(lock) \ {t}
  BY <1>2 DEF OwnersOf
<1>5. CASE owners = <<>>
  <2>1. new.owners = <<>> /\ new.mode = "unknown" /\ new \in LockRecord
    BY <1>3, <1>5 DEF NoLock, LockRecord
  <2>2. LockOK(new)
    BY <2>1 DEF LockOK
  <2>3. OwnersOf(new) = {}
    BY <2>1 DEF OwnersOf
  <2>4. OwnersOf(lock) \ {t} = {}
    BY <1>4, <1>5
  <2> QED
    BY <2>2, <2>3, <2>4 DEF Drops, new
<1>6. CASE owners # <<>>
  <2>1. new = [owners |-> owners, mode |-> lock.mode]
    BY <1>1, <1>3, <1>6
  <2>2. new.owners = owners /\ new.mode = lock.mode /\ new \in LockRecord
    BY <1>1, <1>2, <2>1 DEF LockRecord
  <2>3. Len(owners) \in Nat /\ Len(owners) # 0
    BY <1>2, <1>6
  <2>4. lock.mode # "unknown"
    <3>1. Len(<<>>) = 0
      OBVIOUS
    <3> QED
      BY <1>1, <1>2, <2>3, <3>1
  <2>5. new.mode = "exclusive" => Len(new.owners) = 1
    BY <1>1, <1>2, <2>2, <2>3
  <2>6. LockOK(new)
    BY <1>2, <1>6, <2>2, <2>4, <2>5 DEF LockOK
  <2>7. OwnersOf(new) = OwnersOf(lock) \ {t}
    BY <1>4, <2>2 DEF OwnersOf
  <2> QED
    BY <2>2, <2>6, <2>7 DEF Drops, new
<1> QED
  BY <1>5, <1>6

\* A step that drops t from some locks, and its wait record.
DropsOwner(t) ==
    /\ locks' \in [Resources -> LockRecord]
    /\ \A r \in Resources : locks'[r] = locks[r] \/ Drops(locks[r], locks'[r], t)
    /\ waiting' = [waiting EXCEPT ![t] = NoWait]
    /\ UNCHANGED <<nextSequence, admission, clock>>

LEMMA ReleaseDrops ==
  ASSUME LocksInv, NEW t \in Txns,
         \/ \E r \in Resources : Release(t, r)
         \/ ReleaseAll(t)
  PROVE  DropsOwner(t)
<1>1. locks \in [Resources -> LockRecord] /\ \A r \in Resources : LockOK(locks[r])
  BY DEF LocksInv
<1>2. \A r \in Resources : /\ Drops(locks[r], WithoutOwner(locks[r], t), t)
                           /\ WithoutOwner(locks[r], t) \in LockRecord
  BY <1>1, WithoutOwnerDrops DEF Drops, LockOK
<1>3. CASE \E r \in Resources : Release(t, r)
  BY <1>1, <1>2, <1>3 DEF Release, DropsOwner
<1>4. CASE ReleaseAll(t)
  BY <1>1, <1>2, <1>4 DEF ReleaseAll, DropsOwner
<1> QED
  BY <1>3, <1>4

LEMMA DropsKeepInv ==
  ASSUME LocksInv, NEW t \in Txns, DropsOwner(t)
  PROVE  LocksInv'
<1>1. /\ locks' \in [Resources -> LockRecord]
      /\ \A r \in Resources : locks'[r] = locks[r] \/ Drops(locks[r], locks'[r], t)
      /\ waiting' = [waiting EXCEPT ![t] = NoWait]
      /\ nextSequence' = nextSequence /\ admission' = admission /\ clock' = clock
      /\ WaitsOK(waiting, nextSequence) /\ LackOK(locks, waiting)
      /\ waiting \in [Txns -> WaitingRecord \cup {NoWait}]
      /\ \A r \in Resources : LockOK(locks[r])
  BY DEF DropsOwner, LocksInv, WaitsOK
<1>2. \A r \in Resources : LockOK(locks'[r])
  BY <1>1 DEF Drops
<1>3. /\ waiting' \in [Txns -> WaitingRecord \cup {NoWait}]
      /\ waiting'[t] = NoWait
      /\ \A u \in Txns : u # t => waiting'[u] = waiting[u]
  BY <1>1
<1>4. WaitsOK(waiting', nextSequence')
  BY <1>1, <1>3 DEF WaitsOK
<1>5. LackOK(locks', waiting')
  <2> SUFFICES ASSUME NEW u \in Txns, waiting'[u] # NoWait
               PROVE  Lacks(locks'[waiting'[u].request.resource], u, waiting'[u].request)
    BY DEF LackOK
  <2> DEFINE q == waiting'[u].request
  <2>1. u # t /\ waiting'[u] = waiting[u]
    BY <1>3
  <2>2. q.resource \in Resources
    BY <1>3, WaitRecords
  <2>3. Lacks(locks[q.resource], u, q)
    BY <1>1, <2>1 DEF LackOK
  <2> HIDE DEF q
  <2>4. CASE locks'[q.resource] = locks[q.resource]
    BY <2>3, <2>4 DEF q
  <2>5. CASE Drops(locks[q.resource], locks'[q.resource], t)
    <3>1. Lacks(locks'[q.resource], u, q)
      BY <2>3, <2>5 DEF Lacks, Drops
    <3> QED
      BY <3>1 DEF q
  <2> QED
    BY <1>1, <2>2, <2>4, <2>5
<1> QED
  BY <1>1, <1>2, <1>3, <1>4, <1>5 DEF LocksInv

-----------------------------------------------------------------------------
\* The arguments with which Acquire and Retry call AcquireInternal.
LEMMA AcquireIsInternal ==
  ASSUME LocksInv, NEW t \in Txns, NEW r \in Resources, NEW mode \in Modes,
         NEW timeout \in Timeouts, NEW start \in 1 .. clock,
         Acquire(t, r, mode, timeout, start)
  PROVE  \E w, q : /\ q \in Request /\ q.txn = t /\ w = waiting
                   /\ AcquireArgs(w, q, 0) /\ AcquireInternal(w, q, 0)
<1> DEFINE req == [txn |-> t, resource |-> r, mode |-> mode,
                   timeout |-> timeout, start |-> start, now |-> clock]
<1>1. clock \in 1 .. MaxClock /\ MaxClock \in Nat
  BY LockConstants DEF LocksInv
<1>2. start \in 1 .. MaxClock
  BY <1>1
<1>3. req \in Request /\ req.txn = t
  BY <1>1, <1>2 DEF Request
<1> HIDE DEF req
<1>4. AcquireArgs(waiting, req, 0)
  BY DEF LocksInv, AcquireArgs
<1>5. AcquireInternal(waiting, req, 0)
  BY DEF Acquire, req
<1> QED
  BY <1>3, <1>4, <1>5

LEMMA RetryIsInternal ==
  ASSUME LocksInv, NEW t \in Txns, Retry(t)
  PROVE  \E w, q, seq : /\ q \in Request /\ q.txn = t
                        /\ waiting[t] # NoWait /\ q = waiting[t].request
                        /\ seq = waiting[t].sequence
                        /\ w = [waiting EXCEPT ![t] = NoWait]
                        /\ AcquireArgs(w, q, seq) /\ AcquireInternal(w, q, seq)
<1> DEFINE w == [waiting EXCEPT ![t] = NoWait]
           q == waiting[t].request
           seq == waiting[t].sequence
<1>1. waiting[t] # NoWait /\ AcquireInternal(w, q, seq)
  BY DEF Retry
<1>2. /\ WaitsOK(waiting, nextSequence) /\ LackOK(locks, waiting)
      /\ waiting \in [Txns -> WaitingRecord \cup {NoWait}]
  BY DEF LocksInv, WaitsOK
<1>3. q \in Request /\ seq \in 1 .. MaxSequence
  BY <1>1, <1>2, WaitRecords
<1>4. q.txn = t /\ seq < nextSequence
  BY <1>1, <1>2 DEF WaitsOK
<1>5. /\ w \in [Txns -> WaitingRecord \cup {NoWait}] /\ w[t] = NoWait
      /\ \A u \in Txns : u # t => w[u] = waiting[u]
  BY <1>2
<1>6. \A u \in Txns : u # t /\ waiting[u] # NoWait => waiting[u].sequence # seq
  BY <1>1, <1>2 DEF WaitsOK
<1> HIDE DEF w
<1>7. WaitsOK(w, nextSequence)
  BY <1>2, <1>5 DEF WaitsOK
<1>8. LackOK(locks, w)
  BY <1>2, <1>5 DEF LackOK
<1>9. \A u \in Txns \ {t} : w[u] # NoWait => w[u].sequence # seq
  BY <1>5, <1>6
<1>10. AcquireArgs(w, q, seq)
  BY <1>3, <1>4, <1>7, <1>8, <1>9 DEF AcquireArgs
<1>11. w = [waiting EXCEPT ![t] = NoWait]
  BY DEF w
<1> QED
  BY <1>1, <1>3, <1>4, <1>10, <1>11

LEMMA NextKeepsLocksInv ==
  ASSUME LocksInv, [Next]_lockVars
  PROVE  LocksInv'
<1>1. ASSUME NEW t \in Txns, NEW r \in Resources, NEW mode \in Modes,
             NEW timeout \in Timeouts, NEW start \in 1 .. clock,
             Acquire(t, r, mode, timeout, start)
      PROVE  LocksInv'
  <2>1. PICK w, q : q \in Request /\ AcquireArgs(w, q, 0) /\ AcquireInternal(w, q, 0)
    BY <1>1, AcquireIsInternal
  <2> QED
    BY <2>1, AcquireKeepsInv
<1>2. ASSUME NEW t \in Txns, Retry(t) PROVE LocksInv'
  <2>1. PICK w, q, seq : /\ q \in Request /\ AcquireArgs(w, q, seq)
                         /\ AcquireInternal(w, q, seq)
    BY <1>2, RetryIsInternal
  <2> QED
    BY <2>1, AcquireKeepsInv
<1>3. ASSUME NEW t \in Txns, NEW r \in Resources, Release(t, r) PROVE LocksInv'
  BY <1>3, ReleaseDrops, DropsKeepInv
<1>4. ASSUME NEW t \in Txns, ReleaseAll(t) PROVE LocksInv'
  BY <1>4, ReleaseDrops, DropsKeepInv
<1>5. ASSUME NEW policy \in Policies, SetAdmissionPolicy(policy) PROVE LocksInv'
  BY <1>5 DEF SetAdmissionPolicy, LocksInv
<1>6. CASE Tick
  <2>1. clock' \in 1 .. MaxClock
    BY <1>6, LockConstants DEF Tick, LocksInv
  <2> QED
    BY <1>6, <2>1 DEF Tick, LocksInv
<1>7. CASE UNCHANGED lockVars
  BY <1>7 DEF lockVars, LocksInv
<1> QED
  BY <1>1, <1>2, <1>3, <1>4, <1>5, <1>6, <1>7 DEF Next

\* The invariant holds of every behaviour of the lock table.
THEOREM LocksInvariant == Spec => []LocksInv
BY InitialLocks, NextKeepsLocksInv, PTL DEF Spec

\* Table, wait records and sequence numbers keep their types, whatever is
\* acquired, retried and released (AcquireInternal, Release, ReleaseAll).
THEOREM LockTypes == Spec => []LocksTypeOK
BY LocksInvariant, InvGivesProperties, PTL

\* No behaviour of AcquireInternal, Release and ReleaseAll gives an exclusive
\* lock two owners or lists an owner twice.
THEOREM ExclusiveLocks == Spec => []ExclusiveIsExclusive
BY LocksInvariant, InvGivesProperties, PTL

\* No wait record outlives the grant of what it asks for, whoever grants it
\* and whatever the owner asked for earlier.
THEOREM WaitsAreOutstanding == Spec => []WaitersLackTheirLock
BY LocksInvariant, InvGivesProperties, PTL

-----------------------------------------------------------------------------
(***************************************************************************)
(* NoOvertaking.                                                           *)
(***************************************************************************)
Overtakes(r, t, u) ==
    /\ WaitsFor(waiting, u, r)
    /\ ~(WaitsFor(waiting, t, r) /\ waiting[t].sequence < waiting[u].sequence)

Joins(r, t) == Owners(r) # {} /\ t \notin Owners(r) /\ t \in Owners(r)'

\* Only a granted request makes an owner, the transaction it names, and on a
\* lock already held only when nobody waits before it.
LEMMA OnlyGrantsJoin ==
  ASSUME LocksInv, NEW w, NEW q \in Request, NEW seq, AcquireInternal(w, q, seq),
         NEW r \in Resources, NEW t \in Txns, Joins(r, t)
  PROVE  t = q.txn /\ r = q.resource /\ PriorWaiters(w, q, seq) = {}
<1>1. q.resource \in Resources /\ locks \in [Resources -> LockRecord]
  BY DEF Request, LocksInv
<1>2. locks'[r] # locks[r]
  BY DEF Joins, Owners
<1>3. Decision(w, q, seq) \in {"granted", "already_owned"}
      /\ locks' = [locks EXCEPT ![q.resource] = GrantedLock(q)]
  BY <1>2 DEF AcquireInternal
<1>4. r = q.resource
  BY <1>1, <1>2, <1>3
<1>5. locks'[r] = GrantedLock(q)
  BY <1>1, <1>3, <1>4
<1>6. Grants(locks[q.resource], GrantedLock(q), q.txn)
  BY <1>3, GrantKeepsLock
<1>7. /\ OwnersOf(locks[r]) = Owners(r) /\ OwnersOf(locks'[r]) = Owners(r)'
  BY DEF OwnersOf, Owners
<1>8. OwnersOf(locks'[r]) = OwnersOf(locks[r]) \cup {q.txn}
  BY <1>4, <1>5, <1>6 DEF Grants
<1>9. t = q.txn /\ t \notin OwnersOf(locks[r])
  BY <1>7, <1>8 DEF Joins
<1>10. q.resource \in Held
  BY <1>4, <1>1 DEF Joins, Owners, Held
<1>11. PriorWaiters(w, q, seq) = {}
  BY <1>3, <1>4, <1>9, <1>10, DecisionFacts
<1> QED
  BY <1>4, <1>9, <1>11

LEMMA NobodyOvertakes ==
  ASSUME LocksInv, [Next]_lockVars,
         NEW r \in Resources, NEW t \in Txns, Joins(r, t), NEW u \in Txns \ {t}
  PROVE  ~Overtakes(r, t, u)
<1>1. ASSUME NEW t0 \in Txns, NEW r0 \in Resources, NEW mode \in Modes,
             NEW timeout \in Timeouts, NEW start \in 1 .. clock,
             Acquire(t0, r0, mode, timeout, start)
      PROVE  ~Overtakes(r, t, u)
  <2>1. PICK w, q : q \in Request /\ w = waiting /\ AcquireInternal(w, q, 0)
    BY <1>1, AcquireIsInternal
  <2>2. t = q.txn /\ r = q.resource /\ PriorWaiters(w, q, 0) = {}
    BY <2>1, OnlyGrantsJoin
  <2>3. ~WaitsFor(waiting, u, r)
    BY <2>1, <2>2 DEF PriorWaiters
  <2> QED
    BY <2>3 DEF Overtakes
<1>2. ASSUME NEW t0 \in Txns, Retry(t0) PROVE ~Overtakes(r, t, u)
  <2>1. PICK w, q, seq : /\ q \in Request /\ q.txn = t0
                         /\ waiting[t0] # NoWait /\ q = waiting[t0].request
                         /\ seq = waiting[t0].sequence
                         /\ w = [waiting EXCEPT ![t0] = NoWait]
                         /\ AcquireInternal(w, q, seq)
    BY <1>2, RetryIsInternal
  <2>2. t = t0 /\ r = q.resource /\ PriorWaiters(w, q, seq) = {}
    BY <2>1, OnlyGrantsJoin
  <2>3. SUFFICES ASSUME WaitsFor(waiting, u, r)
                 PROVE  WaitsFor(waiting, t, r) /\ waiting[t].sequence < waiting[u].sequence
    BY DEF Overtakes
  <2>4. waiting \in [Txns -> WaitingRecord \cup {NoWait}] /\ WaitsOK(waiting, nextSequence)
    BY DEF LocksInv, WaitsOK
  <2>5. w[u] = waiting[u] /\ u \in Txns \ {q.txn}
    BY <2>1, <2>2, <2>4
  <2>6. WaitsFor(w, u, q.resource) /\ waiting[u] # NoWait
    BY <2>2, <2>3, <2>5 DEF WaitsFor
  <2>7. ~(w[u].sequence < seq)
    BY <2>2, <2>5, <2>6 DEF PriorWaiters
  <2>8. waiting[u].sequence \in 1 .. MaxSequence /\ waiting[t].sequence \in 1 .. MaxSequence
    BY <2>1, <2>2, <2>4, <2>6, WaitRecords
  <2>9. waiting[u].sequence # waiting[t].sequence
    BY <2>1, <2>2, <2>4, <2>6 DEF WaitsOK
  <2>10. WaitsFor(waiting, t, r)
    BY <2>1, <2>2 DEF WaitsFor
  <2> QED
    BY <2>1, <2>2, <2>5, <2>7, <2>8, <2>9, <2>10
<1>3. ASSUME NEW t0 \in Txns, DropsOwner(t0) PROVE FALSE
  <2>1. OwnersOf(locks[r]) = Owners(r) /\ OwnersOf(locks'[r]) = Owners(r)'
    BY DEF OwnersOf, Owners
  <2> QED
    BY <1>3, <2>1 DEF Joins, DropsOwner, Drops
<1>4. ASSUME NEW t0 \in Txns,
             (\E r0 \in Resources : Release(t0, r0)) \/ ReleaseAll(t0)
      PROVE  FALSE
  BY <1>3, <1>4, ReleaseDrops
<1>5. ASSUME locks' = locks PROVE FALSE
  BY <1>5 DEF Joins, Owners
<1>6. CASE (\E policy \in Policies : SetAdmissionPolicy(policy)) \/ Tick \/ UNCHANGED lockVars
  BY <1>5, <1>6 DEF SetAdmissionPolicy, Tick, lockVars
<1> QED
  BY <1>1, <1>2, <1>4, <1>6 DEF Next

\* Nobody is granted a held lock past a transaction that has waited for it
\* longer, in any number of transactions, retries and releases.
THEOREM WaitersAreNotOvertaken == Spec => NoOvertaking
<1>1. ASSUME LocksInv, [Next]_lockVars
      PROVE  [\A r \in Resources, t \in Txns :
                /\ Owners(r) # {} /\ t \notin Owners(r) /\ t \in Owners(r)'
                => \A u \in Txns \ {t} :
                     WaitsFor(waiting, u, r) =>
                       /\ WaitsFor(waiting, t, r)
                       /\ waiting[t].sequence < waiting[u].sequence]_lockVars
  BY <1>1, NobodyOvertakes DEF Joins, Overtakes
<1> QED
  BY <1>1, LocksInvariant, PTL DEF Spec, NoOvertaking

-----------------------------------------------------------------------------
(***************************************************************************)
(* The deadlock search.  A hop that reaches somebody new who waits for a   *)
(* resource not met before uses up one of the held locks, so within as     *)
(* many hops as locks are held, plus one, what is reached is closed: its   *)
(* members wait for each other only.  If the search then misses the        *)
(* requester, what it reached is a smaller deadlock.                       *)
(***************************************************************************)
Hops(f, w, from, n) ==
    /\ f = [m \in 0 .. n |-> f[m]]
    /\ f[0] = {from}
    /\ \A m \in 1 .. n : f[m] = f[m - 1] \cup AwaitedOwners(w, f[m - 1])

LEMMA HopsExist ==
  ASSUME NEW w, NEW from, NEW n \in Nat
  PROVE  \E f : Hops(f, w, from, n)
<1> DEFINE Ok(m) == \E f : Hops(f, w, from, m)
           bad == {m \in Nat : ~Ok(m)}
<1>1. Ok(0)
  <2> DEFINE f0 == [k \in 0 .. 0 |-> {from}]
  <2>1. Hops(f0, w, from, 0)
    BY DEF Hops
  <2> HIDE DEF f0
  <2> QED
    BY <2>1
<1>2. ASSUME NEW m \in Nat, m # 0, Ok(m - 1) PROVE Ok(m)
  <2>1. PICK g : Hops(g, w, from, m - 1)
    BY <1>2
  <2> DEFINE new == g[m - 1] \cup AwaitedOwners(w, g[m - 1])
             h == [k \in 0 .. m |-> IF k = m THEN new ELSE g[k]]
  <2>2. /\ h[m] = new
        /\ \A k \in 0 .. (m - 1) : h[k] = g[k]
    OBVIOUS
  <2>3. h = [k \in 0 .. m |-> h[k]]
    OBVIOUS
  <2> HIDE DEF h
  <2>4. h[0] = {from}
    <3>1. g[0] = {from}
      BY <2>1 DEF Hops
    <3>2. 0 \in 0 .. (m - 1)
      BY <1>2
    <3> HIDE DEF new
    <3> QED
      BY <2>2, <3>1, <3>2
  <2>5. ASSUME NEW k \in 1 .. m
        PROVE  h[k] = h[k - 1] \cup AwaitedOwners(w, h[k - 1])
    <3>1. CASE k = m
      <4>1. h[m - 1] = g[m - 1] /\ h[k] = new
        BY <1>2, <2>2, <3>1
      <4> QED
        BY <3>1, <4>1
    <3>2. CASE k # m
      <4>1. k \in 1 .. (m - 1) /\ k \in 0 .. (m - 1) /\ k - 1 \in 0 .. (m - 1)
        BY <3>2
      <4>2. h[k] = g[k] /\ h[k - 1] = g[k - 1]
        BY <2>2, <4>1
      <4> QED
        BY <2>1, <4>1, <4>2 DEF Hops
    <3> QED
      BY <3>1, <3>2
  <2>6. Hops(h, w, from, m)
    BY <2>3, <2>4, <2>5 DEF Hops
  <2> QED
    BY <2>6
<1>3. bad = {}
  <2> HIDE DEF Ok
  <2> SUFFICES ASSUME bad # {} PROVE FALSE
    OBVIOUS
  <2>1. PICK m \in bad : \A k \in bad : m <= k
    BY LeastNatural
  <2>2. m \in Nat /\ ~Ok(m) /\ m # 0
    BY <1>1
  <2>3. m - 1 \in Nat /\ ~(m <= m - 1)
    BY <2>2
  <2>4. Ok(m - 1)
    BY <2>1, <2>3
  <2> QED
    BY <1>2, <2>2, <2>4
<1>4. Ok(n)
  <2> HIDE DEF Ok
  <2> QED
    BY <1>3
<1> QED
  BY <1>4

\* What the search reaches, hop by hop.
LEMMA SearchUnfolds ==
  ASSUME NEW w, NEW from, NEW target, Cardinality(Held) \in Nat
  PROVE  \E f : /\ Hops(f, w, from, Cardinality(Held) + 1)
                /\ HasDeadlockPath(w, from, target) <=> target \in f[Cardinality(Held) + 1]
<1> DEFINE depth == Cardinality(Held) + 1
           Val(g, n) == IF n = 0 THEN {from}
                        ELSE g[n - 1] \cup AwaitedOwners(w, g[n - 1])
           Body(g) == [n \in 0 .. depth |-> Val(g, n)]
           reached == CHOOSE g : g = Body(g)
<1>1. HasDeadlockPath(w, from, target) <=> target \in reached[depth]
  BY DEF HasDeadlockPath
<1>2. depth \in Nat
  OBVIOUS
<1> HIDE DEF depth
<1>3. \E g : g = Body(g)
  <2>1. PICK g : Hops(g, w, from, depth)
    BY <1>2, HopsExist
  <2>2. ASSUME NEW n \in 0 .. depth
        PROVE  g[n] = Val(g, n)
    <3>1. CASE n = 0
      BY <2>1, <3>1 DEF Hops
    <3>2. CASE n # 0
      <4>1. n \in 1 .. depth
        BY <1>2, <3>2
      <4> QED
        BY <2>1, <3>2, <4>1 DEF Hops
    <3> QED
      BY <3>1, <3>2
  <2> HIDE DEF Val
  <2>3. g = [n \in 0 .. depth |-> g[n]]
    BY <2>1 DEF Hops
  <2>4. [n \in 0 .. depth |-> g[n]] = [n \in 0 .. depth |-> Val(g, n)]
    BY <2>2
  <2>5. g = Body(g)
    BY <2>3, <2>4
  <2> HIDE DEF Body
  <2> QED
    BY <2>5
<1>4. reached = Body(reached)
  <2> HIDE DEF Body
  <2> QED
    BY <1>3
<1> HIDE DEF reached
<1>5. \A n \in 0 .. depth : reached[n] = Val(reached, n)
  <2> HIDE DEF Val
  <2> QED
    BY <1>4
<1>6. reached = [n \in 0 .. depth |-> reached[n]]
  <2> HIDE DEF Val
  <2> QED
    BY <1>4
<1> HIDE DEF Body
<1>7. reached[0] = {from}
  <2>1. 0 \in 0 .. depth /\ Val(reached, 0) = {from}
    BY <1>2
  <2> HIDE DEF Val
  <2> QED
    BY <1>5, <2>1
<1>8. \A n \in 1 .. depth : reached[n] = reached[n - 1] \cup AwaitedOwners(w, reached[n - 1])
  <2> TAKE n \in 1 .. depth
  <2>1. n \in 0 .. depth /\ n # 0
    BY <1>2
  <2> QED
    BY <1>5, <2>1
<1>9. Hops(reached, w, from, depth)
  BY <1>6, <1>7, <1>8 DEF Hops
<1> QED
  BY <1>1, <1>9 DEF depth

\* The resources that the members of X wait for.
Awaited(w, X) == {w[t].request.resource : t \in X \cap Waiters(w)}

LEMMA OwnersAwaited ==
  ASSUME NEW w, NEW X, NEW Y
  PROVE  /\ Awaited(w, X) = Awaited(w, Y) => AwaitedOwners(w, X) = AwaitedOwners(w, Y)
         /\ X \subseteq Y => Awaited(w, X) \subseteq Awaited(w, Y)
<1>1. \A Z : AwaitedOwners(w, Z) = UNION {Owners(r) : r \in Awaited(w, Z)}
  BY DEF AwaitedOwners, Awaited
<1>2. X \subseteq Y => Awaited(w, X) \subseteq Awaited(w, Y)
  BY DEF Awaited
<1> QED
  BY <1>1, <1>2

\* Within the depth of the search a closed set of waiters is reached: every
\* member of ts waits for a held lock whose owners are in ts.
LEMMA SearchCloses ==
  ASSUME IsFiniteSet(Held), NEW w, NEW ts, NEW from \in ts, NEW f,
         from \in Waiters(w),
         \A u \in ts \cap Waiters(w) : /\ w[u].request.resource \in Held
                                      /\ Owners(w[u].request.resource) \subseteq ts,
         Hops(f, w, from, Cardinality(Held) + 1)
  PROVE  LET X == f[Cardinality(Held) + 1]
         IN  from \in X /\ X \subseteq ts /\ AwaitedOwners(w, X) \subseteq X
<1> DEFINE depth == Cardinality(Held) + 1
           A(n) == Awaited(w, f[n])
           Closed(n) == AwaitedOwners(w, f[n]) \subseteq f[n]
           Good(n) == /\ from \in f[n] /\ f[n] \subseteq ts
                      /\ Closed(n) \/ Cardinality(A(n)) > n
           bad == {n \in 0 .. depth : ~Good(n)}
<1>1. Cardinality(Held) \in Nat /\ depth \in Nat
  BY FS_CardinalityType
<1>2. ASSUME NEW X, X \subseteq ts
      PROVE  /\ Awaited(w, X) \subseteq Held
             /\ AwaitedOwners(w, X) \subseteq ts
             /\ IsFiniteSet(Awaited(w, X)) /\ Cardinality(Awaited(w, X)) \in Nat
             /\ Cardinality(Awaited(w, X)) <= Cardinality(Held)
  <2>1. Awaited(w, X) \subseteq Held /\ AwaitedOwners(w, X) \subseteq ts
    BY <1>2 DEF Awaited, AwaitedOwners
  <2>2. IsFiniteSet(Awaited(w, X)) /\ Cardinality(Awaited(w, X)) <= Cardinality(Held)
    BY <2>1, FS_Subset
  <2> QED
    BY <2>1, <2>2, FS_CardinalityType
<1>3. f[0] = {from} /\ \A n \in 1 .. depth : f[n] = f[n - 1] \cup AwaitedOwners(w, f[n - 1])
  BY DEF Hops
<1>4. Good(0)
  <2>1. f[0] \subseteq ts /\ from \in f[0]
    BY <1>3
  <2>2. w[from].request.resource \in A(0)
    BY <2>1 DEF Awaited
  <2>3. A(0) # {} /\ IsFiniteSet(A(0)) /\ Cardinality(A(0)) \in Nat
    BY <1>2, <2>1, <2>2
  <2>4. Cardinality(A(0)) # 0
    <3> HIDE DEF A
    <3> QED
      BY <2>3, FS_EmptySet
  <2> QED
    BY <2>1, <2>3, <2>4
<1>5. ASSUME NEW n \in 1 .. depth, Good(n - 1) PROVE Good(n)
  <2> DEFINE X == f[n - 1]
             Y == f[n]
  <2>1. Y = X \cup AwaitedOwners(w, X) /\ n \in Nat /\ n - 1 \in Nat
    BY <1>1, <1>3
  <2>2. from \in X /\ X \subseteq ts
    BY <1>5
  <2>3. from \in Y /\ Y \subseteq ts
    BY <1>2, <2>1, <2>2
  <2>4. Awaited(w, X) \subseteq Awaited(w, Y)
    BY <2>1, OwnersAwaited
  <2>5. AwaitedOwners(w, X) \subseteq X \/ Cardinality(Awaited(w, X)) > n - 1
    BY <1>5
  <2> HIDE DEF X, Y
  <2>6. CASE AwaitedOwners(w, X) \subseteq X
    <3>1. Y = X
      BY <2>1, <2>6
    <3> QED
      BY <2>3, <2>6, <3>1 DEF Y
  <2>7. CASE Awaited(w, X) = Awaited(w, Y)
    <3>1. AwaitedOwners(w, Y) \subseteq Y
      BY <2>1, <2>7, OwnersAwaited
    <3> QED
      BY <2>3, <3>1 DEF Y
  <2>8. CASE Cardinality(Awaited(w, X)) > n - 1 /\ Awaited(w, X) # Awaited(w, Y)
    <3>1. /\ Cardinality(Awaited(w, X)) \in Nat /\ Cardinality(Awaited(w, Y)) \in Nat
          /\ IsFiniteSet(Awaited(w, Y))
      BY <1>2, <2>2, <2>3
    <3>2. /\ Cardinality(Awaited(w, X)) <= Cardinality(Awaited(w, Y))
          /\ Cardinality(Awaited(w, X)) # Cardinality(Awaited(w, Y))
      BY <2>4, <2>8, <3>1, FS_Subset
    <3>3. Cardinality(Awaited(w, Y)) > n
      BY <2>1, <2>8, <3>1, <3>2
    <3> QED
      BY <2>3, <3>3 DEF Y
  <2> QED
    BY <2>5, <2>6, <2>7, <2>8
<1>6. bad = {}
  <2> HIDE DEF Good, depth
  <2> SUFFICES ASSUME bad # {} PROVE FALSE
    OBVIOUS
  <2>0. bad \subseteq Nat
    BY <1>1
  <2>1. PICK m \in bad : \A k \in bad : m <= k
    <3> HIDE DEF bad
    <3> QED
      BY <2>0, LeastNatural
  <2>2. m \in Nat /\ ~Good(m) /\ m # 0 /\ m \in 0 .. depth
    BY <1>1, <1>4
  <2>3. m - 1 \in 0 .. depth /\ ~(m <= m - 1) /\ m \in 1 .. depth
    BY <1>1, <2>2
  <2>4. Good(m - 1)
    BY <2>1, <2>3
  <2> QED
    BY <1>5, <2>2, <2>3, <2>4
<1>7. Good(depth)
  <2> HIDE DEF Good, depth
  <2>1. depth \in 0 .. depth
    BY <1>1
  <2> QED
    BY <1>6, <2>1
<1>8. Cardinality(A(depth)) <= Cardinality(Held) /\ Cardinality(A(depth)) \in Nat
  <2> HIDE DEF depth
  <2> QED
    BY <1>2, <1>7
<1>9. ~(Cardinality(A(depth)) > depth)
  <2> HIDE DEF A
  <2> QED
    BY <1>1, <1>8
<1> QED
  BY <1>7, <1>9

\* The first blocking owner is an owner other than the requester, unless the
\* requester is alone.
LEMMA BlockingOwner ==
  ASSUME LocksInv, NEW q \in Request, q.resource \in Held, ~CompatibleWithExisting(q)
  PROVE  FirstBlockingOwner(q) \in Owners(q.resource) \ {q.txn}
<1> DEFINE own == locks[q.resource].owners
           others == {i \in DOMAIN own : own[i] # q.txn}
<1>1. /\ q.resource \in Resources /\ LockOK(locks[q.resource]) /\ own # <<>>
      /\ own # <<q.txn>>
  BY DEF LocksInv, Request, Held, CompatibleWithExisting
<1>2. /\ own \in Seq(Txns) /\ Len(own) \in Nat /\ DOMAIN own = 1 .. Len(own)
      /\ \A i, j \in DOMAIN own : own[i] = own[j] => i = j
  BY <1>1 DEF LockOK, LockRecord
<1> HIDE DEF own
<1>3. others # {}
  <2> SUFFICES ASSUME others = {} PROVE FALSE
    OBVIOUS
  <2>1. \A i \in DOMAIN own : own[i] = q.txn
    OBVIOUS
  <2>2. Len(own) # 0
    BY <1>1, <1>2
  <2>3. 1 \in DOMAIN own
    BY <1>2, <2>2
  <2>4. DOMAIN own = {1}
    BY <1>2, <2>1, <2>3
  <2>5. Len(own) = 1
    BY <1>2, <2>2, <2>4
  <2>6. own = <<own[1]>>
    BY <1>2, <2>5
  <2> QED
    BY <1>1, <2>1, <2>3, <2>6
<1>4. others \subseteq Nat
  BY <1>2
<1>5. PICK i \in others : \A j \in others : i <= j
  <2> HIDE DEF others
  <2> QED
    BY <1>3, <1>4, LeastNatural
<1> DEFINE first == CHOOSE k \in others : \A j \in others : k <= j
<1>6. first \in others
  <2> HIDE DEF others
  <2> QED
    BY <1>5
<1>7. FirstBlockingOwner(q) = own[first]
  BY DEF FirstBlockingOwner, own
<1> HIDE DEF first
<1>8. own[first] \in Owners(q.resource)
  BY <1>6 DEF Owners, own
<1> QED
  BY <1>6, <1>7, <1>8

\* The lock table is finite at all times.
SearchInv == LocksInv /\ IsFiniteSet(Held)

\* What a step may add to the held locks.
LEMMA AcquireHolds ==
  ASSUME LocksInv, NEW w, NEW q \in Request, NEW seq, AcquireInternal(w, q, seq)
  PROVE  Held' \subseteq Held \cup {q.resource}
<1>1. locks \in [Resources -> LockRecord]
  BY DEF LocksInv
<1>2. locks' = locks \/ locks' = [locks EXCEPT ![q.resource] = GrantedLock(q)]
  BY DEF AcquireInternal
<1> QED
  BY <1>1, <1>2 DEF Held

LEMMA DropsHold ==
  ASSUME LocksInv, NEW t \in Txns, DropsOwner(t)
  PROVE  Held' \subseteq Held
<1> SUFFICES ASSUME NEW r \in Held' PROVE r \in Held
  OBVIOUS
<1>1. r \in Resources /\ locks'[r].owners # <<>> /\ locks'[r] \in LockRecord
  BY DEF Held, DropsOwner
<1>2. CASE locks'[r] = locks[r]
  BY <1>1, <1>2 DEF Held
<1>3. CASE Drops(locks[r], locks'[r], t)
  <2>1. 1 \in DOMAIN locks'[r].owners
    <3>1. locks'[r].owners \in Seq(Txns)
      BY <1>1 DEF LockRecord
    <3> QED
      BY <1>1, <3>1
  <2>2. OwnersOf(locks'[r]) # {}
    BY <2>1 DEF OwnersOf
  <2>3. OwnersOf(locks[r]) # {}
    BY <1>3, <2>2 DEF Drops
  <2>4. locks[r].owners # <<>>
    BY <2>3 DEF OwnersOf
  <2> QED
    BY <1>1, <2>4 DEF Held
<1> QED
  BY <1>1, <1>2, <1>3 DEF DropsOwner

LEMMA SearchInvSteps ==
  ASSUME SearchInv, [Next]_lockVars
  PROVE  SearchInv'
<1>1. LocksInv /\ LocksInv' /\ IsFiniteSet(Held)
  BY NextKeepsLocksInv DEF SearchInv
<1>2. ASSUME NEW r, Held' \subseteq Held \cup {r} PROVE IsFiniteSet(Held')
  <2>1. IsFiniteSet(Held \cup {r})
    BY <1>1, FS_AddElement
  <2> QED
    BY <1>2, <2>1, FS_Subset
<1>3. ASSUME NEW t \in Txns, NEW r \in Resources, NEW mode \in Modes,
             NEW timeout \in Timeouts, NEW start \in 1 .. clock,
             Acquire(t, r, mode, timeout, start)
      PROVE  IsFiniteSet(Held')
  <2>1. PICK w, q : q \in Request /\ AcquireInternal(w, q, 0)
    BY <1>1, <1>3, AcquireIsInternal
  <2> QED
    BY <1>1, <1>2, <2>1, AcquireHolds
<1>4. ASSUME NEW t \in Txns, Retry(t) PROVE IsFiniteSet(Held')
  <2>1. PICK w, q, seq : q \in Request /\ AcquireInternal(w, q, seq)
    BY <1>1, <1>4, RetryIsInternal
  <2> QED
    BY <1>1, <1>2, <2>1, AcquireHolds
<1>5. ASSUME NEW t \in Txns, ReleaseAll(t) \/ \E r \in Resources : Release(t, r)
      PROVE  IsFiniteSet(Held')
  <2>1. Held' \subseteq Held
    BY <1>1, <1>5, ReleaseDrops, DropsHold
  <2> QED
    BY <1>1, <2>1, FS_Subset
<1>6. ASSUME (\E policy \in Policies : SetAdmissionPolicy(policy)) \/ Tick \/ UNCHANGED lockVars
      PROVE  IsFiniteSet(Held')
  <2>1. locks' = locks
    BY <1>6 DEF SetAdmissionPolicy, Tick, lockVars
  <2>2. Held' \subseteq Held
    BY <2>1 DEF Held
  <2> QED
    BY <1>1, <2>2, FS_Subset
<1>7. IsFiniteSet(Held')
  <2>1. \/ \E t \in Txns, r \in Resources, mode \in Modes, timeout \in Timeouts,
              start \in 1 .. clock : Acquire(t, r, mode, timeout, start)
        \/ \E t \in Txns : Retry(t)
        \/ \E t \in Txns : ReleaseAll(t) \/ \E r \in Resources : Release(t, r)
        \/ \E policy \in Policies : SetAdmissionPolicy(policy)
        \/ Tick \/ UNCHANGED lockVars
    BY DEF Next
  <2> QED
    BY <1>3, <1>4, <1>5, <1>6, <2>1
<1> QED
  BY <1>1, <1>7 DEF SearchInv

LEMMA SearchInvInitial == Init => SearchInv
<1> SUFFICES ASSUME Init PROVE SearchInv
  OBVIOUS
<1>1. Held = {}
  BY DEF Init, Held, NoLock
<1> QED
  BY <1>1, InitialLocks, FS_EmptySet DEF SearchInv

\* The search of a member t of an innermost deadlock finds t.
LEMMA MemberIsFound ==
  ASSUME SearchInv, NEW ts, InnermostDeadlock(ts), NEW t \in ts,
         NEW from \in Owners(waiting[t].request.resource) \ {t}
  PROVE  HasDeadlockPath([waiting EXCEPT ![t] = NoWait], from, t)
<1> DEFINE w == [waiting EXCEPT ![t] = NoWait]
           depth == Cardinality(Held) + 1
<1>1. /\ ts \subseteq Waiters(waiting)
      /\ \A u \in ts : /\ Owners(waiting[u].request.resource) # {}
                       /\ Owners(waiting[u].request.resource) \subseteq ts
      /\ \A us \in (SUBSET ts) \ {ts} : ~Deadlocked(us)
  BY DEF InnermostDeadlock, Deadlocked
<1>2. /\ waiting \in [Txns -> WaitingRecord \cup {NoWait}]
      /\ ts \subseteq Txns
  BY <1>1 DEF SearchInv, LocksInv, WaitsOK, Waiters
<1>3. /\ w[t] = NoWait /\ \A u \in Txns : u # t => w[u] = waiting[u]
      /\ Waiters(w) = Waiters(waiting) \ {t}
  BY <1>2 DEF Waiters
<1> HIDE DEF w
<1>4. from \in ts /\ from # t /\ from \in Waiters(w)
  BY <1>1, <1>3
<1>5. ASSUME NEW u \in ts \cap Waiters(w)
      PROVE  /\ w[u] = waiting[u]
             /\ w[u].request.resource \in Held
             /\ Owners(w[u].request.resource) \subseteq ts
  <2>1. u # t /\ w[u] = waiting[u] /\ waiting[u] # NoWait
    BY <1>2, <1>3 DEF Waiters
  <2>2. waiting[u].request.resource \in Resources
    BY <1>2, <2>1, WaitRecords
  <2>3. locks[waiting[u].request.resource].owners # <<>>
    BY <1>1 DEF Owners
  <2> QED
    BY <1>1, <2>1, <2>2, <2>3 DEF Held
<1>6. IsFiniteSet(Held) /\ Cardinality(Held) \in Nat
  BY FS_CardinalityType DEF SearchInv
<1>7. PICK f : /\ Hops(f, w, from, depth)
               /\ HasDeadlockPath(w, from, t) <=> t \in f[depth]
  BY <1>6, SearchUnfolds
<1> DEFINE X == f[depth]
<1>8. from \in X /\ X \subseteq ts /\ AwaitedOwners(w, X) \subseteq X
  BY <1>4, <1>5, <1>6, <1>7, SearchCloses
<1> HIDE DEF X, depth
<1>9. t \in X
  <2> SUFFICES ASSUME t \notin X PROVE FALSE
    OBVIOUS
  <2>1. X \in (SUBSET ts) \ {ts} /\ X \subseteq Waiters(waiting)
    BY <1>1, <1>8
  <2>2. ASSUME NEW u \in X
        PROVE  /\ Owners(waiting[u].request.resource) # {}
               /\ Owners(waiting[u].request.resource) \subseteq X
    <3>1. u \in ts \cap Waiters(w) /\ u \in X \cap Waiters(w)
      BY <1>3, <1>8, <2>1, <2>2
    <3>2. Owners(w[u].request.resource) \subseteq AwaitedOwners(w, X)
      BY <3>1 DEF AwaitedOwners
    <3> QED
      BY <1>1, <1>5, <1>8, <3>1, <3>2
  <2>3. Deadlocked(X)
    BY <1>8, <2>1, <2>2 DEF Deadlocked
  <2> QED
    BY <1>1, <2>1, <2>3
<1> QED
  BY <1>7, <1>9 DEF w, X

\* When is the answer to a request "wait": it is behind another one, or the
\* search has found nothing.
LEMMA WaitAnswer ==
  ASSUME NEW w, NEW q, NEW seq, Decision(w, q, seq) = "wait_required"
  PROVE  /\ q.resource \in Held
         /\ \/ q.txn \notin Owners(q.resource) /\ PriorWaiters(w, q, seq) # {}
            \/ /\ ~CompatibleWithExisting(q)
               /\ ~HasDeadlockPath(w, FirstBlockingOwner(q), q.txn)
<1> DEFINE owned == q.txn \in Owners(q.resource)
           keeps == locks[q.resource].mode \in {"exclusive", q.mode}
           compat == CompatibleWithExisting(q)
           prior == PriorWaiters(w, q, seq)
           held == q.resource \in Held
           full == admission.maxHeldLocks # 0 /\ Cardinality(Held) >= admission.maxHeldLocks
           path == HasDeadlockPath(w, FirstBlockingOwner(q), q.txn)
           wd == WaitDecision(w, q)
<1>1. Decision(w, q, seq) =
        IF full /\ ~held THEN "admission_refused"
        ELSE IF ~held THEN "granted"
        ELSE IF owned /\ (keeps \/ compat) THEN "already_owned"
        ELSE IF ~owned /\ prior # {} THEN wd
        ELSE IF compat THEN "granted"
        ELSE IF path THEN "deadlock_detected"
        ELSE wd
  BY DEF Decision
<1> HIDE DEF owned, keeps, compat, prior, held, full, path, wd
<1>2. held /\ ((~owned /\ prior # {}) \/ (~compat /\ ~path))
  BY <1>1
<1> QED
  BY <1>2 DEF owned, compat, prior, held, path

\* Although HasDeadlockPath starts at one owner of a shared lock only and
\* gives up at a depth, whoever heads its queue in an innermost deadlock of
\* any size is not told to wait again by Retry.
THEOREM DeadlocksAreFound == Spec => []HeadedDeadlocksAreFound
<1>1. SearchInv => HeadedDeadlocksAreFound
  <2> SUFFICES ASSUME SearchInv, NEW ts, InnermostDeadlock(ts), NEW t \in ts,
                      HeadsItsQueue(t), RetryDecision(t) = "wait_required"
               PROVE  FALSE
    BY DEF HeadedDeadlocksAreFound
  <2> DEFINE w == [waiting EXCEPT ![t] = NoWait]
             q == waiting[t].request
             seq == waiting[t].sequence
  <2>1. /\ waiting \in [Txns -> WaitingRecord \cup {NoWait}]
        /\ t \in Txns /\ waiting[t] # NoWait
    BY DEF SearchInv, LocksInv, WaitsOK, Waiters, InnermostDeadlock, Deadlocked
  <2>2. q \in Request /\ q.txn = t
    BY <2>1, WaitRecords DEF SearchInv, LocksInv, WaitsOK
  <2>3. PriorWaiters(w, q, seq) = PriorWaiters(waiting, q, seq)
    BY <2>1, <2>2 DEF PriorWaiters, WaitsFor
  <2>4. t \in Owners(q.resource) \/ PriorWaiters(w, q, seq) = {}
    BY <2>3 DEF HeadsItsQueue
  <2>5. Decision(w, q, seq) = "wait_required"
    BY DEF RetryDecision
  <2> HIDE DEF w, q, seq
  <2>6. /\ q.resource \in Held /\ ~CompatibleWithExisting(q)
        /\ ~HasDeadlockPath(w, FirstBlockingOwner(q), t)
    BY <2>2, <2>4, <2>5, WaitAnswer
  <2>7. FirstBlockingOwner(q) \in Owners(q.resource) \ {t}
    BY <2>2, <2>6, BlockingOwner DEF SearchInv
  <2>8. HasDeadlockPath(w, FirstBlockingOwner(q), t)
    BY <2>7, MemberIsFound DEF w, q
  <2> QED
    BY <2>6, <2>8
<1> QED
  BY <1>1, SearchInvInitial, SearchInvSteps, PTL DEF Spec
=============================================================================
