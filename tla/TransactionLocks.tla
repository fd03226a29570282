-------------------------- MODULE TransactionLocks --------------------------
(***************************************************************************)
(* The lock table of local transactions                                    *)
(* (src/project/src/transaction/mga/transaction_lock.cpp, class            *)
(* LocalTransactionLockTable; the engine keeps one for named locks).       *)
(* Every method runs under the table's mutex, so each is one action.  The  *)
(* table never blocks a caller: it answers a decision, keeps a wait record *)
(* for the answer "wait_required", and leaves it to the caller to Retry.   *)
(*                                                                         *)
(*   locks         owners, in the order they came, and mode of a resource  *)
(*   waiting       the one wait record a transaction may have              *)
(*   nextSequence  the next place in the order of waits                    *)
(*   admission     the admission policy; a limit of 0 is no limit          *)
(*   clock         the callers' clock                                      *)
(*                                                                         *)
(* The fields of a wait record that nothing reads (blocking transaction,   *)
(* retry count) and requests refused for their shape are left out.         *)
(***************************************************************************)
EXTENDS Naturals, Sequences, FiniteSets

CONSTANTS
    Txns,          \* transaction numbers
    Resources,     \* resource keys
    Modes,         \* lock modes requests may ask for
    Timeouts,      \* timeouts of requests; 0 stands for no_wait too
    Policies,      \* admission policies
    MaxSequence,   \* bound: wait sequence numbers handed out
    MaxClock       \* bound: clock

ASSUME LockConstants ==
    /\ Modes \subseteq {"shared", "exclusive"}
    /\ Timeouts \subseteq Nat
    /\ Policies \subseteq
         [accepting : BOOLEAN, maxHeldLocks : Nat, maxWaiters : Nat]
    /\ [accepting |-> TRUE, maxHeldLocks |-> 0, maxWaiters |-> 0] \in Policies
    /\ MaxSequence \in Nat
    /\ MaxClock \in Nat \ {0}

VARIABLES locks, waiting, nextSequence, admission, clock

lockVars == <<locks, waiting, nextSequence, admission, clock>>

NoLock == [owners |-> <<>>, mode |-> "unknown"]
LockRecord == [owners : Seq(Txns), mode : {"shared", "exclusive", "unknown"}]
Request == [txn : Txns, resource : Resources, mode : Modes,
            timeout : Timeouts, start : 1 .. MaxClock, now : 1 .. MaxClock]
NoWait == [sequence |-> 0]
WaitingRecord == [request : Request, sequence : 1 .. MaxSequence]

\* Table, wait records and counters have their types.
LocksTypeOK ==
    /\ locks \in [Resources -> LockRecord]
    /\ waiting \in [Txns -> WaitingRecord \cup {NoWait}]
    /\ nextSequence \in 1 .. MaxSequence + 1
    /\ admission \in Policies
    /\ clock \in 1 .. MaxClock

Init ==
    /\ locks = [r \in Resources |-> NoLock]
    /\ waiting = [t \in Txns |-> NoWait]
    /\ nextSequence = 1
    /\ admission = [accepting |-> TRUE, maxHeldLocks |-> 0, maxWaiters |-> 0]
    /\ clock = 1

-----------------------------------------------------------------------------
Owners(r) == {locks[r].owners[i] : i \in DOMAIN locks[r].owners}
Held == {r \in Resources : locks[r].owners # <<>>}
Waiters(w) == {t \in Txns : w[t] # NoWait}
WaitsFor(w, t, r) == w[t] # NoWait /\ w[t].request.resource = r

\* Mutant: a shared request is compatible with every lock.
CompatibleWithExistingShared(q) ==
    q.mode = "shared" \/ locks[q.resource].owners = <<q.txn>>

CompatibleWithExisting(q) ==
    LET lock == locks[q.resource]
    IN  \/ lock.mode = "shared" /\ q.mode = "shared"
        \/ lock.owners = <<q.txn>>

\* The first owner other than the requester.
FirstBlockingOwner(q) ==
    LET others == {i \in DOMAIN locks[q.resource].owners :
                     locks[q.resource].owners[i] # q.txn}
    IN  locks[q.resource].owners[CHOOSE i \in others :
                                   \A j \in others : i <= j]

\* Mutant: only the first owner of a lock is followed.
AwaitedFirstOwners(w, ts) ==
    {locks[w[t].request.resource].owners[1] :
       t \in {u \in ts \cap Waiters(w) : w[u].request.resource \in Held}}

\* What each of a set of transactions waits for, taken to be all owners of
\* the resource it has a wait record for.
AwaitedOwners(w, ts) ==
    UNION {Owners(w[t].request.resource) : t \in ts \cap Waiters(w)}

\* The search gives up beyond as many hops as locks are held, plus one.
HasDeadlockPath(w, from, target) ==
    LET depth == Cardinality(Held) + 1
        reached[n \in 0 .. depth] ==
          IF n = 0 THEN {from}
          ELSE reached[n - 1] \cup AwaitedOwners(w, reached[n - 1])
    IN  target \in reached[depth]

\* Mutant: a new request is compared by its number although it has none.
PriorWaitersBySequence(w, q, seq) ==
    {t \in Txns \ {q.txn} : WaitsFor(w, t, q.resource) /\ w[t].sequence < seq}

\* The waits of others that a request must not overtake; a request without
\* a sequence of its own (0) comes after them all.
PriorWaiters(w, q, seq) ==
    {t \in Txns \ {q.txn} : /\ WaitsFor(w, t, q.resource)
                            /\ seq = 0 \/ w[t].sequence < seq}

DeadlineExpired(q) ==
    \/ q.timeout = 0
    \/ q.now > q.start /\ q.now - q.start >= q.timeout

WaitDecision(w, q) ==
    IF DeadlineExpired(q) THEN "timeout"
    ELSE IF \/ ~admission.accepting
            \/ /\ admission.maxWaiters # 0
               /\ Cardinality(Waiters(w)) >= admission.maxWaiters
         THEN "admission_refused"
         ELSE "wait_required"

\* The decision of AcquireInternal for request q with the wait records w:
\* an absent lock is granted whoever waits for it, an owner is not held
\* back by waiters, a request behind other waiters is not searched for
\* deadlocks, and the search starts at the first blocking owner only.
Decision(w, q, seq) ==
    LET lock == locks[q.resource]
        owned == q.txn \in Owners(q.resource)
    IN  IF /\ admission.maxHeldLocks # 0
           /\ Cardinality(Held) >= admission.maxHeldLocks
           /\ q.resource \notin Held
        THEN "admission_refused"
        ELSE IF q.resource \notin Held THEN "granted"
        ELSE IF owned /\ \/ lock.mode \in {"exclusive", q.mode}
                         \/ CompatibleWithExisting(q)
        THEN "already_owned"
        ELSE IF ~owned /\ PriorWaiters(w, q, seq) # {} THEN WaitDecision(w, q)
        ELSE IF CompatibleWithExisting(q) THEN "granted"
        ELSE IF HasDeadlockPath(w, FirstBlockingOwner(q), q.txn)
        THEN "deadlock_detected"
        ELSE WaitDecision(w, q)

WaitSequence(w, seq) == IF seq = 0 THEN nextSequence ELSE seq

\* Mutant: a grant forgets to drop the wait record.
GrantedWaitsKept(w, q) == w

GrantedWaits(w, q) == [w EXCEPT ![q.txn] = NoWait]

GrantedLock(q) ==
    [ owners |-> IF q.txn \in Owners(q.resource) THEN locks[q.resource].owners
                 ELSE Append(locks[q.resource].owners, q.txn),
      mode |-> IF q.resource \notin Held \/ q.mode = "exclusive" THEN q.mode
               ELSE locks[q.resource].mode ]

\* A refused request leaves the wait records w as they are: an Acquire keeps
\* the record of an earlier request, a Retry has already dropped its own.
AcquireInternal(w, q, seq) ==
    LET decision == Decision(w, q, seq)
    IN  /\ UNCHANGED <<admission, clock>>
        /\ \/ /\ decision \in {"granted", "already_owned"}
              /\ locks' = [locks EXCEPT ![q.resource] = GrantedLock(q)]
              /\ waiting' = GrantedWaits(w, q)
              /\ UNCHANGED nextSequence
           \/ /\ decision = "wait_required"
              /\ seq # 0 \/ nextSequence <= MaxSequence
              /\ waiting' = [w EXCEPT ![q.txn] =
                               [request |-> q,
                                sequence |-> WaitSequence(w, seq)]]
              /\ nextSequence' = IF seq = 0 THEN nextSequence + 1
                                 ELSE nextSequence
              /\ UNCHANGED locks
           \/ /\ decision \in {"timeout", "deadlock_detected",
                               "admission_refused"}
              /\ waiting' = w
              /\ UNCHANGED <<locks, nextSequence>>

Acquire(t, r, mode, timeout, start) ==
    AcquireInternal(waiting,
                    [txn |-> t, resource |-> r, mode |-> mode,
                     timeout |-> timeout, start |-> start, now |-> clock],
                    0)

\* The stored request is asked again, the time it carries included.
Retry(t) ==
    /\ waiting[t] # NoWait
    /\ AcquireInternal([waiting EXCEPT ![t] = NoWait],
                       waiting[t].request, waiting[t].sequence)

\* The elements of s other than t, in their order.
RemoveOwner(s, t) ==
    LET kept[n \in 0 .. Len(s)] ==
          IF n = 0 THEN <<>>
          ELSE IF s[n] = t THEN kept[n - 1] ELSE Append(kept[n - 1], s[n])
    IN  kept[Len(s)]

\* A lock that nobody owns any more leaves the table.
WithoutOwner(lock, t) ==
    LET owners == RemoveOwner(lock.owners, t)
    IN  IF owners = <<>> THEN NoLock ELSE [lock EXCEPT !.owners = owners]

\* Releasing a lock also drops the wait record of its owner.
Release(t, r) ==
    /\ t \in Owners(r)
    /\ locks' = [locks EXCEPT ![r] = WithoutOwner(@, t)]
    /\ waiting' = [waiting EXCEPT ![t] = NoWait]
    /\ UNCHANGED <<nextSequence, admission, clock>>

\* Called when the transaction commits or rolls back.
ReleaseAll(t) ==
    /\ locks' = [r \in Resources |-> WithoutOwner(locks[r], t)]
    /\ waiting' = [waiting EXCEPT ![t] = NoWait]
    /\ UNCHANGED <<nextSequence, admission, clock>>

SetAdmissionPolicy(policy) ==
    /\ admission' = policy
    /\ UNCHANGED <<locks, waiting, nextSequence, clock>>

Tick ==
    /\ clock < MaxClock
    /\ clock' = clock + 1
    /\ UNCHANGED <<locks, waiting, nextSequence, admission>>

Next ==
    \/ \E t \in Txns, r \in Resources, mode \in Modes, timeout \in Timeouts,
          start \in 1 .. clock : Acquire(t, r, mode, timeout, start)
    \/ \E t \in Txns : Retry(t)
    \/ \E t \in Txns, r \in Resources : Release(t, r)
    \/ \E t \in Txns : ReleaseAll(t)
    \/ \E policy \in Policies : SetAdmissionPolicy(policy)
    \/ Tick

Spec == Init /\ [][Next]_lockVars

-----------------------------------------------------------------------------
\* An exclusive lock has one owner and no owner is listed twice: shared
\* grants, upgrades of a sole owner and releases never leave an exclusive
\* lock with two owners (AcquireInternal, Release, ReleaseAll).
ExclusiveIsExclusive ==
    \A r \in Resources :
      /\ \A i, j \in DOMAIN locks[r].owners :
           locks[r].owners[i] = locks[r].owners[j] => i = j
      /\ locks[r].mode = "exclusive" => Len(locks[r].owners) = 1
      /\ locks[r].mode = "unknown" <=> locks[r].owners = <<>>

\* A wait record never outlives the grant of what it asks for: whoever has
\* one does not own the resource in the mode it asks for.  The deadlock
\* search reads every record as a transaction that is still waiting.
WaitersLackTheirLock ==
    \A t \in Waiters(waiting) :
      LET q == waiting[t].request
      IN  t \in Owners(q.resource) =>
            locks[q.resource].mode = "shared" /\ q.mode = "exclusive"

\* Nobody joins the owners of a held lock past a transaction that has waited
\* for it longer; only a lock that nobody holds is up for grabs.
NoOvertaking ==
    [][\A r \in Resources, t \in Txns :
         /\ Owners(r) # {} /\ t \notin Owners(r) /\ t \in Owners(r)'
         => \A u \in Txns \ {t} :
              WaitsFor(waiting, u, r) =>
                /\ WaitsFor(waiting, t, r)
                /\ waiting[t].sequence < waiting[u].sequence]_lockVars

RetryDecision(t) ==
    Decision([waiting EXCEPT ![t] = NoWait],
             waiting[t].request, waiting[t].sequence)

\* Transactions that wait for each other and for nobody else.
Deadlocked(ts) ==
    /\ ts # {} /\ ts \subseteq Waiters(waiting)
    /\ \A t \in ts : /\ Owners(waiting[t].request.resource) # {}
                     /\ Owners(waiting[t].request.resource) \subseteq ts

InnermostDeadlock(ts) ==
    /\ Deadlocked(ts)
    /\ \A us \in (SUBSET ts) \ {ts} : ~Deadlocked(us)

HeadsItsQueue(t) ==
    LET q == waiting[t].request
    IN  \/ t \in Owners(q.resource)
        \/ PriorWaiters(waiting, q, waiting[t].sequence) = {}

\* Although the search starts at one owner of a shared lock only, whoever
\* closed the cycle, each member of a deadlock that nobody precedes in its
\* queue gets an answer other than "wait" when it retries.
HeadedDeadlocksAreFound ==
    \A ts \in SUBSET Waiters(waiting) :
      InnermostDeadlock(ts) =>
        \A t \in ts : HeadsItsQueue(t) => RetryDecision(t) # "wait_required"
=============================================================================
