----------------------------- MODULE Savepoints -----------------------------
(***************************************************************************)
(* The savepoint stack of a session                                        *)
(* (src/project/src/transaction/mga/savepoint.cpp, class SavepointStack)   *)
(* with the physical undo it drives.  A session runs one transaction after *)
(* the other, and the stack is not emptied between them.                   *)
(*                                                                         *)
(*   txn         the active transaction                                    *)
(*   savepoints  the stack: owner, name and mutation sequence (mark)       *)
(*   mutations   the recorded mutations; the place is the sequence number  *)
(*   present     the mutations whose effect is on the pages                *)
(*   last        decision of the last rollback                             *)
(*                                                                         *)
(* Sequence numbers are the caller's.  Those of the mutations are taken to *)
(* count them in the order in which they are recorded; the mark of a       *)
(* savepoint is any number: the worker of the native parser always passes  *)
(* 0, the tests and the probe pass numbers of their own.                   *)
(***************************************************************************)
EXTENDS Naturals, Sequences, FiniteSets, FiniteSetsExt

CONSTANTS
    Names,          \* savepoint names
    Kinds,          \* kinds of mutations
    MaxTxns,        \* bound: transactions of the session
    MaxSavepoints,  \* bound: depth of the stack
    MaxMutations    \* bound: mutations

ASSUME SavepointConstants ==
    /\ MaxTxns \in Nat \ {0}
    /\ MaxSavepoints \in Nat
    /\ MaxMutations \in Nat

VARIABLES txn, savepoints, mutations, present, last

savepointVars == <<txn, savepoints, mutations, present, last>>

Sequence == 0 .. MaxMutations
SavepointRecord == [txn : 1 .. MaxTxns, name : Names, mark : Sequence]
MutationRecord ==
    [txn : 1 .. MaxTxns, kind : Kinds, undo : BOOLEAN, rolledBack : BOOLEAN]
Decisions == {"none", "rollback_actions_ready", "missing_undo",
              "executor_missing", "executor_unavailable", "executor_failed"}

\* Stack, mutations and pages have their types.
SavepointsTypeOK ==
    /\ txn \in 1 .. MaxTxns
    /\ savepoints \in Seq(SavepointRecord) /\ Len(savepoints) <= MaxSavepoints
    /\ mutations \in Seq(MutationRecord) /\ Len(mutations) <= MaxMutations
    /\ present \subseteq DOMAIN mutations
    /\ last \in Decisions

Init ==
    /\ txn = 1
    /\ savepoints = <<>>
    /\ mutations = <<>>
    /\ present = {}
    /\ last = "none"

-----------------------------------------------------------------------------
Mine(name) ==
    {i \in DOMAIN savepoints : savepoints[i].txn = txn /\ savepoints[i].name = name}

\* The savepoints of stack s that are not in drop, in their order.
Without(s, drop) ==
    LET kept[n \in 0 .. Len(s)] ==
          IF n = 0 THEN <<>>
          ELSE IF s[n] \in drop THEN kept[n - 1] ELSE Append(kept[n - 1], s[n])
    IN  kept[Len(s)]

\* A name in use is moved to the top of the stack, with the caller's mark.
Create(name, mark) ==
    LET others == Without(savepoints, {savepoints[i] : i \in Mine(name)})
    IN  /\ Len(others) < MaxSavepoints
        /\ savepoints' = Append(others, [txn |-> txn, name |-> name, mark |-> mark])
        /\ UNCHANGED <<txn, mutations, present, last>>

\* The savepoint and everything above it are dropped.
Release(name) ==
    /\ Mine(name) # {}
    /\ savepoints' = SubSeq(savepoints, 1, Min(Mine(name)) - 1)
    /\ UNCHANGED <<txn, mutations, present, last>>

\* Everything above the savepoint is dropped; no mutation is looked at.
RollbackTo(name) ==
    /\ Mine(name) # {}
    /\ savepoints' = SubSeq(savepoints, 1, Min(Mine(name)))
    /\ UNCHANGED <<txn, mutations, present, last>>

\* The mutation has been done before it is recorded.
RecordMutation(kind, undo) ==
    /\ Len(mutations) < MaxMutations
    /\ mutations' = Append(mutations, [txn |-> txn, kind |-> kind,
                                       undo |-> undo, rolledBack |-> FALSE])
    /\ present' = present \cup {Len(mutations) + 1}
    /\ UNCHANGED <<txn, savepoints, last>>

Mark(name) == savepoints[Max(Mine(name))].mark

\* Mutant: the mutation at the mark is taken for one after it.
RollbackActionsFromMark(name) ==
    {i \in DOMAIN mutations :
       mutations[i].txn = txn /\ i >= Mark(name) /\ ~mutations[i].rolledBack}

\* PlanRollbackTo: what is to be undone.
RollbackActions(name) ==
    {i \in DOMAIN mutations :
       mutations[i].txn = txn /\ i > Mark(name) /\ ~mutations[i].rolledBack}

CanPlanRollbackTo(name) ==
    /\ Mine(name) # {}
    /\ \A i \in RollbackActions(name) : mutations[i].undo

MineAfter(mark) ==
    {i \in DOMAIN savepoints : savepoints[i].txn = txn /\ savepoints[i].mark > mark}

\* Mutant: every savepoint of the transaction is dropped.
MarkRollbackAppliedToAll(mark) ==
    /\ mutations' =
         [i \in DOMAIN mutations |->
            IF mutations[i].txn = txn /\ i > mark
            THEN [mutations[i] EXCEPT !.rolledBack = TRUE] ELSE mutations[i]]
    /\ savepoints' = Without(savepoints, {savepoints[i] : i \in
                              {j \in DOMAIN savepoints : savepoints[j].txn = txn}})

MarkRollbackApplied(mark) ==
    /\ mutations' =
         [i \in DOMAIN mutations |->
            IF mutations[i].txn = txn /\ i > mark
            THEN [mutations[i] EXCEPT !.rolledBack = TRUE] ELSE mutations[i]]
    /\ savepoints' = Without(savepoints, {savepoints[i] : i \in MineAfter(mark)})

RefuseRollback(decision) ==
    /\ last' = decision
    /\ UNCHANGED <<txn, savepoints, mutations, present>>

\* Mutant: the stack is marked although nothing was undone.
ApplyRollbackToAlways(name) ==
    /\ CanPlanRollbackTo(name)
    /\ MarkRollbackApplied(Mark(name))
    /\ last' = "rollback_actions_ready"
    /\ UNCHANGED <<txn, present>>

\* Without an executor only a rollback that undoes nothing succeeds.
ApplyRollbackTo(name) ==
    \/ /\ Mine(name) # {} /\ ~CanPlanRollbackTo(name)
       /\ RefuseRollback("missing_undo")
    \/ /\ CanPlanRollbackTo(name) /\ RollbackActions(name) # {}
       /\ RefuseRollback("executor_missing")
    \/ /\ CanPlanRollbackTo(name) /\ RollbackActions(name) = {}
       /\ MarkRollbackApplied(Mark(name))
       /\ last' = "rollback_actions_ready"
       /\ UNCHANGED <<txn, present>>

\* The actions are applied newest first until one stops the rollback.
UndoneBeforeStop(actions, stop) == {i \in actions : i > stop}

\* The executor supports some kinds, which is asked for each action in turn,
\* and ApplyUndo of one action (0: none) may fail.  An undo that has been
\* applied before is answered as already applied.
ExecuteRollbackTo(name, supported, failing) ==
    LET actions == RollbackActions(name)
        unsupported == {i \in actions : mutations[i].kind \notin supported}
        stop == Max({0, failing} \cup unsupported)
        undone == UndoneBeforeStop(actions, stop)
    IN  /\ CanPlanRollbackTo(name)
        /\ failing \in actions \cup {0}
        /\ present' = present \ undone
        /\ UNCHANGED txn
        /\ \/ /\ stop = 0
              /\ MarkRollbackApplied(Mark(name))
              /\ last' = "rollback_actions_ready"
           \/ /\ stop # 0
              /\ last' = IF stop \in unsupported THEN "executor_unavailable"
                       ELSE "executor_failed"
              /\ UNCHANGED <<savepoints, mutations>>

\* Commit and rollback of the transaction leave the stack as it is.
EndTransaction ==
    /\ txn < MaxTxns
    /\ txn' = txn + 1
    /\ UNCHANGED <<savepoints, mutations, present, last>>

\* HandleResetSession: the session starts over with an empty stack.
ResetSession ==
    /\ txn < MaxTxns
    /\ txn' = txn + 1
    /\ savepoints' = <<>>
    /\ mutations' = <<>>
    /\ present' = {}
    /\ UNCHANGED last

Next ==
    \/ \E name \in Names, mark \in Sequence : Create(name, mark)
    \/ \E name \in Names : Release(name) \/ RollbackTo(name) \/ ApplyRollbackTo(name)
    \/ \E kind \in Kinds, undo \in BOOLEAN : RecordMutation(kind, undo)
    \/ \E name \in Names, supported \in SUBSET Kinds, failing \in Sequence :
         ExecuteRollbackTo(name, supported, failing)
    \/ EndTransaction
    \/ ResetSession

Spec == Init /\ [][Next]_savepointVars

-----------------------------------------------------------------------------
\* The stack calls a mutation rolled back only when its effect is gone from
\* the pages, however many attempts failed half way before (MarkRollbackApplied,
\* ApplyRollbackTo, ExecuteRollbackTo).
RolledBackIsUndone ==
    \A i \in DOMAIN mutations : mutations[i].rolledBack => i \notin present

\* A rollback that reports success leaves the pages as they were at the
\* savepoint: nothing after it, everything before it that it found there.
SuccessIsComplete ==
    [][\A name \in Names :
         (/\ Mine(name) # {}
          /\ \E supported \in SUBSET Kinds : ExecuteRollbackTo(name, supported, 0)
          /\ last' = "rollback_actions_ready")
         => {i \in present' : mutations[i].txn = txn} =
              {i \in present : mutations[i].txn = txn /\ ~(i > Mark(name))}]_savepointVars

\* What was undone and is not marked can still be marked: a rollback that
\* covers it can be planned.
Completable ==
    \A i \in DOMAIN mutations :
      mutations[i].txn = txn /\ i \notin present /\ ~mutations[i].rolledBack
        => \E name \in Names : CanPlanRollbackTo(name) /\ i \in RollbackActions(name)

\* The session gives up a savepoint it has: by releasing it, by taking its
\* name again, or by going back to one below it.
GivesUpSavepoint ==
    \E name \in Names :
      /\ Mine(name) # {}
      /\ (\E mark \in Sequence : Create(name, mark)) \/ Release(name) \/ RollbackTo(name)

\* A rollback that failed half way can be completed by a later one until the
\* session gives up a savepoint or records a mutation without undo evidence,
\* after which no rollback across it can be planned: no attempt, failed or
\* successful, to this or another savepoint, wherever its mark is, and no
\* mutation that can be undone takes the way back away (MarkRollbackApplied,
\* ExecuteRollbackTo, PlanRollbackTo).
OnlyDiscardStrandsUndo ==
    [][Completable /\ ~Completable' =>
         GivesUpSavepoint \/ \E kind \in Kinds : RecordMutation(kind, FALSE)]_savepointVars
=============================================================================
