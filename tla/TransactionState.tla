-------------------------- MODULE TransactionState --------------------------
(***************************************************************************)
(* The lifecycle table of a local transaction and the check every state    *)
(* change goes through (src/project/src/transaction/mga/                   *)
(* transaction_state.cpp).  A transaction that has no inventory entry is   *)
(* in state "none", the enumeration's zero value.                          *)
(***************************************************************************)

TransactionStates ==
    { "none", "created", "active", "read_only_active", "preparing",
      "prepared", "committing", "committed", "rolling_back", "rolled_back",
      "limbo", "recovering", "failed_terminal", "archived" }

IsTerminalTransactionState(s) ==
    s \in {"committed", "rolled_back", "failed_terminal", "archived"}

\* The edges that only startup recovery and operator resolution may take.
RecoveryOnlyTransitions ==
    { <<"limbo", "recovering">>,
      <<"recovering", "committed">>,
      <<"recovering", "rolled_back">>,
      <<"recovering", "failed_terminal">> }

BuiltinTransactionStateTransitions ==
    { <<"none", "created">>,
      <<"created", "active">>,
      <<"created", "read_only_active">>,
      <<"created", "rolling_back">>,
      <<"read_only_active", "committing">>,
      <<"read_only_active", "rolling_back">>,
      <<"active", "preparing">>,
      <<"preparing", "prepared">>,
      <<"prepared", "committing">>,
      <<"committing", "committed">>,
      <<"active", "rolling_back">>,
      <<"preparing", "rolling_back">>,
      <<"prepared", "rolling_back">>,
      <<"rolling_back", "rolled_back">>,
      <<"prepared", "limbo">>,
      <<"committing", "limbo">>,
      <<"committed", "archived">>,
      <<"rolled_back", "archived">>,
      <<"failed_terminal", "archived">> }
      \cup RecoveryOnlyTransitions

CheckTransactionStateTransition(from, to, recoveryContext) ==
    /\ <<from, to>> \in BuiltinTransactionStateTransitions
    /\ <<from, to>> \in RecoveryOnlyTransitions => recoveryContext

-----------------------------------------------------------------------------
(***************************************************************************)
(* The reflexive-transitive closure that publication validation builds     *)
(* from the table.  The longest path has fewer than sixteen edges, so four *)
(* squarings of the reflexive relation reach the closure.                  *)
(***************************************************************************)

Compose(R, S) ==
    {<<pq[1][1], pq[2][2]>> : pq \in {x \in R \X S : x[1][2] = x[2][1]}}

ReflexiveTransitions ==
    BuiltinTransactionStateTransitions \cup {<<s, s>> : s \in TransactionStates}

ReachableTransitions ==
    LET two   == Compose(ReflexiveTransitions, ReflexiveTransitions)
        four  == Compose(two, two)
        eight == Compose(four, four)
    IN  Compose(eight, eight)

Reachable(from, to) == <<from, to>> \in ReachableTransitions
=============================================================================
