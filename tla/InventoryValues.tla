--------------------------- MODULE InventoryValues ---------------------------
(***************************************************************************)
(* The transaction inventory as publication sees it: the sequence of the   *)
(* states of its entries, in number order.  The length is the number of    *)
(* consumed transaction numbers.  TransactionInventory has the full entry; *)
(* publication only compares inventories and admits their evolution.       *)
(***************************************************************************)
EXTENDS Naturals, Sequences

CONSTANTS
    MaxTransactions,   \* bound: transaction numbers
    MaxGeneration      \* numeric_limits<u64>::max() of the generations

ASSUME ValueLimits ==
    /\ MaxTransactions \in Nat
    /\ MaxGeneration \in Nat \ {0}

EntryStates == {"created", "active", "committed", "rolled_back"}

Inventories == UNION {[1 .. n -> EntryStates] : n \in 0 .. MaxTransactions}

\* A selected inventory and the generation that published it: together they
\* are the publication base callers compare (digest and generation).
Selections == [inventory : Inventories, generation : 1 .. MaxGeneration]

Selection(i, g) == [inventory |-> i, generation |-> g]

\* ValidateLocalTransactionInventoryEvolution on this abstraction: numbers
\* stay consumed and states only move forward.
StateMayBecome(old, new) ==
    \/ old = new
    \/ old = "created"
    \/ old = "active" /\ new \in {"committed", "rolled_back"}

EvolutionValid(old, new) ==
    /\ Len(old) <= Len(new)
    /\ \A n \in 1 .. Len(old) : StateMayBecome(old[n], new[n])
=============================================================================
