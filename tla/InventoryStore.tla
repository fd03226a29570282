--------------------------- MODULE InventoryStore ---------------------------
(***************************************************************************)
(* What durable publication promises its callers, without files or pages:  *)
(* a register that holds one inventory.  A change of the register becomes  *)
(* visible at once and durable later; a crash falls back to one of the     *)
(* values that may be on disk, and a caller is told that its publication   *)
(* succeeded only when the visible value is the only one left.             *)
(*                                                                         *)
(*   current   the selected inventory, with its generation                 *)
(*   possible  the inventories a crash may leave selected                  *)
(*   acked     the <<number, state>> pairs reported to callers as done     *)
(***************************************************************************)
EXTENDS InventoryValues

VARIABLES current, possible, acked

storeVars == <<current, possible, acked>>

StoreInit ==
    /\ current = [inventory |-> <<>>, generation |-> 1]
    /\ possible = {current}
    /\ acked = {}

\* A publication becomes visible.
Switch ==
    /\ \E next \in Selections :
          /\ next.generation > current.generation
          /\ EvolutionValid(current.inventory, next.inventory)
          /\ current' = next
          /\ possible' = possible \cup {next}
    /\ UNCHANGED acked

\* What is visible becomes durable, and the publisher may be told so.
Harden ==
    /\ possible' = {current}
    /\ \/ acked' = acked
       \/ \E n \in 1 .. Len(current.inventory) :
             acked' = acked \cup {<<n, current.inventory[n]>>}
    /\ UNCHANGED current

Fall ==
    /\ current' \in possible
    /\ possible' = {current'}
    /\ UNCHANGED acked

StoreNext == Switch \/ Harden \/ Fall

StoreSpec == StoreInit /\ [][StoreNext]_storeVars

-----------------------------------------------------------------------------
\* Nothing a caller was told is undone: whatever a crash leaves selected,
\* every acknowledged number is consumed and its entry has the reported
\* state or one that follows it.
AckedSurvivesCrash ==
    \A a \in acked : \A s \in possible :
        /\ a[1] <= Len(s.inventory)
        /\ StateMayBecome(a[2], s.inventory[a[1]])
=============================================================================
