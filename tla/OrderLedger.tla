----------------------------- MODULE OrderLedger -----------------------------
(***************************************************************************)
(* What allocateOrder of examples/context_order_inventory promises: an     *)
(* order gets all of what it asks for, in one step and out of what is left *)
(* over by those that have been served, or it gets nothing; and that is    *)
(* final.                                                                  *)
(***************************************************************************)
EXTENDS Integers

CONSTANTS
  Orders,  \* the orders
  SKUs,    \* the articles
  Stock    \* what there is of each at first

VARIABLES
  need,   \* what each order asks for
  fate,   \* what has become of each
  left    \* what the orders that have been served have left

ledger == <<need, fate, left>>

LedgerInit ==
  /\ need = [o \in Orders |-> [s \in SKUs |-> 0]]
  /\ fate = [o \in Orders |-> "none"]
  /\ left = Stock

Becomes(o, f) == fate' = [fate EXCEPT ![o] = f]

Placed(o) ==
  /\ fate[o] = "none" /\ Becomes(o, "open")
  /\ need' \in [Orders -> [SKUs -> Int]]
  /\ \A p \in Orders \ {o} : need'[p] = need[p]
  /\ UNCHANGED left

Served(o) ==
  /\ fate[o] = "open" /\ Becomes(o, "served")
  /\ \A s \in SKUs : need[o][s] <= left[s]
  /\ left' = [s \in SKUs |-> left[s] - need[o][s]]
  /\ UNCHANGED need

TurnedAway(o) ==
  /\ fate[o] = "open" /\ Becomes(o, "turned away")
  /\ UNCHANGED <<need, left>>

LedgerNext == \E o \in Orders : Placed(o) \/ Served(o) \/ TurnedAway(o)

LedgerSpec == LedgerInit /\ [][LedgerNext]_ledger
=============================================================================
