--------------------------- MODULE OrderAllocation ---------------------------
(***************************************************************************)
(* Orders of examples/context_order_inventory, each parsed by orderSchema  *)
(* and then allocated by allocateOrder, against one inventory.             *)
(*                                                                         *)
(* memInventory's mutex makes each of Available, Reserve and Release one   *)
(* step.  What an order learns of the stock in one of them may be past in  *)
(* the next: its rules ask for each article, allocateOrder asks again, and *)
(* reserves one article after the other, in the order of a Go map.         *)
(***************************************************************************)
EXTENDS Integers, Sequences, FiniteSetsExt, Functions

CONSTANTS
  Orders,   \* the calls, one order each
  SKUs,     \* the articles; a sorted slice of them is in this order
  Catalog,  \* the articles the catalog has
  Stock,    \* the inventory at first; an article it lacks has none
  Carts,    \* the items that each may have
  Outages   \* the operations of the Inventory service that may fail

Item == [sku : SKUs, qty : Int]

ASSUME OrdersAssumption ==
  /\ IsFiniteSet(Orders) /\ SKUs \subseteq Int /\ Catalog \subseteq SKUs
  /\ Stock \in [SKUs -> Nat] /\ Carts \in [Orders -> SUBSET Seq(Item)]
  /\ Outages \subseteq {"Available", "Reserve", "Release"}

VARIABLES
  stock,     \* memInventory.m
  pc,        \* per order, what it is at
  cart,      \* its items
  todo,      \* the articles that its loop has ahead
  issues,    \* the rules that have objected
  reserved,  \* allocateOrder's map of that name, and what it has released of it
  released,
  cause      \* why it is turned away

flow == <<pc, cart, todo, issues, reserved, released, cause>>
vars == <<stock, flow>>

-----------------------------------------------------------------------------
Articles(o) == {cart[o][i].sku : i \in DOMAIN cart[o]}

\* demand: the quantities of an article, summed up
Quantity(items, s) ==
  SumFunctionOnSet([i \in DOMAIN items |-> items[i].qty],
                   {i \in DOMAIN items : items[i].sku = s})

Demand(o, s) == Quantity(cart[o], s)

\* What each order demands of an article
DemandsOf(s) == [o \in Orders |-> Demand(o, s)]

Goes(o, step) == pc' = [pc EXCEPT ![o] = step]

\* The loop of the order starts, over the articles S; or it goes on after s.
Over(o, S) == todo' = [todo EXCEPT ![o] = S]
Done(o, s) == Over(o, todo[o] \ {s})
Last(o, s) == todo[o] = {s}

Fails(operation) == operation \in Outages

\* The order is turned away, by the schema or by allocateOrder.
Ends(o, step, why) == Goes(o, step) /\ cause' = [cause EXCEPT ![o] = why]

-----------------------------------------------------------------------------
Submit(o) ==
  /\ pc[o] = "idle" /\ Goes(o, "rules")
  /\ \E c \in Carts[o] : cart' = [cart EXCEPT ![o] = c]
  /\ UNCHANGED <<stock, todo, issues, reserved, released, cause>>

\* Min(1) of the schema; then qty_positive and sku_unique.
Malformed(c) ==
  \/ c = <<>>
  \/ \E i \in DOMAIN c : c[i].qty <= 0
  \/ \E i, j \in DOMAIN c : i < j /\ c[i].sku = c[j].sku

\* The rules that look at the order alone, and sku_exists, which asks a
\* catalog that never changes and keeps inventory_sufficient from nothing.
Rules(o) ==
  /\ pc[o] = "rules"
  /\ IF Malformed(cart[o])
       THEN Ends(o, "invalid", "malformed") /\ UNCHANGED <<todo, issues>>
       ELSE /\ issues' = [issues EXCEPT ![o] =
                            IF Articles(o) \subseteq Catalog THEN {} ELSE {"unknown"}]
            /\ Goes(o, "sufficient") /\ Over(o, Articles(o)) /\ UNCHANGED cause
  /\ UNCHANGED <<stock, cart, reserved, released>>

\* Mutant: an article of which there is just enough is short.
ShortOrEven(o, s) == stock[s] <= Demand(o, s)

\* avail < need
Short(o, s) == stock[s] < Demand(o, s)

\* What the rules have found when inventory_sufficient ends
Verdict(o, found) ==
  IF found = {}
    THEN Goes(o, "check") /\ Over(o, Articles(o)) /\ UNCHANGED cause
    ELSE /\ Ends(o, "invalid", IF "unknown" \in found THEN "unknown" ELSE "short")
         /\ Over(o, {})

\* inventory_sufficient asks for one article after the other, sorted.
InventorySufficient(o) ==
  /\ pc[o] = "sufficient"
  /\ LET s     == Min(todo[o])
         found == IF Short(o, s) THEN issues[o] \cup {"short"} ELSE issues[o]
     IN  /\ issues' = [issues EXCEPT ![o] = found]
         /\ IF Last(o, s) THEN Verdict(o, found) ELSE Done(o, s) /\ UNCHANGED <<pc, cause>>
  /\ UNCHANGED <<stock, cart, reserved, released>>

RuleFails(o) ==
  /\ pc[o] = "sufficient" /\ Fails("Available")
  /\ Ends(o, "invalid", "outage")
  /\ UNCHANGED <<stock, cart, todo, issues, reserved, released>>

-----------------------------------------------------------------------------
(* allocateOrder *)

Check(o, s) ==
  /\ pc[o] = "check" /\ s \in todo[o]
  /\ IF Short(o, s)
       THEN Ends(o, "failed", "short") /\ UNCHANGED todo
       ELSE /\ IF Last(o, s) THEN Goes(o, "reserve") /\ Over(o, Articles(o))
                             ELSE Done(o, s) /\ UNCHANGED pc
            /\ UNCHANGED cause
  /\ UNCHANGED <<stock, cart, issues, reserved, released>>

CheckFails(o) ==
  /\ pc[o] = "check" /\ Fails("Available")
  /\ Ends(o, "failed", "outage")
  /\ UNCHANGED <<stock, cart, todo, issues, reserved, released>>

\* Mutant: the inventory has any of it.
GrantsAny(o, s) == stock[s] > 0

\* memInventory.Reserve
Grants(o, s) == Demand(o, s) > 0 /\ stock[s] >= Demand(o, s)

Reserve(o, s) ==
  /\ pc[o] = "reserve" /\ s \in todo[o] /\ Grants(o, s)
  /\ stock' = [stock EXCEPT ![s] = @ - Demand(o, s)]
  /\ reserved' = [reserved EXCEPT ![o] = @ \cup {s}]
  /\ Done(o, s)
  /\ IF Last(o, s) THEN Goes(o, "allocated") ELSE UNCHANGED pc
  /\ UNCHANGED <<cart, issues, released, cause>>

\* Mutant: what Reserve answers is not looked at.
ReserveIgnored(o, s) ==
  /\ pc[o] = "reserve" /\ s \in todo[o] /\ ~Grants(o, s)
  /\ Done(o, s)
  /\ IF Last(o, s) THEN Goes(o, "allocated") ELSE UNCHANGED pc
  /\ UNCHANGED <<stock, cart, issues, reserved, released, cause>>

\* What is reserved so far is released, or there is none.
RollsBack(o, why) ==
  /\ Over(o, reserved[o])
  /\ Ends(o, IF reserved[o] = {} THEN "failed" ELSE "rollback", why)
  /\ UNCHANGED <<stock, cart, issues, reserved, released>>

\* Mutant: the order waits until the inventory has enough.
ReserveRetried(o, s) ==
  /\ pc[o] = "reserve" /\ s \in todo[o] /\ ~Grants(o, s)
  /\ UNCHANGED vars

ReserveRefused(o, s) ==
  /\ pc[o] = "reserve" /\ s \in todo[o] /\ ~Grants(o, s)
  /\ RollsBack(o, "short")

ReserveFails(o) ==
  /\ pc[o] = "reserve" /\ Fails("Reserve")
  /\ RollsBack(o, "outage")

Releases(o, s) == Done(o, s) /\ IF Last(o, s) THEN Goes(o, "failed") ELSE UNCHANGED pc

Release(o, s) ==
  /\ pc[o] = "rollback" /\ s \in todo[o] /\ Releases(o, s)
  /\ stock' = [stock EXCEPT ![s] = @ + Demand(o, s)]
  /\ released' = [released EXCEPT ![o] = @ \cup {s}]
  /\ UNCHANGED <<cart, issues, reserved, cause>>

\* The error of Release is dropped, and what was reserved stays reserved.
ReleaseFails(o, s) ==
  /\ pc[o] = "rollback" /\ s \in todo[o] /\ Releases(o, s) /\ Fails("Release")
  /\ UNCHANGED <<stock, cart, issues, reserved, released, cause>>

\* Steps of the code, and of an inventory that answers; outages of it
Call(o) ==
  \/ Rules(o) \/ InventorySufficient(o)
  \/ \E s \in SKUs : Check(o, s) \/ Reserve(o, s) \/ ReserveRefused(o, s) \/ Release(o, s)

Outage(o) ==
  \/ RuleFails(o) \/ CheckFails(o) \/ ReserveFails(o)
  \/ \E s \in SKUs : ReleaseFails(o, s)

Init ==
  /\ stock = Stock
  /\ pc = [o \in Orders |-> "idle"] /\ cart = [o \in Orders |-> <<>>]
  /\ todo = [o \in Orders |-> {}] /\ issues = [o \in Orders |-> {}]
  /\ reserved = [o \in Orders |-> {}] /\ released = [o \in Orders |-> {}]
  /\ cause = [o \in Orders |-> "none"]

Next == \E o \in Orders : Submit(o) \/ Call(o) \/ Outage(o)

Spec == Init /\ [][Next]_vars

\* A goroutine that can go on does; no order has to be sent, and no service
\* has to fail.
FairSpec == Spec /\ \A o \in Orders : WF_vars(Call(o))

-----------------------------------------------------------------------------
\* What the inventory has given to an order and not got back
Held(o) == reserved[o] \ released[o]

HeldOf(s) == SumFunctionOnSet(DemandsOf(s), {o \in Orders : s \in Held(o)})

OrdersTypeOK ==
  /\ stock \in [SKUs -> Nat]
  /\ \A o \in Orders :
       /\ cart[o] \in Carts[o] \cup {<<>>}
       /\ todo[o] \subseteq Articles(o) /\ issues[o] \subseteq {"unknown", "short"}
       /\ released[o] \subseteq reserved[o] /\ reserved[o] \subseteq Articles(o)

(***************************************************************************)
(* No article is given out twice or beyond what there is: what the orders  *)
(* hold and what the inventory has is what it had.  An order that has been *)
(* allocated holds all its articles, and one that has failed none, but for *)
(* what the inventory has not taken back.                                  *)
(***************************************************************************)
StockAccounted ==
  /\ OrdersTypeOK
  /\ \A s \in SKUs : stock[s] + HeldOf(s) = Stock[s]
  /\ \A o \in Orders :
       /\ pc[o] = "allocated" => Held(o) = Articles(o)
       /\ pc[o] \notin {"reserve", "rollback", "allocated"} /\ Held(o) # {} =>
            pc[o] = "failed" /\ Fails("Release")

Contending == {o \in Orders : pc[o] # "idle" /\ ~Malformed(cart[o])}

(***************************************************************************)
(* If there is enough for all the orders at once, none is turned away for  *)
(* a shortage, whatever the others reserve and release in the meantime.    *)
(***************************************************************************)
EnoughForAll ==
  (\A s \in SKUs : SumFunctionOnSet(DemandsOf(s), Contending) <= Stock[s]) =>
    \A o \in Orders : cause[o] # "short"

Served == {o \in Orders : pc[o] = "allocated"}

LeftOf(s) == Stock[s] - SumFunctionOnSet(DemandsOf(s), Served)

Fate(o) ==
  CASE pc[o] = "idle"                   -> "none"
    [] pc[o] = "allocated"              -> "served"
    [] pc[o] \in {"failed", "invalid"}  -> "turned away"
    [] OTHER                            -> "open"

Ledger == INSTANCE OrderLedger WITH
  need <- [o \in Orders |-> [s \in SKUs |-> Demand(o, s)]],
  fate <- [o \in Orders |-> Fate(o)],
  left <- [s \in SKUs |-> LeftOf(s)]

(***************************************************************************)
(* Whatever is checked, reserved and rolled back in between, the orders    *)
(* are served as if each were in one step, out of what is then left.       *)
(***************************************************************************)
ImplementsLedger == Ledger!LedgerSpec

(***************************************************************************)
(* Every order that is sent is served or turned away.                      *)
(***************************************************************************)
OrdersAnswered ==
  \A o \in Orders : pc[o] # "idle" ~> pc[o] \in {"allocated", "failed", "invalid"}
=============================================================================
