-------------------------- MODULE MCOrderAllocation --------------------------
(***************************************************************************)
(* Two articles of which there is enough for some of the orders: a small   *)
(* one, or two that want both in either sequence and more than they leave  *)
(* each other; and an order that repeats an article, and one that has an   *)
(* article the catalog has not.                                            *)
(***************************************************************************)
EXTENDS OrderAllocation

MCStock == <<2, 2, 0>>

MCItem(s, n) == [sku |-> s, qty |-> n]
MCSmall == <<MCItem(1, 1)>>
MCBoth  == {<<MCItem(1, 1), MCItem(2, 2)>>, <<MCItem(2, 1), MCItem(1, 2)>>}
MCCarts ==
  [o \in Orders |->
     CASE o = 1 -> {MCSmall, <<MCItem(1, 1), MCItem(1, 1)>>, <<MCItem(1, 1), MCItem(3, 1)>>}
       [] o = 2 -> MCBoth \cup {MCSmall}
       [] OTHER -> MCBoth]
=============================================================================
