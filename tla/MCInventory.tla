------------------------------- MODULE MCInventory -------------------------------
(***************************************************************************)
(* A small instance of Inventory for TLC: two orders of different sizes.   *)
(***************************************************************************)
EXTENDS Inventory, TLC

CONSTANTS o1, o2

MCOrders == {o1, o2}
MCQty == (o1 :> 1) @@ (o2 :> 2)
================================================================================
