---------------------------- MODULE MCInventory ----------------------------
(***************************************************************************)
(* Small instances of Inventory for TLC.                                   *)
(***************************************************************************)
EXTENDS Inventory

(* Two orders, baskets that overlap on both products, one with a quantity  *)
(* that is not positive, and an adjustment of any type up or down.         *)
MCBaskets == {<<1, 1>>, <<0, 2>>, <<2, -1>>}

MCStock == <<2, 2>>
MCProducts == DOMAIN MCStock
MCQuantities == {1, -2}
=============================================================================
