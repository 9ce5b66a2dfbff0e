------------------------------ MODULE MCInventory ------------------------------
(* TLC instance of Inventory; the configuration gives the constants.          *)
EXTENDS Inventory, TLC
================================================================================
