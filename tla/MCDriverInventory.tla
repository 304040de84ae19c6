-------------------------- MODULE MCDriverInventory --------------------------
(* DriverInventory started on a portable PC and on one with a saved list. *)
EXTENDS DriverInventory

SomeStarts == {"portable", "old", "slim", "list"}
=============================================================================
