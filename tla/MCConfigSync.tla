----------------------------- MODULE MCConfigSync ------------------------------
(***************************************************************************)
(* Instances of ConfigSync for TLC: two settings of two values.            *)
(***************************************************************************)
EXTENDS ConfigSync

CONSTANTS limit, shortcut, first, second

MCDefault == [n \in Names |-> first]
================================================================================
