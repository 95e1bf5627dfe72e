------------------------------ MODULE MCPasteFlow ------------------------------
(***************************************************************************)
(* Instances of PasteFlow for TLC; the constants are model values and      *)
(* plain numbers and the configuration gives their values.                 *)
(***************************************************************************)
EXTENDS PasteFlow
================================================================================
