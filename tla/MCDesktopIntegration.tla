-------------------------- MODULE MCDesktopIntegration --------------------------
(***************************************************************************)
(* DesktopIntegration for TLC; the one constant is a number.               *)
(***************************************************************************)
EXTENDS DesktopIntegration
================================================================================
