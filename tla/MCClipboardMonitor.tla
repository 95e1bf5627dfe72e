-------------------------- MODULE MCClipboardMonitor ---------------------------
(***************************************************************************)
(* Instances of ClipboardMonitor for TLC; the constants are plain numbers  *)
(* and the configurations give their values.                               *)
(***************************************************************************)
EXTENDS ClipboardMonitor
================================================================================
