------------------------------ MODULE MCHistoryFiles ----------------------------
(***************************************************************************)
(* HistoryFiles for TLC; processes and rows are model values.              *)
(***************************************************************************)
EXTENDS HistoryFiles
================================================================================
