------------------------------ MODULE MCPopupWindow ----------------------------
(* PopupWindow with the odd rows matching what the user types *)
EXTENDS PopupWindow

FoundIds == {i \in 1..MaxId : i % 2 = 1}
================================================================================
