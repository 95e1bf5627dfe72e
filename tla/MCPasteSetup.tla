------------------------------ MODULE MCPasteSetup -----------------------------
(* PasteSetup on an ordinary Ubuntu desktop and on those that differ from  *)
(* it in one thing, under Wayland; and under X11, where the helpers and    *)
(* their order differ                                                      *)
EXTENDS PasteSetup

Desktop(session) ==
    [session |-> session, named |-> TRUE, usermod |-> TRUE, systemctl |-> TRUE, pgrep |-> TRUE,
     wtype |-> "absent", keycodes |-> FALSE]

Desktops ==
    LET usual == Desktop("wayland")
        x11 == Desktop("x11")
    IN  {usual,
         [usual EXCEPT !.named = FALSE], [usual EXCEPT !.usermod = FALSE],
         [usual EXCEPT !.systemctl = FALSE], [usual EXCEPT !.pgrep = FALSE],
         [usual EXCEPT !.wtype = "works"], [usual EXCEPT !.wtype = "refused"],
         [usual EXCEPT !.keycodes = TRUE],
         [x11 EXCEPT !.wtype = "works"], [x11 EXCEPT !.keycodes = TRUE]}
================================================================================
