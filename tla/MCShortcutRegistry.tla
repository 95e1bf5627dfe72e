-------------------------- MODULE MCShortcutRegistry ---------------------------
(***************************************************************************)
(* Instances of ShortcutRegistry for TLC.                                  *)
(***************************************************************************)
EXTENDS ShortcutRegistry, TLC

CONSTANTS u1, u2, superV, superVt

\* one keyboard layout, and two; the name of the other layout's key begins with v
MCPlans == {<<superV>>, <<superV, superVt>>}

MCWithin == {<<superV, superV>>, <<superVt, superVt>>, <<superV, superVt>>}

\* hand-made shortcuts are interchangeable
MCSymmetry == Permutations(UserPaths)
================================================================================
