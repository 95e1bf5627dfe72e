---------------------------- MODULE MCKeyboardLayouts ---------------------------
(* KeyboardLayouts over every keymap of two layouts and two keys           *)
EXTENDS KeyboardLayouts

\* the Latin v, the legacy keysym of Persian, a Unicode keysym, and one of an ASCII character
Latin == [name |-> "v", char |-> "v", unicode |-> FALSE, ascii |-> TRUE]
Legacy == [name |-> "Arabic_ra", char |-> "ra", unicode |-> FALSE, ascii |-> FALSE]
Unicode == [name |-> "U043C", char |-> "em", unicode |-> TRUE, ascii |-> FALSE]
UnicodeLatin == [name |-> "U0076", char |-> "v", unicode |-> TRUE, ascii |-> TRUE]
AllSyms == {Latin, Legacy, Unicode, UnicodeLatin}

\* shortcuts on v, on V and on a key that a layout may lack
SomeKeys == {"v", "V", "Arabic_ra"}

LowerOf ==
    [s \in SomeKeys \cup {sym.name : sym \in AllSyms} |->
       CASE s = "V" -> "v" [] s = "Arabic_ra" -> "arabic_ra" [] s = "U043C" -> "u043c"
         [] s = "U0076" -> "u0076" [] OTHER -> s]
================================================================================
