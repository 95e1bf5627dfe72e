----------------------------- MODULE KeyboardLayouts ----------------------------
(***************************************************************************)
(* keymap.py: which accelerators must be registered so that one physical   *)
(* key opens the window whatever keyboard layout is active.  The user      *)
(* edits the list of input sources at any time; install() reads it, finds  *)
(* where the key of the shortcut is and asks libxkbcommon, one layout      *)
(* after the other, what that place sends.  The result is the plan that    *)
(* ShortcutRegistry writes; PlansFit is what ShortcutRegistry assumes of   *)
(* it.                                                                     *)
(*                                                                         *)
(* All accelerators have the modifiers of the shortcut, so one is known by *)
(* its key.  A layout stands for a pair of layout and variant.             *)
(***************************************************************************)
EXTENDS Integers, Sequences, SequencesExt

CONSTANTS
    Layouts,        \* what libxkbcommon can be asked about
    Keycodes,       \* the physical keys
    V_KEYCODE,      \* where v is if no layout has it
    Syms,           \* what a key sends: its name, its character, whether it is a Unicode keysym,
                    \* whether the character is ASCII
    NoSym,          \* nothing
    Keys,           \* the keys that shortcuts are written with
    Lower,          \* str.lower
    MaxExtraSlots,  \* MAX_EXTRA_SLOTS
    MaxSources      \* bound: input sources the user has

LayoutsAssumption ==
    /\ Keycodes \subseteq Nat /\ V_KEYCODE \in Keycodes
    /\ Syms \subseteq [name : STRING, char : STRING, unicode : BOOLEAN, ascii : BOOLEAN]
    /\ NoSym \notin Syms
    /\ Keys \cup {sym.name : sym \in Syms} \subseteq DOMAIN Lower
    /\ MaxExtraSlots \in Nat /\ MaxSources \in Nat

ASSUME LayoutsAssumption

VARIABLES
    keymap,   \* what each key sends in each layout
    library,  \* libxkbcommon is there
    sources,  \* org.gnome.desktop.input-sources sources
    wanted,   \* the key of the shortcut that install() was last asked for
    madeFor,  \* the layouts that are looked up for it
    turn,     \* the number of the layout whose turn it is, 0 when the plan is made
    plan      \* the accelerators, that of the first slot first

layoutVars == <<keymap, library, sources, wanted, madeFor, turn, plan>>

Source == [kind : {"xkb", "ibus"}, layout : Layouts]
NoKey == ""

LayoutInit ==
    /\ keymap \in [Layouts -> [Keycodes -> Syms \cup {NoSym}]]
    /\ library \in BOOLEAN
    /\ sources = <<>>
    /\ wanted = NoKey /\ madeFor = <<>> /\ turn = 0 /\ plan = <<>>

Xkb(layout) == [kind |-> "xkb", layout |-> layout]

\* parse_sources: each layout once, in the order of their first mention; an input method has no
\* fixed key.  The set has one element.
ConfiguredLayouts ==
    {list \in BoundedSeq(Layouts, MaxSources) :
        /\ \A layout \in Layouts : layout \in ToSet(list) <=> Xkb(layout) \in ToSet(sources)
        /\ \A i, j \in DOMAIN list : i < j =>
              \E p \in DOMAIN sources :
                 /\ sources[p] = Xkb(list[i])
                 /\ \A q \in DOMAIN sources : sources[q] = Xkb(list[j]) => p < q}

\* _matches
Matches(sym, key) ==
    sym # NoSym /\ key # NoKey /\ (Lower[sym.name] = Lower[key] \/ sym.char = key)

\* keycode_for: the first key of the first layout that has it, {} if it is nowhere
KeycodeFor(layouts, key) ==
    LET places == {place \in (DOMAIN layouts) \X Keycodes :
                     Matches(keymap[layouts[place[1]]][place[2]], key)}
        first == {place \in places : \A other \in places :
                    place[1] < other[1] \/ (place[1] = other[1] /\ place[2] <= other[2])}
    IN  IF places # {} THEN {place[2] : place \in first}
        ELSE IF key # NoKey /\ Lower[key] = "v" THEN {V_KEYCODE} ELSE {}

\* the user adds, removes or reorders input sources; nothing in the program listens
SetSources ==
    /\ sources' \in BoundedSeq(Source, MaxSources)
    /\ UNCHANGED <<keymap, library, wanted, madeFor, turn, plan>>

\* binding_plan, and _plan up to its loop; gsettings may not answer, which is no layout at all
BindingPlan(key) ==
    /\ turn = 0
    /\ wanted' = key /\ plan' = <<key>>
    /\ madeFor' \in ConfiguredLayouts \cup {<<>>}
    /\ turn' = IF madeFor' # <<>> /\ library /\ KeycodeFor(madeFor', key) # {} THEN 1 ELSE 0
    /\ UNCHANGED <<keymap, library, sources>>

\* every way to write it, however often
Add_Repeats(list, spelling) ==
    IF spelling = NoKey THEN list ELSE Append(list, spelling)

\* a way to write a key that the plan does not have yet
Add(list, spelling) ==
    IF spelling \in ToSet(list) \cup {NoKey} THEN list ELSE Append(list, spelling)

\* the names of Unicode keysyms are not understood everywhere: the character joins the name
Typed(sym) == sym.unicode /\ ~sym.ascii

WithSym(list, sym) ==
    IF sym = NoSym THEN list
    ELSE IF Typed(sym) THEN Add(Add(list, sym.name), sym.char) ELSE Add(list, sym.name)

\* the position is taken from the V key of a Latin keyboard
LookUp_Fixed ==
    /\ turn \in DOMAIN madeFor
    /\ plan' = WithSym(plan, keymap[madeFor[turn]][V_KEYCODE])
    /\ turn' = turn + 1
    /\ UNCHANGED <<keymap, library, sources, wanted, madeFor>>

\* a layout that sends nothing there ends the loop
LookUp_Break ==
    /\ turn \in DOMAIN madeFor
    /\ \E k \in KeycodeFor(madeFor, wanted) :
          LET sym == keymap[madeFor[turn]][k]
          IN  /\ plan' = WithSym(plan, sym)
              /\ turn' = IF sym = NoSym THEN Len(madeFor) + 1 ELSE turn + 1
    /\ UNCHANGED <<keymap, library, sources, wanted, madeFor>>

\* _plan, the loop over the layouts
LookUp ==
    /\ turn \in DOMAIN madeFor
    /\ \E k \in KeycodeFor(madeFor, wanted) : plan' = WithSym(plan, keymap[madeFor[turn]][k])
    /\ turn' = turn + 1
    /\ UNCHANGED <<keymap, library, sources, wanted, madeFor>>

\* install() takes as many as there are slots
Cut ==
    /\ turn > Len(madeFor)
    /\ turn' = 0
    /\ plan' = SubSeq(plan, 1, IF Len(plan) <= MaxExtraSlots THEN Len(plan) ELSE MaxExtraSlots + 1)
    /\ UNCHANGED <<keymap, library, sources, wanted, madeFor>>

\* binding_plan: any surprise means that no layout was looked up
Surprise ==
    /\ turn # 0
    /\ turn' = 0 /\ madeFor' = <<>> /\ plan' = <<wanted>>
    /\ UNCHANGED <<keymap, library, sources, wanted>>

LayoutNext == SetSources \/ (\E key \in Keys : BindingPlan(key)) \/ LookUp \/ Cut \/ Surprise

LayoutSpec == LayoutInit /\ [][LayoutNext]_layoutVars

--------------------------------------------------------------------------------
(* Properties *)

Planned == wanted # NoKey /\ turn = 0

\* what the physical key of the shortcut sends, over the layouts it was looked up in
Sent ==
    {keymap[layout][k] : layout \in ToSet(madeFor), k \in KeycodeFor(madeFor, wanted)} \ {NoSym}

\* Whatever the layouts, the plan is one that install() can carry out (the assumption of
\* ShortcutRegistry): the key that was asked for first, no two slots with one key, and no more
\* than there are slots.
PlansFit ==
    Planned =>
        /\ Len(plan) \in 1..(MaxExtraSlots + 1) /\ plan[1] = wanted
        /\ IsInjective(plan)

\* With the library there and slots for all, the key opens the window in every layout that was
\* looked up, under every way to write what it sends there.
EveryLayoutOpens ==
    Planned /\ library /\ Len(plan) <= MaxExtraSlots =>
        \A sym \in Sent :
            /\ sym.name # NoKey => sym.name \in ToSet(plan)
            /\ Typed(sym) /\ sym.char # NoKey => sym.char \in ToSet(plan)

\* "A missing binding is harmless, a wrong one is not": apart from the key that was asked for,
\* the program takes only keys that this one place on the keyboard sends.
NoOtherKeyTaken ==
    ToSet(plan) \ {wanted} \subseteq {sym.name : sym \in Sent} \cup {sym.char : sym \in Sent}

================================================================================
