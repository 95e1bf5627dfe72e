\* keyboard_layouts
CONSTANTS
    Layouts = {us, ir}
    Keycodes = {1, 2}
    V_KEYCODE = 2
    Syms <- AllSyms
    NoSym = nosym
    Keys <- SomeKeys
    Lower <- LowerOf
    MaxExtraSlots = 2
    MaxSources = 2
SPECIFICATION LayoutSpec
INVARIANTS PlansFit EveryLayoutOpens NoOtherKeyTaken
