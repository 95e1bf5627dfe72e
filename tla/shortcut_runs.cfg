\* shortcut_runs
CONSTANTS
    u1 = u1
    u2 = u2
    superV = superV
    superVt = superVt
    UserPaths = {u1, u2}
    MaxExtraSlots = 1
    Bindings = {superV, superVt}
    DefaultBinding = superV
    NoBinding = none
    Within <- MCWithin
    Plans <- MCPlans
SPECIFICATION Spec
INVARIANTS ListedSlotsAnswer QuietInstallConverges QuietUninstallLeavesNothing
PROPERTIES HandMadeKeysStay
SYMMETRY MCSymmetry
