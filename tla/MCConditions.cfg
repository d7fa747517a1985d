SPECIFICATION FairSpec
CONSTANTS
    Check = {tunnel, bindings}
    Watched = {tunnel}
    Unproven = {tunnel}
    Critical = {bindings}
    FLAPPING = 2
    ATTEMPTS = 1
    KEPT = 3
    STAMPS = 1
    FLUX = 3
    RARE = 2
INVARIANTS
    ToldIsSaid
PROPERTIES
    SinceStands
    DiagnosedIsToldOnce
    StoreSettles
    SpellIsTold
