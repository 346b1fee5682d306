SPECIFICATION Spec
CONSTANTS
    Operators = {o1, o2}
    Slots = {"primary", "fallback"}
    Timeout = 2
    Exclusive = FALSE
    MaxGen = 1
SYMMETRY Symmetry
INVARIANTS
    KillBounded
