SPECIFICATION Spec
CONSTANTS
    t1 = t1
    t2 = t2
    s1 = s1
    s2 = s2
    None = None
    Root = t1
    Queries <- MCQueries
    Schemas <- MCSchemas
    Slots <- MCSlots
    MaxWrites = 1
SYMMETRY Symmetry
INVARIANT SwitchRefetches
