\* One `provider remove` in a workspace with two providers.
CONSTANTS
    Procs = {p1}
    Names <- TwoProviders
    Newest = 2
    Spaces = {w1}
    DeclLists <- Two
    Args <- Wanted
    Kinds <- RemoveOnly
    Faults = {}
SPECIFICATION Spec
INVARIANTS
    RemovesAll
CHECK_DEADLOCK FALSE
