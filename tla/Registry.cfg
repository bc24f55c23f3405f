\* Any two commands on two providers with two versions each, and every fault.
CONSTANTS
    Procs = {p1, p2}
    Names <- TwoProviders
    Newest = 2
    Spaces = {w1}
    DeclLists <- Lists
    Args <- Wanted
    Kinds <- AllKinds
    Faults <- AllFaults
SPECIFICATION Spec
SYMMETRY ProcsAlike
INVARIANTS
    TypeOK
    EntryIsOwn
    EntryWasWhole
    DeclaredWorks
\* The commands end.
CHECK_DEADLOCK FALSE
