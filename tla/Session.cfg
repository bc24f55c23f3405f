\* Every pair of commands, one after the other and at the same time.
CONSTANTS
    Procs = {p1, p2}
    Tokens <- TwoTokens
    Kinds <- AllKinds
    Faults <- AllFaults
SPECIFICATION Spec
INVARIANTS
    TypeOK
    StoredWasAccepted
    BlankHasWriter
    FileIsSession
    ApplyUsesSession
PROPERTIES
    DamageStays
\* The commands end.
CHECK_DEADLOCK FALSE
