\* One schema, every fault: the stalls that the watchdog is there for.
CONSTANTS
    NCalls = 1
    NRules = 1
    MaxRows = 3
    Cap = 1
    Window = 1
    Faults <- AllFaults
SPECIFICATION FairSpec
PROPERTIES
    RunRulesReturns
    StalledCallIsCancelled
\* The process exits, or apply hangs.
CHECK_DEADLOCK FALSE
