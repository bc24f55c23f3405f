\* Two schemas and every fault.  The channel has one place, so that three rows
\* fill it, the uploader's hand and the sender that waits.
CONSTANTS
    NCalls = 2
    NRules = 1
    MaxRows = 3
    Cap = 1
    Window = 2
    Faults <- AllFaults
SPECIFICATION Spec
INVARIANTS
    TypeOK
    InOrder
    NothingDropped
    HangNeedsCause
PROPERTIES
    DeliverySpec
    HangIsForever
\* The process exits, or apply hangs.
CHECK_DEADLOCK FALSE
