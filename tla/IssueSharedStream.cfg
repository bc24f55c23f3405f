\* Two schemas share the stream, which the first closes and the network may
\* break: how the goroutines of both calls end.
CONSTANTS
    NCalls = 2
    NRules = 1
    MaxRows = 3
    Cap = 1
    Window = 1
    Faults <- LossOnly
SPECIFICATION FairSpec
PROPERTIES
    UploadersEnd
\* The process exits, or apply hangs.
CHECK_DEADLOCK FALSE
