\* One `init --relevance` whose stored token the server refuses.
CONSTANTS
    Procs = {p1}
    Tokens <- TwoTokens
    Kinds <- InitOnly
    Faults = {}
SPECIFICATION Spec
INVARIANTS
    LoginSetsToken
CHECK_DEADLOCK FALSE
