\* One apply with one call of RunRules, without any fault.
CONSTANTS
    MaxRounds = 1
    CloudFaults = {}
SPECIFICATION TaskSpec
INVARIANTS
    FileMapReturns
CHECK_DEADLOCK FALSE
