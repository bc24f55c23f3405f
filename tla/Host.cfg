CONSTANTS
    Contents <- MCContents
    RuleFiles <- MCRuleFiles
    BrokenRules <- MCBroken
    Latest <- MCLatest
    Published <- MCPublished
    Shelves <- MCShelves
    Workspaces <- MCWorkspaces
    ProviderNames = {"a", "b"}
    Releases = {1, 2}
    NameText <- MCNameText
    VersionText <- MCVersionText
    MaxCommands = 2
    ConfigFaults = {"crash", "write", "call"}
    MaxRounds = 1
    CloudFaults = {"call", "stream", "report", "race"}
    DbProcs = {p1, p2, p3}
    MaxOpens = 2
    DbFaults = {"crash", "call", "copy", "initdb", "stop"}
SPECIFICATION HostSpec
INVARIANTS
    ModTypeOK
    CycleIsReal
    OverflowHasCycle
    CycleIsRefused
    LoadedAsDeclared
    RulesAreLatest
    ConfigTypeOK
    ConfigLoads
    JobsAreDistinct
    TaskTypeOK
    StatusIsTrue
    ReportsFollowTask
    ClientMatchesToken
    QuietIsUp
\* The parts end.
CHECK_DEADLOCK FALSE
