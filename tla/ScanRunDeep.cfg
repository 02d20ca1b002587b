SPECIFICATION FairSpec
CONSTANTS
    r1 = r1
    w1 = w1
    s1 = s1
    p1 = p1
    p2 = p2
    NoPlugin = NoPlugin
    Workflows = {w1}
    StepTypes = {"discovery", "vulnerability-scan"}
    WorkflowOf <- MCWorkflowOf
    OwnerOf <- MCOwnerOf
    Runs = {r1}
    Scopes = {s1}
    Plugins = {p1, p2}
    Definitions <- MCDefinitions
    Capabilities <- MCCapabilities
    ScopeOf <- MCScopeOf
INVARIANTS
    TypeOK
    StatusMatchesLog
    CompletedRanEveryStep
    CancelStopsWithinOneStep
    ExecutedPluginsWereApproved
PROPERTIES
    ImplementsRunLog
    QueuedCancelSticks
    QueuedRunsSettle
CHECK_DEADLOCK FALSE
