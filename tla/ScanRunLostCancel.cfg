SPECIFICATION Spec
CONSTANTS
    r1 = r1
    w1 = w1
    s1 = s1
    p1 = p1
    p2 = p2
    NoPlugin = NoPlugin
    Workflows = {w1}
    StepTypes = {"discovery", "vulnerability-scan"}
    WorkflowOf <- MCWorkflowOf
    OwnerOf <- MCOwnerOf
    Runs = {r1}
    Scopes = {s1}
    ScopeOf <- MCScopeOf
    Plugins = {p1}
    Definitions <- MCDefinitionsOne
    Capabilities <- MCCapabilities
PROPERTY
    CancelledNeverResumes
CHECK_DEADLOCK FALSE
