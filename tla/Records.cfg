SPECIFICATION RecordsSpec
CONSTANTS
    Kinds = {"grc", "knowledge", "risk", "threat", "resilience", "analytics", "node", "edge"}
    Requests = {q1, q2}
    Workers = {w1}
    MaxPasses = 1
    MaxTroubles = 1
    API = api
    None = None
    q1 = q1
    q2 = q2
    w1 = w1
    api = api
SYMMETRY Symmetry
VIEW View
INVARIANTS
    TablesAgree
    DictionariesFollow
PROPERTIES
    TerminalRowsAreFinal
CHECK_DEADLOCK FALSE
