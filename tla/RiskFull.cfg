SPECIFICATION Spec
CONSTANTS
    q1 = q1
    q2 = q2
    q3 = q3
    q4 = q4
    q5 = q5
    api = api
    worker = worker
    NoId = NoId
    Rem = Rem
    Requests = {q1, q2, q3, q4, q5}
    Procs = {api, worker}
    KindOf <- MCFullKinds
    ProcOf <- MCFullProcs
    Reloading = {worker}
INVARIANTS
    TypeOK
    HistoryMatchesRow
    OneHolderEach
CHECK_DEADLOCK FALSE
