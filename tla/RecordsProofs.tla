---------------------------- MODULE RecordsProofs ----------------------------
(***************************************************************************)
(* Theorems about Records for every set of requests, workers and kinds and *)
(* every number of passes and failures: types, what the tables say of a    *)
(* record, that a terminal record is left as it is, and what the           *)
(* dictionaries of the processes show of it.                               *)
(***************************************************************************)
EXTENDS Records, SequenceTheorems, TLAPS

-----------------------------------------------------------------------------
(* The invariant.  A session that is about to commit holds the row of the   *)
(* version it has read, changed as the services allow; while that version   *)
(* is the latest the change still fits the tables.                          *)

Life == {FirstStatus} \cup Targets \cup IF kind = "threat" THEN {"FUSED"} ELSE {}

\* What the scores of a row owe to its status.
RowFits(row) ==
    /\ kind = "knowledge" => /\ row.status = "APPROVED" => row.score = 1
                             /\ row.status \in {"ACTIVE", "REVIEW"} => row.score = 0
    /\ kind = "threat" => (row.status = "FUSED" => row.score # 0)

\* The score an assessment will have: a session that adds evidence has
\* flushed it, so it counts one more than the table.
Counted(x) == Completeness(evidence + IF x.op = "evidence" THEN 1 ELSE 0)

\* Only threats are fused and only two kinds recalculated.
Planned(todo) ==
    \A i \in 1..Len(todo) : /\ todo[i] = "fuse" => kind = "threat"
                            /\ todo[i] = "recalc" => kind \in {"grc", "knowledge"}

\* What a session with a row in its hands knows of it.
Holds(x) ==
    LET was == versions[x.base].row IN
    /\ x.base \in 1..Len(versions)
    /\ x.pc = "count" => kind = "grc" /\ x.new = was /\ x.op \in {"create", "sync"}
    /\ Terminal(was.status) => x.new = was /\ x.op # "evidence"
    /\ x.op = "evidence" => kind = "grc"
    /\ Versioned => /\ x.new.status # was.status => x.new.status \in Allowed[was.status]
                    /\ RowFits(x.new)
    /\ kind = "grc" /\ x.pc # "count" /\ x.base = Len(versions) => x.new.score = Counted(x)

Fits(x) ==
    /\ x.pc \in {"fetched", "put"} => Exists
    /\ x.pc = "load" /\ x.op \in {"transition", "evidence", "fuse"} => Exists
    /\ Planned(x.todo)
    /\ x.op = "fuse" => x.amount # 0 /\ kind = "threat"
    /\ x.op = "transition" => x.to \in Targets
    /\ x.op = "evidence" => kind = "grc"
    /\ x.pc = "flush" => x.base = 0
    /\ x.pc \in {"flush", "early", "commit"} /\ x.base = 0 =>
          x.new = NewRow(x.amount, x.tags) /\ x.op \in {"create", "sync"}
    /\ x.pc \in {"early", "commit", "count"} /\ x.base # 0 => Holds(x)
    /\ x.pc = "count" => x.base # 0

\* One session at a time has inserted a row it has not committed.
OneKey == \A s \in Sessions : HoldsKey(s) =>
              ~Exists /\ \A t \in Sessions : HoldsKey(t) => t = s

InLife == Versioned => \A n \in DOMAIN versions : versions[n].row.status \in Life

RestTypes ==
    /\ cold \in [Workers -> BOOLEAN]
    /\ passes \in [Workers -> 0..MaxPasses]
    /\ troubles \in 0..MaxTroubles
    /\ poisoned \subseteq Processes
    /\ relinked \subseteq Workers

CacheFits ==
    /\ cache \in [Processes -> Entry \cup {Broken, None}]
    /\ cache[API] # None => Exists

Tables ==
    /\ kind \in Kinds
    /\ versions \in Seq(Version)
    /\ log \in Seq([old: Statuses \cup {"absent"}, new: Statuses])
    /\ evidence \in Nat
    /\ gaps \in Nat
    /\ InLife
    /\ TablesAgree
    /\ ~Exists => evidence = 0 /\ gaps = 0

RecordsInv ==
    /\ Tables
    /\ CacheFits
    /\ RestTypes
    /\ session \in [Sessions -> Session]
    /\ \A s \in Sessions : Fits(session[s])
    /\ OneKey
    /\ \A s \in Sessions : At(s, "early") => s \in Workers

-----------------------------------------------------------------------------
(* Types.                                                                   *)

LEMMA FirstTypes ==
    ASSUME kind \in Kinds
    PROVE  FirstStatus \in Statuses /\ FirstStatus \in Life /\ ~Terminal(FirstStatus)
BY DEF FirstStatus, Statuses, Life, Terminal

LEMMA NewRowType ==
    ASSUME kind \in Kinds, NEW amount \in 0..2, NEW tags \in BOOLEAN
    PROVE  /\ NewRow(amount, tags) \in Row
           /\ NewRow(amount, tags).status = FirstStatus
           /\ kind \notin {"risk", "edge"} => NewRow(amount, tags).score = 0
BY FirstTypes DEF NewRow, Row

LEMMA IdleType == Idle \in Session /\ NoRow \in Row
<1>1. <<>> \in Seq(Steps)
  OBVIOUS
<1> QED
  BY <1>1 DEF Idle, NoRow, Session, Row, PCs, Ops, Statuses

LEMMA CurrentType ==
    ASSUME versions \in Seq(Version), Exists
    PROVE  /\ Len(versions) \in 1..Len(versions)
           /\ versions[Len(versions)] \in Version
           /\ Current \in Row
<1>1. Len(versions) \in Nat /\ Len(versions) # 0
  BY DEF Exists
<1>2. Len(versions) \in 1..Len(versions)
  BY <1>1
<1>3. versions[Len(versions)] \in Version
  BY <1>2
<1> QED
  BY <1>2, <1>3 DEF Current, Version

LEMMA AllowedTypes ==
    ASSUME kind \in Kinds, NEW st \in Statuses
    PROVE  /\ Allowed[st] \subseteq Statuses
           /\ Versioned => Allowed[st] \subseteq Life
           /\ Terminal(st) => Allowed[st] = {}
<1> USE RecordsAssumption DEF Allowed, NoMoves, Terminal, Versioned, Cached, Listed, Graph,
        Life, FirstStatus, Targets
<1>1. CASE kind = "grc"
  BY <1>1 DEF GrcAllowed, Statuses
<1>2. CASE kind = "knowledge"
  BY <1>2 DEF KnowledgeAllowed, Statuses
<1>3. CASE kind = "risk"
  BY <1>3 DEF RiskAllowed, Statuses
<1>4. CASE kind = "threat"
  BY <1>4 DEF ThreatAllowed, Statuses
<1>5. CASE kind = "resilience"
  BY <1>5 DEF ResilienceAllowed, Statuses
<1>6. CASE kind = "analytics"
  BY <1>6 DEF AnalyticsAllowed, Statuses
<1>7. CASE kind \in Graph
  BY <1>7 DEF GraphAllowed, Statuses
<1> QED
  BY <1>1, <1>2, <1>3, <1>4, <1>5, <1>6, <1>7

LEMMA KindCases ==
    /\ kind = "knowledge" => Allowed = KnowledgeAllowed
    /\ kind = "threat" => Allowed = ThreatAllowed
    /\ kind \in Graph => Allowed = GraphAllowed
BY DEF Allowed, Graph

LEMMA TargetTypes == ASSUME kind \in Kinds PROVE Targets \subseteq Statuses
BY RecordsAssumption DEF Targets, Statuses, Cached, Listed, Graph

-----------------------------------------------------------------------------
(* A step of one session that writes nothing.                               *)

\* What the sessions know stays true while the tables stay as they are.
LEMMA TablesKept ==
    ASSUME RecordsInv, UNCHANGED <<kind, versions, log, evidence, gaps>>
    PROVE  Tables' /\ Exists' = Exists /\ \A y \in Session : Fits(y) => Fits(y)'
<1>1. Tables'
  BY DEF RecordsInv, Tables, InLife, TablesAgree, HistoryTellsStatus, ScoreFits, Versioned,
     Exists, Current, Created, FirstStatus, Allowed, Life, Targets, Terminal
<1>2. /\ Exists' = Exists /\ Targets' = Targets /\ FirstStatus' = FirstStatus
      /\ Allowed' = Allowed /\ Versioned' = Versioned
  BY DEF Exists, Targets, FirstStatus, Allowed, Versioned
<1>3. \A y \in Session : Fits(y) => Fits(y)'
  <2>1. \A amount, tags : NewRow(amount, tags)' = NewRow(amount, tags)
    BY <1>2 DEF NewRow
  <2>2. \A row : RowFits(row)' <=> RowFits(row)
    BY DEF RowFits
  <2>3. \A y : Counted(y)' = Counted(y)
    BY DEF Counted
  <2>4. \A y : Holds(y) => Holds(y)'
    BY <1>2, <2>2, <2>3 DEF Holds, Terminal
  <2> QED
    BY <1>2, <2>1, <2>4 DEF Fits, Planned
<1> QED
  BY <1>1, <1>2, <1>3

\* The session s goes on as x and the tables stay as they are.
LEMMA QuietStep ==
    ASSUME RecordsInv, NEW s \in Sessions, NEW x \in Session, Fits(x),
           UNCHANGED <<kind, versions, log, evidence, gaps>>,
           session' = [session EXCEPT ![s] = x],
           CacheFits', RestTypes',
           x.base = 0 /\ x.pc \in {"early", "commit"} =>
               HoldsKey(s) \/ (~Exists /\ \A t \in Sessions : ~HoldsKey(t)),
           x.pc = "early" => s \in Workers
    PROVE  RecordsInv'
<1>1. Tables' /\ Exists' = Exists /\ \A y \in Session : Fits(y) => Fits(y)'
  BY TablesKept
<1>2. session' \in [Sessions -> Session]
  BY DEF RecordsInv
<1>4. \A t \in Sessions : session'[t] = IF t = s THEN x ELSE session[t]
  BY DEF RecordsInv
<1>5. \A t \in Sessions : Fits(session[t])'
  BY <1>1, <1>4 DEF RecordsInv
<1>6. OneKey'
  <2>1. \A t \in Sessions : HoldsKey(t)' =>
            HoldsKey(t) \/ (t = s /\ ~Exists /\ \A u \in Sessions : ~HoldsKey(u))
    BY <1>4 DEF HoldsKey, At
  <2> QED
    BY <1>1, <2>1 DEF RecordsInv, OneKey
<1>7. \A t \in Sessions : At(t, "early")' => t \in Workers
  BY <1>4 DEF At, RecordsInv
<1> QED
  BY <1>1, <1>2, <1>5, <1>6, <1>7 DEF RecordsInv

\* The same when nothing but the session changes.
LEMMA SessionStep ==
    ASSUME RecordsInv, NEW s \in Sessions, NEW x \in Session, Fits(x), OnlySession,
           session' = [session EXCEPT ![s] = x],
           x.base = 0 /\ x.pc \in {"early", "commit"} =>
               HoldsKey(s) \/ (~Exists /\ \A t \in Sessions : ~HoldsKey(t)),
           x.pc = "early" => s \in Workers
    PROVE  RecordsInv'
<1>1. CacheFits'
  BY DEF RecordsInv, CacheFits, OnlySession, Exists
<1>2. RestTypes'
  BY DEF RecordsInv, RestTypes, OnlySession
<1> QED
  BY <1>1, <1>2, QuietStep DEF OnlySession

Resting == {"idle", "gate", "list", "step", "done", "failed"}

LEMMA RestingFits ==
    ASSUME NEW x \in Session, Fits(x), NEW pc \in Resting
    PROVE  [x EXCEPT !.pc = pc] \in Session /\ Fits([x EXCEPT !.pc = pc])
BY DEF Resting, Fits, Session, PCs

LEMMA GoesStep ==
    ASSUME RecordsInv, NEW s \in Sessions, NEW pc \in Resting, OnlySession, Goes(s, pc)
    PROVE  RecordsInv'
<1> DEFINE x == [session[s] EXCEPT !.pc = pc]
<1>1. session[s] \in Session /\ Fits(session[s])
  BY DEF RecordsInv
<1>2. x \in Session /\ Fits(x)
  BY <1>1, RestingFits
<1>3. session' = [session EXCEPT ![s] = x]
  BY <1>1 DEF Goes, RecordsInv
<1>4. x.pc \notin {"early", "commit"}
  BY <1>1 DEF Resting, Session
<1> QED
  BY <1>2, <1>3, <1>4, SessionStep

\* Or goes on to read the row again.
LEMMA LoadStep ==
    ASSUME RecordsInv, NEW s \in Sessions, NEW pc \in Resting \cup {"load"}, OnlySession,
           Goes(s, pc), pc = "load" => Exists
    PROVE  RecordsInv'
<1>1. CASE pc # "load"
  BY <1>1, GoesStep
<1>2. CASE pc = "load"
  <2> DEFINE x == [session[s] EXCEPT !.pc = "load"]
  <2>1. session[s] \in Session /\ Fits(session[s])
    BY DEF RecordsInv
  <2>2. x \in Session /\ Fits(x)
    BY <1>2, <2>1 DEF Fits, Session, PCs
  <2>3. session' = [session EXCEPT ![s] = x]
    BY <1>2, <2>1 DEF Goes, RecordsInv
  <2>4. x.pc \notin {"early", "commit"}
    BY <2>1 DEF Session
  <2> QED
    BY <2>2, <2>3, <2>4, SessionStep
<1> QED
  BY <1>1, <1>2

-----------------------------------------------------------------------------
(* Requests.                                                                *)

LEMMA BeginStep ==
    ASSUME RecordsInv, NEW q \in Sessions, NEW op \in Ops, NEW to \in Statuses,
           NEW amount \in 0..2, NEW tags \in BOOLEAN, NEW pc \in {"gate", "list", "load"},
           Begin(q, op, to, amount, tags, pc),
           op = "fuse" => amount # 0 /\ kind = "threat", op = "transition" => to \in Targets,
           op = "evidence" => kind = "grc", pc = "load" => op = "create"
    PROVE  RecordsInv'
<1> DEFINE x == [Idle EXCEPT !.op = op, !.to = to, !.amount = amount, !.tags = tags, !.pc = pc]
<1>1. x \in Session
  BY IdleType DEF Session, PCs
<1>2. x.pc = pc /\ x.op = op /\ x.to = to /\ x.amount = amount /\ x.todo = <<>>
  BY DEF Idle
<1>3. Fits(x)
  BY <1>2 DEF Fits, Planned
<1>4. session' = [session EXCEPT ![q] = x] /\ OnlySession
  BY DEF Begin
<1> QED
  BY <1>1, <1>2, <1>3, <1>4, SessionStep

LEMMA AskStep == ASSUME RecordsInv, NEW q \in Requests, Ask(q) PROVE RecordsInv'
<1>0. /\ q \in Sessions /\ "ACTIVE" \in Statuses /\ "FUSED" \in Statuses
      /\ {"get", "list", "create", "transition", "evidence", "fuse"} \subseteq Ops
      /\ 0 \in 0..2 /\ 2 \in 0..2 /\ 1..2 \subseteq 0..2 /\ 2 # 0 /\ FALSE \in BOOLEAN
  BY DEF Sessions, Statuses, Ops
<1>1. CASE AskFor(q)
  <2>1. CASE Begin(q, "get", "ACTIVE", 0, FALSE, "gate")
    BY <1>0, <2>1, BeginStep
  <2>2. CASE Begin(q, "list", "ACTIVE", 0, FALSE, "list")
    BY <1>0, <2>2, BeginStep
  <2> QED
    BY <1>1, <2>1, <2>2 DEF AskFor
<1>2. CASE AskCreate(q)
  <2>1. PICK amount \in 1..2, tags \in BOOLEAN : Begin(q, "create", "ACTIVE", amount, tags, "load")
    BY <1>2 DEF AskCreate
  <2> QED
    BY <1>0, <2>1, BeginStep
<1>3. CASE AskMove(q)
  <2>1. PICK to \in Targets : Begin(q, "transition", to, 0, FALSE, "gate")
    BY <1>3 DEF AskMove
  <2>2. to \in Statuses
    BY TargetTypes DEF RecordsInv, Tables
  <2> QED
    BY <1>0, <2>1, <2>2, BeginStep
<1>4. CASE AskEvidence(q)
  <2>1. kind = "grc" /\ Begin(q, "evidence", "ACTIVE", 0, FALSE, "gate")
    BY <1>4 DEF AskEvidence
  <2> QED
    BY <1>0, <2>1, BeginStep
<1>5. CASE AskFuse(q)
  <2>1. kind = "threat" /\ Begin(q, "fuse", "FUSED", 2, FALSE, "gate")
    BY <1>5 DEF AskFuse
  <2> QED
    BY <1>0, <2>1, BeginStep
<1> QED
  BY <1>1, <1>2, <1>3, <1>4, <1>5 DEF Ask

LEMMA GateOutcome ==
    ASSUME NEW q, NEW st
    PROVE  PassedGate(q, st) \in Resting \cup {"load"}
BY DEF PassedGate, Resting

LEMMA LookStep == ASSUME RecordsInv, NEW q \in Requests, Look(q) PROVE RecordsInv'
<1>0. q \in Sessions /\ session[q] \in Session /\ Fits(session[q])
  BY DEF Sessions, RecordsInv
<1>1. CASE GateCached(q)
  <2> DEFINE pc == IF cache[API] = Broken THEN "failed" ELSE PassedGate(q, cache[API].row.status)
  <2>1. Exists
    BY <1>1 DEF GateCached, RecordsInv, CacheFits
  <2>2. pc \in Resting \cup {"load"}
    BY GateOutcome DEF Resting
  <2>3. Goes(q, pc) /\ OnlySession
    BY <1>1 DEF GateCached
  <2> QED
    BY <1>0, <2>1, <2>2, <2>3, LoadStep
<1>2. CASE GateUnknown(q)
  BY <1>0, <1>2, GoesStep DEF GateUnknown, Resting
<1>3. CASE GateRow(q)
  <2>1. CASE ~Exists
    BY <1>0, <1>3, <2>1, GoesStep DEF GateRow, Resting
  <2>2. CASE Exists /\ kind \in Cached
    <3> DEFINE x == [session[q] EXCEPT !.pc = "fetched", !.new = Current, !.base = Len(versions)]
    <3>1. Current \in Row /\ Len(versions) \in Nat
      BY <2>2, CurrentType DEF RecordsInv, Tables
    <3>2. x \in Session /\ x.pc = "fetched"
      BY <1>0, <3>1 DEF Session, PCs
    <3>3. Fits(x)
      BY <1>0, <2>2, <3>2 DEF Fits, Session
    <3>4. session' = [session EXCEPT ![q] = x] /\ OnlySession
      BY <1>0, <1>3, <2>2 DEF GateRow, RecordsInv
    <3> QED
      BY <1>0, <3>2, <3>3, <3>4, SessionStep
  <2>3. CASE Exists /\ kind \notin Cached
    BY <1>0, <1>3, <2>3, GateOutcome, LoadStep DEF GateRow
  <2> QED
    BY <2>1, <2>2, <2>3
<1> QED
  BY <1>1, <1>2, <1>3 DEF Look

LEMMA ListRowsStep == ASSUME RecordsInv, NEW s \in Sessions, ListRows(s) PROVE RecordsInv'
<1>0. session[s] \in Session /\ Fits(session[s]) /\ OnlySession
  BY DEF RecordsInv, ListRows
<1>1. CASE Goes(s, After(s))
  BY <1>0, <1>1, GoesStep DEF After, Resting
<1>2. CASE ~Goes(s, After(s))
  <2> DEFINE x == [session[s] EXCEPT !.pc = "fetched", !.new = Current, !.op = "list",
                                     !.base = Len(versions)]
  <2>1. Exists /\ session' = [session EXCEPT ![s] = x]
    BY <1>0, <1>2 DEF ListRows, RecordsInv
  <2>2. Current \in Row /\ Len(versions) \in Nat
    BY <2>1, CurrentType DEF RecordsInv, Tables
  <2>3. x \in Session /\ x.pc = "fetched" /\ x.op = "list"
    BY <1>0, <2>2 DEF Session, PCs, Ops
  <2>4. Fits(x)
    BY <1>0, <2>1, <2>3 DEF Fits
  <2> QED
    BY <1>0, <2>1, <2>3, <2>4, SessionStep
<1> QED
  BY <1>1, <1>2

\* A step that puts the session's row in its process's dictionary and goes on.
LEMMA PutStep ==
    ASSUME RecordsInv, NEW s \in Sessions, NEW n \in Nat,
           NEW pc \in Resting \cup {"load", "commit"},
           Put(Process(s), session[s].new, n), Goes(s, pc), OnlyCache,
           Process(s) = API => Exists, pc = "load" => Exists,
           pc = "commit" => At(s, "early")
    PROVE  RecordsInv'
<1> DEFINE x == [session[s] EXCEPT !.pc = pc]
<1>0. session[s] \in Session /\ Fits(session[s])
  BY DEF RecordsInv
<1>1. x \in Session /\ session' = [session EXCEPT ![s] = x]
  BY <1>0 DEF Session, PCs, Resting, Goes, RecordsInv
<1>2. Fits(x)
  <2>1. CASE pc \in Resting
    BY <1>0, <2>1, RestingFits
  <2>2. CASE pc = "load"
    BY <1>0, <2>2 DEF Fits, Session
  <2>3. CASE pc = "commit"
    <3>1. Holds(session[s]) => Holds(x)
      BY <1>0, <2>3 DEF Holds, Session, At, Counted
    <3> QED
      BY <1>0, <2>3, <3>1 DEF Fits, Session, At
  <2> QED
    BY <2>1, <2>2, <2>3
<1>3. CacheFits'
  <2>1. Process(s) \in Processes /\ [row |-> session[s].new, version |-> n] \in Entry
    BY <1>0 DEF Process, Processes, Entry, Session
  <2> QED
    BY <2>1 DEF Put, CacheFits, RecordsInv, OnlyCache, Exists
<1>4. RestTypes'
  BY DEF RecordsInv, RestTypes, OnlyCache
<1>5. (x.base = 0 /\ x.pc \in {"early", "commit"} => HoldsKey(s)) /\ x.pc # "early"
  BY <1>0 DEF Session, Resting, HoldsKey, At
<1> QED
  BY <1>1, <1>2, <1>3, <1>4, <1>5, QuietStep DEF OnlyCache

LEMMA CacheSteps ==
    ASSUME RecordsInv, NEW s \in Sessions, Fetched(s) \/ EarlyPut(s) \/ PutCommitted(s)
    PROVE  RecordsInv'
<1>0. session[s] \in Session /\ Fits(session[s]) /\ session[s].base \in Nat
  BY DEF RecordsInv, Session
<1>1. CASE Fetched(s)
  <2> DEFINE pc == IF session[s].op = "list" THEN After(s)
                   ELSE PassedGate(s, session[s].new.status)
  <2>1. pc \in Resting \cup {"load"}
    BY GateOutcome DEF After, Resting
  <2>2. Exists
    BY <1>0, <1>1 DEF Fetched, At, Fits
  <2>3. Put(Process(s), session[s].new, session[s].base) /\ Goes(s, pc) /\ OnlyCache
    BY <1>1 DEF Fetched
  <2> QED
    BY <1>0, <2>1, <2>2, <2>3, PutStep DEF Resting
<1>2. CASE EarlyPut(s)
  <2>1. session[s].base + (IF Changed(s) THEN 1 ELSE 0) \in Nat
    BY <1>0
  <2>2. Process(s) # API
    BY <1>2, RecordsAssumption DEF EarlyPut, RecordsInv, Process
  <2> QED
    BY <1>2, <2>1, <2>2, PutStep DEF EarlyPut
<1>3. CASE PutCommitted(s)
  <2>1. Exists
    BY <1>0, <1>3 DEF PutCommitted, At, Fits
  <2> QED
    BY <1>0, <1>3, <2>1, PutStep DEF PutCommitted, After, Resting
<1> QED
  BY <1>1, <1>2, <1>3

-----------------------------------------------------------------------------
(* Sessions that take the row in hand.                                      *)

LEMMA CurrentFits ==
    ASSUME RecordsInv, Exists
    PROVE  /\ Len(versions) \in 1..Len(versions)
           /\ Current \in Row
           /\ RowFits(Current) \/ ~Versioned
           /\ kind = "grc" => Current.score = Completeness(evidence)
           /\ Versioned => Current.status \in Life
<1>1. versions \in Seq(Version) /\ InLife /\ ScoreFits
  BY DEF RecordsInv, Tables, TablesAgree
<1>2. Len(versions) \in 1..Len(versions) /\ Current \in Row
  BY <1>1, CurrentType
<1>3. RowFits(Current) /\ (kind = "grc" => Current.score = Completeness(evidence))
  BY <1>1 DEF ScoreFits, RowFits
<1>4. Versioned => Current.status \in Life
  BY <1>1, <1>2 DEF InLife, Current
<1> QED
  BY <1>2, <1>3, <1>4

\* The session has read the latest version and holds it changed.
LEMMA StageStep ==
    ASSUME RecordsInv, Exists, NEW s \in Sessions, NEW x \in Session, OnlySession,
           session' = [session EXCEPT ![s] = x],
           x.pc \in {"early", "commit", "count", "put"}, x.base = Len(versions),
           x.pc = "early" => s \in Workers,
           x.pc = "count" => kind = "grc" /\ x.new = Current /\ x.op \in {"create", "sync"},
           Terminal(Current.status) => x.new = Current /\ x.op # "evidence",
           Versioned => x.new.status = Current.status \/ x.new.status \in Allowed[Current.status],
           Versioned => RowFits(x.new),
           kind = "grc" /\ x.pc # "count" => x.new.score = Counted(x),
           Planned(x.todo),
           x.op = "fuse" => x.amount # 0 /\ kind = "threat",
           x.op = "transition" => x.to \in Targets,
           x.op = "evidence" => kind = "grc"
    PROVE  RecordsInv'
<1>1. x.base \in 1..Len(versions) /\ x.base # 0
  BY CurrentFits
<1>2. Holds(x)
  BY <1>1 DEF Holds, Current
<1>3. Fits(x)
  BY <1>1, <1>2 DEF Fits
<1> QED
  BY <1>1, <1>3, SessionStep

\* The rows the requests write.
LEMMA MovesToStep ==
    ASSUME RecordsInv, NEW q \in Requests, NEW new \in Row, MovesTo(q, new),
           Exists => new.status = session[q].to,
           Exists /\ session[q].to \in Allowed[Current.status] => RowFits(new) \/ ~Versioned,
           Exists /\ kind = "grc" => new.score = Current.score
    PROVE  RecordsInv'
<1>0. /\ q \in Sessions /\ session[q] \in Session /\ Fits(session[q]) /\ OnlySession
      /\ session[q].pc = "load" /\ session[q].op = "transition"
  BY DEF Sessions, RecordsInv, MovesTo, Ready, At
<1>1. Exists
  BY <1>0 DEF Fits
<1>2. CASE Goes(q, "done") \/ Goes(q, "failed")
  BY <1>0, <1>2, GoesStep DEF Resting
<1>3. CASE Stage(q, new) /\ ~Terminal(Current.status) /\ session[q].to \in Allowed[Current.status]
  <2> DEFINE x == [session[q] EXCEPT !.pc = "commit", !.new = new, !.base = Len(versions)]
  <2>0. Len(versions) \in Nat /\ "commit" \in PCs
    BY DEF RecordsInv, Tables, PCs
  <2>1. x \in Session /\ x.pc = "commit" /\ x.new = new /\ x.base = Len(versions)
        /\ x.op = "transition" /\ x.to = session[q].to /\ x.todo = session[q].todo
    BY <1>0, <2>0 DEF Session
  <2>2. session' = [session EXCEPT ![q] = x]
    BY <1>0, <1>3 DEF Stage, RecordsInv
  <2>3. evidence \in Nat
    BY DEF RecordsInv, Tables
  <2>4. kind = "grc" => x.new.score = Counted(x)
    BY <1>1, <2>1, <2>3, CurrentFits DEF Counted
  <2>5. x.to \in Targets /\ Planned(x.todo)
    BY <1>0, <2>1 DEF Fits
  <2> HIDE DEF x
  <2> QED
    BY <1>0, <1>1, <1>3, <2>1, <2>2, <2>4, <2>5, StageStep
<1> QED
  BY <1>2, <1>3 DEF MovesTo

\* What fusing makes of a threat that is not archived.
LEMMA FusedFits ==
    ASSUME RecordsInv, Exists, kind = "threat", ~Terminal(Current.status),
           NEW amount \in 1..2
    PROVE  /\ Fused(amount) \in Row
           /\ RowFits(Fused(amount))
           /\ \/ Fused(amount).status = Current.status
              \/ Fused(amount).status \in Allowed[Current.status]
<1>1. Current \in Row /\ Current.status \in Life
  BY CurrentFits DEF Versioned, Cached
<1>2. Current.status \in {"ACTIVE", "IN_TRIAGE", "FUSED"}
  BY <1>1 DEF Life, Targets, FirstStatus, Terminal
<1>3. /\ Fused(amount) \in Row /\ Fused(amount).status = "FUSED"
      /\ Fused(amount).score = amount
  <2>1. "FUSED" \in Statuses /\ amount \in 0..3
    BY DEF Statuses
  <2> QED
    BY <1>1, <2>1 DEF Fused, Row
<1>4. \A st \in {"ACTIVE", "IN_TRIAGE"} : "FUSED" \in Allowed[st]
  <2>1. Allowed = ThreatAllowed
    BY KindCases
  <2> QED
    BY <2>1 DEF ThreatAllowed, NoMoves, Statuses
<1> QED
  BY <1>2, <1>3, <1>4 DEF RowFits

LEMMA MoveStep == ASSUME RecordsInv, NEW q \in Requests, Move(q) PROVE RecordsInv'
<1>0. /\ q \in Sessions /\ session[q] \in Session /\ Fits(session[q]) /\ kind \in Kinds
      /\ evidence \in Nat
  BY DEF Sessions, RecordsInv, Tables
<1>1. ASSUME Exists
      PROVE  /\ Current \in Row /\ (RowFits(Current) \/ ~Versioned)
             /\ Len(versions) \in Nat
  BY <1>1, CurrentFits
<1>2. session[q].to \in Statuses /\ session[q].amount \in 0..2
  BY <1>0 DEF Session
<1>3. ASSUME At(q, "load"), session[q].op \in {"transition", "evidence", "fuse"}
      PROVE  Exists
  BY <1>0, <1>3 DEF Fits, At
<1> DEFINE moved == [Current EXCEPT !.status = session[q].to]
<1>4. ASSUME kind \in {"grc", "risk", "threat", "resilience", "analytics"}, MovesTo(q, moved)
      PROVE  RecordsInv'
  <2>1. Exists
    BY <1>3, <1>4 DEF MovesTo, Ready
  <2>2. moved \in Row /\ moved.status = session[q].to /\ moved.score = Current.score
    BY <1>1, <1>2, <2>1 DEF Row
  <2>3. session[q].to \in Targets
    BY <1>0, <1>4 DEF MovesTo, Ready, At, Fits
  <2>4. RowFits(moved)
    BY <1>4, <2>2, <2>3 DEF RowFits, Targets
  <2> QED
    BY <1>4, <2>2, <2>4, MovesToStep
<1>5. CASE MoveAssessment(q) \/ MoveRisk(q) \/ MoveThreat(q) \/ MoveResilience(q)
           \/ MoveAnalytics(q)
  BY <1>4, <1>5 DEF MoveAssessment, MoveRisk, MoveThreat, MoveResilience, MoveAnalytics
<1>6. CASE MoveKnowledge(q)
  <2> DEFINE new == [Current EXCEPT !.status = session[q].to,
                                    !.score = IF session[q].to = "APPROVED" THEN 1 ELSE @]
  <2>1. kind = "knowledge" /\ MovesTo(q, new)
    BY <1>6 DEF MoveKnowledge
  <2>2. Exists
    BY <1>3, <2>1 DEF MovesTo, Ready
  <2>3. /\ new \in Row /\ new.status = session[q].to
        /\ new.score = IF session[q].to = "APPROVED" THEN 1 ELSE Current.score
    <3>1. Current \in Row
      BY <1>1, <2>2
    <3>2. (IF session[q].to = "APPROVED" THEN 1 ELSE Current.score) \in 0..3
      BY <3>1 DEF Row
    <3> QED
      BY <1>2, <3>1, <3>2 DEF Row
  <2>4. session[q].to \in Allowed[Current.status] => RowFits(new)
    <3>1. Current.status \in Statuses
      BY <1>1, <2>2 DEF Row
    <3>2. session[q].to \in {"ACTIVE", "REVIEW"} /\ session[q].to \in Allowed[Current.status]
            => Current.status = "ACTIVE"
      <4>1. Allowed = KnowledgeAllowed
        BY <2>1, KindCases
      <4> QED
        BY <3>1, <4>1 DEF KnowledgeAllowed, NoMoves, Statuses
    <3>3. Versioned
      BY <2>1 DEF Versioned, Cached, Listed
    <3> QED
      BY <1>1, <2>1, <2>2, <2>3, <3>2, <3>3 DEF RowFits
  <2> QED
    BY <2>1, <2>3, <2>4, MovesToStep
<1>7. CASE DeprecateNode(q) \/ DeprecateEdge(q)
  <2>1. Deprecates(q) /\ kind \in Graph
    BY <1>7 DEF DeprecateNode, DeprecateEdge, Graph
  <2>2. Exists
    BY <1>3, <2>1 DEF Deprecates, Ready
  <2> DEFINE new == [Current EXCEPT !.status = "DEPRECATED"]
             x == [session[q] EXCEPT !.base = Len(versions), !.new = new,
                       !.pc = IF Terminal(Current.status) THEN "put" ELSE "commit"]
  <2>3. new \in Row /\ new.status = "DEPRECATED"
    BY <1>1, <2>2 DEF Row, Statuses
  <2>4. /\ x \in Session /\ x.base = Len(versions) /\ x.new = new /\ x.op = session[q].op
        /\ x.to = session[q].to /\ x.amount = session[q].amount /\ x.todo = session[q].todo
        /\ x.pc = IF Terminal(Current.status) THEN "put" ELSE "commit"
    BY <1>0, <1>1, <2>2, <2>3 DEF Session, PCs
  <2>5. session' = [session EXCEPT ![q] = x] /\ OnlySession /\ session[q].op = "transition"
    BY <1>0, <2>1 DEF Deprecates, Ready, RecordsInv
  <2>6. Terminal(Current.status) => new = Current
    <3>1. Versioned /\ Current.status \in Life
      BY <2>1, <2>2, CurrentFits DEF Versioned, Cached
    <3>2. Current.status \in {"ACTIVE", "DEPRECATED"}
      BY <2>1, <3>1 DEF Life, FirstStatus, Targets, Graph
    <3>3. Terminal(Current.status) => Current.status = "DEPRECATED"
      BY <3>2, <2>1 DEF Terminal
    <3> QED
      BY <1>1, <2>2, <3>3 DEF Row
  <2>7. ~Terminal(Current.status) => "DEPRECATED" \in Allowed[Current.status]
    <3>1. Current.status \in {"ACTIVE", "DEPRECATED"}
      BY <2>1, <2>2, CurrentFits DEF Life, FirstStatus, Targets, Graph, Versioned, Cached
    <3>2. ~Terminal(Current.status) => Current.status = "ACTIVE"
      BY <3>1 DEF Terminal
    <3>3. "DEPRECATED" \in Allowed["ACTIVE"]
      BY <2>1 DEF Allowed, GraphAllowed, NoMoves, Statuses, Graph
    <3> QED
      BY <3>2, <3>3
  <2>8. RowFits(new) /\ kind # "grc"
    BY <2>1 DEF RowFits, Graph
  <2>9. x.to \in Targets /\ Planned(x.todo)
    BY <1>0, <2>4, <2>5 DEF Fits
  <2>10. x.new.status = Current.status \/ x.new.status \in Allowed[Current.status]
    BY <2>3, <2>4, <2>6, <2>7
  <2> HIDE DEF new, x
  <2> QED
    BY <1>0, <2>2, <2>4, <2>5, <2>6, <2>8, <2>9, <2>10, StageStep
<1>8. CASE AddEvidence(q)
  <2>1. Exists /\ kind = "grc" /\ OnlySession /\ session[q].pc = "load"
        /\ session[q].op = "evidence"
    BY <1>0, <1>3, <1>8 DEF AddEvidence, Ready, At, Fits
  <2>2. CASE Goes(q, "failed")
    BY <1>0, <2>1, <2>2, GoesStep DEF Resting
  <2>3. CASE ~Terminal(Current.status) /\ Stage(q, [Current EXCEPT !.score = Completeness(evidence + 1)])
    <3> DEFINE new == [Current EXCEPT !.score = Completeness(evidence + 1)]
               x == [session[q] EXCEPT !.pc = "commit", !.new = new, !.base = Len(versions)]
    <3>1. new \in Row /\ new.status = Current.status /\ new.score = Completeness(evidence + 1)
      <4>1. Completeness(evidence + 1) \in 0..3
        BY <1>0 DEF Completeness
      <4> QED
        BY <1>1, <2>1, <4>1 DEF Row
    <3>2. x \in Session /\ x.pc = "commit" /\ x.new = new /\ x.base = Len(versions)
          /\ x.op = "evidence" /\ x.todo = session[q].todo
      BY <1>0, <1>1, <2>1, <3>1 DEF Session, PCs
    <3>3. session' = [session EXCEPT ![q] = x]
      BY <1>0, <2>3 DEF Stage, RecordsInv
    <3>4. RowFits(new) /\ x.new.score = Counted(x)
      BY <2>1, <3>1, <3>2 DEF RowFits, Counted
    <3>5. Planned(x.todo)
      BY <1>0, <3>2 DEF Fits
    <3> HIDE DEF new, x
    <3> QED
      BY <1>0, <2>1, <2>3, <3>1, <3>2, <3>3, <3>4, <3>5, StageStep
  <2> QED
    BY <1>8, <2>2, <2>3 DEF AddEvidence
<1>9. CASE FuseThreat(q)
  <2>1. Exists /\ kind = "threat" /\ OnlySession /\ session[q].pc = "load"
        /\ session[q].op = "fuse" /\ session[q].amount # 0
    BY <1>0, <1>3, <1>9 DEF FuseThreat, Ready, At, Fits
  <2>2. CASE Goes(q, "done")
    BY <1>0, <2>1, <2>2, GoesStep DEF Resting
  <2>3. CASE ~Terminal(Current.status) /\ Stage(q, Fused(session[q].amount))
    <3> DEFINE new == Fused(session[q].amount)
               x == [session[q] EXCEPT !.pc = "commit", !.new = new, !.base = Len(versions)]
    <3>1. new \in Row /\ RowFits(new)
          /\ (new.status = Current.status \/ new.status \in Allowed[Current.status])
      BY <1>2, <2>1, <2>3, FusedFits
    <3>2. x \in Session /\ x.pc = "commit" /\ x.new = new /\ x.base = Len(versions)
          /\ x.op = "fuse" /\ x.amount = session[q].amount /\ x.todo = session[q].todo
      BY <1>0, <1>1, <2>1, <3>1 DEF Session, PCs
    <3>3. session' = [session EXCEPT ![q] = x]
      BY <1>0, <2>3 DEF Stage, RecordsInv
    <3>4. Planned(x.todo)
      BY <1>0, <3>2 DEF Fits
    <3> HIDE DEF new, x
    <3> QED
      BY <1>0, <2>1, <2>3, <3>1, <3>2, <3>3, <3>4, StageStep
  <2> QED
    BY <1>9, <2>2, <2>3 DEF FuseThreat
<1> QED
  BY <1>5, <1>6, <1>7, <1>8, <1>9 DEF Move

-----------------------------------------------------------------------------
(* create_or_sync.                                                          *)

LEMMA BeforeCommitType ==
    ASSUME NEW s \in Sessions
    PROVE  /\ BeforeCommit(s) \in {"early", "commit"} /\ BeforeCommit(s) \in PCs
           /\ BeforeCommit(s) = "early" => s \in Workers
BY DEF BeforeCommit, PCs

LEMMA SyncedStep ==
    ASSUME RecordsInv, NEW s \in Sessions, NEW new, Synced(s, new), kind # "grc",
           Exists => new \in Row /\ new.status = Current.status,
           Exists /\ Versioned => RowFits(new)
    PROVE  RecordsInv'
<1> DEFINE row == IF Terminal(Current.status) THEN Current ELSE new
           x == [session[s] EXCEPT !.pc = BeforeCommit(s), !.base = Len(versions), !.new = row]
<1>1. /\ session[s] \in Session /\ Fits(session[s]) /\ OnlySession /\ Exists
      /\ session[s].op \in {"create", "sync"} /\ Len(versions) \in Nat
  BY DEF RecordsInv, Tables, Synced, Syncing, Ready
<1>2. row \in Row /\ row.status = Current.status /\ (Versioned => RowFits(row))
  BY <1>1, CurrentFits
<1>3. /\ x \in Session /\ x.pc = BeforeCommit(s) /\ x.base = Len(versions) /\ x.new = row
      /\ x.op = session[s].op /\ x.todo = session[s].todo
  BY <1>1, <1>2, BeforeCommitType DEF Session
<1>4. session' = [session EXCEPT ![s] = x]
  BY <1>1 DEF Synced, RecordsInv
<1>5. Planned(x.todo)
  BY <1>1, <1>3 DEF Fits
<1>6. Terminal(Current.status) => row = Current
  OBVIOUS
<1> HIDE DEF row, x
<1> QED
  BY <1>1, <1>2, <1>3, <1>4, <1>5, <1>6, BeforeCommitType, StageStep

LEMMA SyncMissingStep ==
    ASSUME RecordsInv, NEW s \in Sessions, SyncMissing(s) PROVE RecordsInv'
<1> DEFINE x == [session[s] EXCEPT !.pc = "flush", !.base = 0,
                     !.new = NewRow(session[s].amount, session[s].tags)]
<1>1. /\ session[s] \in Session /\ Fits(session[s]) /\ OnlySession
      /\ session[s].op \in {"create", "sync"} /\ kind \in Kinds
  BY DEF RecordsInv, Tables, SyncMissing, Syncing, Ready
<1>2. NewRow(session[s].amount, session[s].tags) \in Row
  BY <1>1, NewRowType DEF Session
<1>3. /\ x \in Session /\ x.pc = "flush" /\ x.base = 0
      /\ x.new = NewRow(x.amount, x.tags) /\ x.op = session[s].op /\ x.todo = session[s].todo
  BY <1>1, <1>2 DEF Session, PCs
<1>4. Fits(x)
  BY <1>1, <1>3 DEF Fits
<1>5. session' = [session EXCEPT ![s] = x]
  BY <1>1 DEF SyncMissing, RecordsInv
<1> QED
  BY <1>1, <1>3, <1>4, <1>5, SessionStep

LEMMA SyncAssessmentStep ==
    ASSUME RecordsInv, NEW s \in Sessions, SyncAssessment(s) PROVE RecordsInv'
<1> DEFINE x == [session[s] EXCEPT !.pc = "count", !.base = Len(versions), !.new = Current]
<1>1. /\ session[s] \in Session /\ Fits(session[s]) /\ OnlySession /\ Exists
      /\ session[s].op \in {"create", "sync"} /\ kind = "grc" /\ Len(versions) \in Nat
  BY DEF RecordsInv, Tables, SyncAssessment, Syncing, Ready
<1>2. Current \in Row
  BY <1>1, CurrentFits
<1>3. /\ x \in Session /\ x.pc = "count" /\ x.base = Len(versions) /\ x.new = Current
      /\ x.op = session[s].op /\ x.todo = session[s].todo
  BY <1>1, <1>2 DEF Session, PCs
<1>4. session' = [session EXCEPT ![s] = x]
  BY <1>1 DEF SyncAssessment, RecordsInv
<1>5. Planned(x.todo)
  BY <1>1, <1>3 DEF Fits
<1>6. RowFits(Current)
  BY <1>1 DEF RowFits
<1> QED
  BY <1>1, <1>3, <1>4, <1>5, <1>6, StageStep

\* Evidence that was committed since the assessment was read is counted too:
\* the row then conflicts when it is committed.
LEMMA CountStep ==
    ASSUME RecordsInv, NEW s \in Sessions, CountEvidence(s) PROVE RecordsInv'
<1> DEFINE old == session[s].new
           score == IF Terminal(old.status) THEN old.score ELSE Completeness(evidence)
           row == [old EXCEPT !.score = score]
           x == [session[s] EXCEPT !.pc = BeforeCommit(s), !.new = row]
<1>1. /\ session[s] \in Session /\ Fits(session[s]) /\ OnlySession
      /\ session[s].pc = "count" /\ evidence \in Nat /\ old \in Row
  BY DEF RecordsInv, Tables, CountEvidence, At, Session
<1>2. session[s].base # 0 /\ Holds(session[s])
  BY <1>1 DEF Fits
<1>3. kind = "grc" /\ old = versions[session[s].base].row /\ session[s].op \in {"create", "sync"}
  BY <1>1, <1>2 DEF Holds
<1>4. score \in 0..3
  BY <1>1 DEF Row, Completeness
<1>5. row \in Row /\ row.status = old.status /\ row.score = score
  BY <1>1, <1>4 DEF Row
<1>6. Terminal(old.status) => row = old
  BY <1>1 DEF Row
<1>7. /\ x \in Session /\ x.pc = BeforeCommit(s) /\ x.base = session[s].base /\ x.new = row
      /\ x.op = session[s].op /\ x.todo = session[s].todo
  BY <1>1, <1>5, BeforeCommitType DEF Session
<1>8. session' = [session EXCEPT ![s] = x]
  BY <1>1 DEF CountEvidence, RecordsInv
<1>9. x.base = Len(versions) => x.new.score = Counted(x)
  <2>1. SUFFICES ASSUME x.base = Len(versions) PROVE row.score = Completeness(evidence)
    <3>1. Counted(x) = Completeness(evidence + 0)
      BY <1>3, <1>7 DEF Counted
    <3>2. evidence + 0 = evidence
      BY <1>1
    <3> QED
      BY <1>7, <2>1, <3>1, <3>2
  <2>2. Exists /\ old = Current
    BY <1>2, <1>3, <1>7, <2>1 DEF Exists, Current, Holds
  <2> QED
    BY <1>3, <1>5, <2>2, CurrentFits
<1>10. RowFits(x.new)
  BY <1>3 DEF RowFits
<1>11. Holds(x)
  <2> HIDE DEF old, score, row, x
  <2>1. /\ x.base \in 1..Len(versions) /\ x.pc # "count"
        /\ x.op # "evidence" /\ versions[x.base].row = old
    BY <1>2, <1>3, <1>7, BeforeCommitType DEF Holds
  <2> QED
    BY <1>3, <1>5, <1>6, <1>7, <1>9, <1>10, <2>1 DEF Holds
<1>12. Fits(x)
  <2> HIDE DEF old, score, row, x
  <2> QED
    BY <1>1, <1>2, <1>3, <1>7, <1>11, BeforeCommitType DEF Fits
<1> HIDE DEF row, x, score
<1> QED
  BY <1>1, <1>2, <1>7, <1>8, <1>12, BeforeCommitType, SessionStep

\* An exception.
LEMMA FailsFits ==
    ASSUME RecordsInv, NEW s \in Sessions, Fails(s)
    PROVE  \E x \in Session : /\ Fits(x) /\ x.pc \notin {"early", "commit"}
                              /\ session' = [session EXCEPT ![s] = x]
<1> DEFINE pc == IF s \in Workers THEN "step" ELSE "failed"
           todo == IF s \in Workers /\ ~Bootstrapping(s) /\ kind \in Listed
                   THEN <<"list">> ELSE <<>>
           x == [session[s] EXCEPT !.pc = pc, !.todo = todo]
<1>1. session[s] \in Session /\ Fits(session[s])
  BY DEF RecordsInv
<1>2. todo \in Seq(Steps) /\ Planned(todo)
  <2>1. <<"list">> \in Seq(Steps) /\ Planned(<<"list">>)
    BY DEF Planned, Steps
  <2>2. <<>> \in Seq(Steps) /\ Planned(<<>>)
    BY DEF Planned
  <2> QED
    BY <2>1, <2>2
<1>3. /\ x \in Session /\ x.pc \in {"step", "failed"} /\ x.todo = todo
      /\ x.op = session[s].op /\ x.amount = session[s].amount /\ x.to = session[s].to
  BY <1>1, <1>2 DEF Session, PCs
<1>4. Fits(x)
  BY <1>1, <1>2, <1>3 DEF Fits
<1>5. session' = [session EXCEPT ![s] = x]
  BY <1>1 DEF Fails, RecordsInv
<1> QED
  BY <1>3, <1>4, <1>5

LEMMA FlushStep == ASSUME RecordsInv, NEW s \in Sessions, Flush(s) PROVE RecordsInv'
<1>1. session[s] \in Session /\ Fits(session[s]) /\ OnlySession /\ session[s].pc = "flush"
  BY DEF RecordsInv, Flush, At
<1>2. CASE Fails(s)
  BY <1>1, <1>2, FailsFits, SessionStep
<1>3. CASE ~Exists /\ Goes(s, BeforeCommit(s))
  <2> DEFINE x == [session[s] EXCEPT !.pc = BeforeCommit(s)]
  <2>1. /\ x \in Session /\ x.pc = BeforeCommit(s) /\ x.base = session[s].base
        /\ x.new = session[s].new /\ x.amount = session[s].amount /\ x.tags = session[s].tags
        /\ x.op = session[s].op /\ x.todo = session[s].todo
    BY <1>1, BeforeCommitType DEF Session
  <2>2. session' = [session EXCEPT ![s] = x]
    BY <1>1, <1>3 DEF Goes, RecordsInv
  <2>3. Fits(x)
    BY <1>1, <2>1, BeforeCommitType DEF Fits
  <2>4. ~Exists /\ \A t \in Sessions : ~HoldsKey(t)
    BY <1>3 DEF Flush
  <2> HIDE DEF x
  <2> QED
    BY <1>1, <2>1, <2>2, <2>3, <2>4, BeforeCommitType, SessionStep
<1> QED
  BY <1>2, <1>3 DEF Flush

LEMMA SyncStep == ASSUME RecordsInv, NEW s \in Sessions, Sync(s) PROVE RecordsInv'
<1>0. session[s].amount \in 0..2 /\ session[s].tags \in BOOLEAN
  BY DEF RecordsInv, Session
<1>1. ASSUME Exists
      PROVE  Current \in Row /\ (Versioned => RowFits(Current))
  BY <1>1, CurrentFits
<1>2. CASE SyncKnowledge(s)
  <2> DEFINE new == [Current EXCEPT !.tagged = Tagging(s),
                         !.score = IF Current.status = "APPROVED" THEN 1 ELSE 0]
  <2>1. kind = "knowledge" /\ Synced(s, new)
    BY <1>2 DEF SyncKnowledge
  <2>2. ASSUME Exists
        PROVE  /\ new \in Row /\ new.status = Current.status
               /\ new.score = IF Current.status = "APPROVED" THEN 1 ELSE 0
    <3>1. (IF Current.status = "APPROVED" THEN 1 ELSE 0) \in 0..3
      OBVIOUS
    <3>2. Current \in Row /\ Tagging(s) \in BOOLEAN
      BY <1>1, <2>2 DEF Tagging
    <3> QED
      BY <3>1, <3>2 DEF Row
  <2>3. Exists => RowFits(new)
    BY <2>1, <2>2 DEF RowFits
  <2> QED
    BY <2>1, <2>2, <2>3, SyncedStep
<1>3. CASE SyncRisk(s) \/ SyncEdge(s)
  <2> DEFINE new == [Current EXCEPT !.score = session[s].amount]
  <2>1. kind \in {"risk", "edge"} /\ Synced(s, new)
    BY <1>3 DEF SyncRisk, SyncEdge
  <2>2. Exists => new \in Row /\ new.status = Current.status
    BY <1>0, <1>1 DEF Row
  <2>3. RowFits(new)
    BY <2>1 DEF RowFits
  <2> QED
    BY <2>1, <2>2, <2>3, SyncedStep
<1>4. CASE SyncThreat(s)
  <2> DEFINE new == [Current EXCEPT !.tagged = Tagging(s)]
  <2>1. kind = "threat" /\ Synced(s, new)
    BY <1>4 DEF SyncThreat
  <2>2. Exists => new \in Row /\ new.status = Current.status /\ new.score = Current.score
    BY <1>0, <1>1 DEF Row, Tagging
  <2>3. Exists /\ Versioned => RowFits(new)
    BY <1>1, <2>1, <2>2 DEF RowFits
  <2> QED
    BY <2>1, <2>2, <2>3, SyncedStep
<1>5. CASE SyncResilience(s)
  <2> DEFINE new == [Current EXCEPT !.score = Readiness(Current.status)]
  <2>1. kind = "resilience" /\ Synced(s, new)
    BY <1>5 DEF SyncResilience
  <2>2. Exists => new \in Row /\ new.status = Current.status
    <3>1. Readiness(Current.status) \in 0..3
      BY DEF Readiness
    <3> QED
      BY <1>1, <3>1 DEF Row
  <2>3. RowFits(new)
    BY <2>1 DEF RowFits
  <2> QED
    BY <2>1, <2>2, <2>3, SyncedStep
<1>6. CASE SyncAnalytics(s) \/ SyncNode(s)
  BY <1>1, <1>6, SyncedStep DEF SyncAnalytics, SyncNode
<1> QED
  BY <1>2, <1>3, <1>4, <1>5, <1>6, SyncMissingStep, SyncAssessmentStep, CountStep,
     FlushStep, CacheSteps DEF Sync

-----------------------------------------------------------------------------
(* Passes.                                                                  *)

LEMMA JoinedPlans ==
    ASSUME NEW a \in Seq(Steps), NEW b \in Seq(Steps), Planned(a), Planned(b)
    PROVE  a \o b \in Seq(Steps) /\ Planned(a \o b)
<1>1. /\ a \o b \in Seq(Steps) /\ Len(a \o b) = Len(a) + Len(b)
      /\ \A i \in 1..(Len(a) + Len(b)) :
            (a \o b)[i] = IF i <= Len(a) THEN a[i] ELSE b[i - Len(a)]
  BY ConcatProperties
<1>2. SUFFICES ASSUME NEW i \in 1..Len(a \o b)
               PROVE  /\ (a \o b)[i] = "fuse" => kind = "threat"
                      /\ (a \o b)[i] = "recalc" => kind \in {"grc", "knowledge"}
  BY <1>1 DEF Planned
<1>3. Len(a) \in Nat /\ Len(b) \in Nat /\ i \in 1..(Len(a) + Len(b))
  BY <1>1
<1>4. CASE i <= Len(a)
  <2>1. i \in 1..Len(a) /\ (a \o b)[i] = a[i]
    BY <1>1, <1>3, <1>4
  <2> QED
    BY <2>1 DEF Planned
<1>5. CASE ~(i <= Len(a))
  <2>1. i - Len(a) \in 1..Len(b) /\ (a \o b)[i] = b[i - Len(a)]
    BY <1>1, <1>3, <1>5
  <2> QED
    BY <2>1 DEF Planned
<1> QED
  BY <1>4, <1>5

LEMMA Plans ==
    ASSUME kind \in Kinds
    PROVE  /\ PassSteps \in Seq(Steps) /\ Planned(PassSteps)
           /\ BootSteps \in Seq(Steps) /\ Planned(BootSteps)
<1>1. CASE kind = "threat"
  <2>1. /\ PassSteps = <<"sync", "fuse">> /\ BootSteps = <<"sync", "fuse", "warm">>
    BY <1>1 DEF PassSteps, BootSteps, Listed
  <2> QED
    BY <1>1, <2>1 DEF Steps, Planned
<1>2. CASE kind \in {"grc", "knowledge"}
  <2>1. /\ PassSteps = <<"sync", "list">>
        /\ BootSteps = <<"sync", "recalc", "list", "warm">>
    BY <1>2 DEF PassSteps, BootSteps, Listed
  <2>2. PassSteps \in Seq(Steps) /\ BootSteps \in Seq(Steps)
    BY <2>1 DEF Steps
  <2>3. Planned(PassSteps) /\ Planned(BootSteps)
    BY <1>2, <2>1 DEF Planned
  <2> QED
    BY <2>2, <2>3
<1>3. CASE kind = "risk"
  <2>1. /\ PassSteps = <<"sync", "list">> /\ BootSteps = <<"sync", "list", "warm">>
    BY <1>3 DEF PassSteps, BootSteps, Listed
  <2> QED
    BY <2>1 DEF Steps, Planned
<1>4. CASE kind = "node"
  <2>1. /\ PassSteps = <<"sync", "relink">>
        /\ BootSteps = <<"list", "edges", "sync", "relink", "warm">>
    BY <1>4 DEF PassSteps, BootSteps, Listed
  <2>2. PassSteps \in Seq(Steps) /\ BootSteps \in Seq(Steps)
    BY <2>1 DEF Steps
  <2>3. Planned(PassSteps) /\ Planned(BootSteps)
    BY <2>1 DEF Planned
  <2> QED
    BY <2>2, <2>3
<1>5. CASE kind = "edge"
  <2>1. /\ PassSteps = <<"relink">> /\ BootSteps = <<"edges", "relink", "warm">>
    BY <1>5 DEF PassSteps, BootSteps, Listed
  <2> QED
    BY <2>1 DEF Steps, Planned
<1>6. CASE kind \notin {"threat", "grc", "knowledge", "risk", "node", "edge"}
  <2>1. /\ PassSteps = <<"sync">> /\ BootSteps = <<"sync", "warm">>
    BY <1>6 DEF PassSteps, BootSteps, Listed
  <2> QED
    BY <2>1 DEF Steps, Planned
<1> QED
  BY <1>1, <1>2, <1>3, <1>4, <1>5, <1>6

\* The object of a worker's next step.
LEMMA TakesFits ==
    ASSUME RecordsInv, NEW w \in Workers, session[w].todo # <<>>, NEW op \in Ops, NEW pc \in PCs,
           NEW base \in Nat, NEW new \in Row, Takes(w, op, pc, base, new)
    PROVE  \E x \in Session :
              /\ session' = [session EXCEPT ![w] = x]
              /\ x.op = op /\ x.pc = pc /\ x.base = base /\ x.new = new /\ x.amount = 1
              /\ Planned(x.todo)
<1> DEFINE todo == Tail(session[w].todo)
           x == [Idle EXCEPT !.pc = pc, !.op = op, !.amount = 1, !.base = base,
                             !.new = new, !.todo = todo]
<1>1. w \in Sessions /\ session[w] \in Session /\ Planned(session[w].todo)
  BY DEF Sessions, RecordsInv, Fits
<1>2. session[w].todo \in Seq(Steps)
  BY <1>1 DEF Session
<1>3. todo \in Seq(Steps) /\ Planned(todo)
  <2>1. /\ todo \in Seq(Steps) /\ Len(todo) = Len(session[w].todo) - 1
        /\ \A i \in 1..Len(todo) : todo[i] = session[w].todo[i + 1]
    BY <1>2
  <2> QED
    BY <1>1, <1>2, <2>1 DEF Planned
<1>4. /\ x \in Session /\ x.op = op /\ x.pc = pc /\ x.base = base /\ x.new = new
      /\ x.amount = 1 /\ x.todo = todo
  <2>1. 1 \in 0..2 /\ Idle \in Session
    BY IdleType
  <2> HIDE DEF todo
  <2> QED
    BY <1>3, <2>1 DEF Session
<1>5. session' = [session EXCEPT ![w] = x]
  BY DEF Takes
<1> QED
  BY <1>3, <1>4, <1>5

LEMMA SkipsFits ==
    ASSUME RecordsInv, NEW w \in Workers, session[w].todo # <<>>, Skips(w)
    PROVE  \E x \in Session : /\ Fits(x) /\ x.pc \notin {"early", "commit"}
                              /\ session' = [session EXCEPT ![w] = x]
<1>1. PICK x \in Session :
          /\ session' = [session EXCEPT ![w] = x]
          /\ x.op = "none" /\ x.pc = "step" /\ Planned(x.todo)
  <2>1. NoRow \in Row /\ "none" \in Ops /\ "step" \in PCs /\ 0 \in Nat
    BY IdleType DEF Ops, PCs
  <2> QED
    BY <2>1, TakesFits DEF Skips
<1>2. Fits(x)
  BY <1>1 DEF Fits
<1> QED
  BY <1>1, <1>2

LEMMA TakeUpStep ==
    ASSUME RecordsInv, NEW w \in Workers,
           BeginSync(w) \/ RebuildTopology(w) \/ BeginList(w)
    PROVE  RecordsInv'
<1>1. PICK op \in {"sync", "list"}, pc \in {"load", "list"} :
          Takes(w, op, pc, 0, NoRow) /\ session[w].todo # <<>>
  BY DEF BeginSync, RebuildTopology, BeginList, NextIs
<1>2. NoRow \in Row /\ op \in Ops /\ pc \in PCs /\ 0 \in Nat /\ w \in Sessions
  BY IdleType DEF Ops, PCs, Sessions
<1>3. PICK x \in Session : /\ session' = [session EXCEPT ![w] = x]
                           /\ x.op = op /\ x.pc = pc /\ Planned(x.todo)
  BY <1>1, <1>2, TakesFits
<1>4. Fits(x)
  BY <1>3 DEF Fits
<1> QED
  BY <1>2, <1>3, <1>4, SessionStep DEF BeginSync, RebuildTopology, BeginList

LEMMA QuietSkip ==
    ASSUME RecordsInv, NEW w \in Workers, OnlySession,
           (Skips(w) /\ session[w].todo # <<>>) \/ Fails(w)
    PROVE  RecordsInv'
<1>1. w \in Sessions
  BY DEF Sessions
<1> QED
  BY <1>1, SkipsFits, FailsFits, SessionStep

LEMMA RecalculateStep ==
    ASSUME RecordsInv, NEW w \in Workers, Recalculate(w) PROVE RecordsInv'
<1>0. /\ OnlySession /\ session[w].todo # <<>> /\ w \in Sessions
      /\ session[w] \in Session /\ Fits(session[w]) /\ evidence \in Nat
  BY DEF Recalculate, NextIs, Sessions, RecordsInv, Tables
<1>1. CASE Skips(w)
  BY <1>0, <1>1, QuietSkip
<1>2. CASE /\ Exists /\ (kind = "grc" => Current.status = "ACTIVE")
           /\ Takes(w, "recalc", "commit", Len(versions), Recalculated)
  <2>1. kind \in {"grc", "knowledge"}
    <3>1. session[w].todo \in Seq(Steps) /\ Head(session[w].todo) = "recalc"
      BY <1>0 DEF Session, Recalculate, NextIs
    <3>2. 1 \in 1..Len(session[w].todo) /\ session[w].todo[1] = "recalc"
      BY <1>0, <3>1
    <3> QED
      BY <1>0, <3>2 DEF Fits, Planned
  <2>2. Current \in Row /\ RowFits(Current) /\ Len(versions) \in Nat
    BY <1>2, <2>1, CurrentFits DEF Versioned, Cached, Listed
  <2> DEFINE score == IF kind = "grc" THEN Completeness(evidence)
                      ELSE IF Terminal(Current.status) THEN Current.score
                      ELSE IF Current.status = "APPROVED" THEN 1 ELSE 0
  <2>3. score \in 0..3
    BY <1>0, <2>2 DEF Completeness, Row
  <2>4. /\ Recalculated \in Row /\ Recalculated.status = Current.status
        /\ Recalculated.score = score
        /\ Recalculated = [Current EXCEPT !.score = score]
    BY <2>2, <2>3 DEF Recalculated, Row
  <2>5. RowFits(Recalculated)
    BY <2>1, <2>2, <2>4 DEF RowFits, Terminal
  <2>6. Terminal(Current.status) => Recalculated = Current
    <3>1. Terminal(Current.status) => score = Current.score
      BY <1>2, <2>1 DEF Terminal
    <3> QED
      BY <2>2, <2>4, <3>1 DEF Row
  <2>7. "recalc" \in Ops /\ "commit" \in PCs
    BY DEF Ops, PCs
  <2>8. PICK x \in Session :
            /\ session' = [session EXCEPT ![w] = x]
            /\ x.op = "recalc" /\ x.pc = "commit" /\ x.base = Len(versions)
            /\ x.new = Recalculated /\ Planned(x.todo)
    BY <1>0, <1>2, <2>2, <2>4, <2>7, TakesFits
  <2>9. kind = "grc" => x.new.score = Counted(x)
    BY <1>0, <2>4, <2>8 DEF Counted
  <2> HIDE DEF score
  <2> QED
    BY <1>0, <1>2, <2>1, <2>4, <2>5, <2>6, <2>8, <2>9, StageStep
<1> QED
  BY <1>1, <1>2 DEF Recalculate

LEMMA FuseCachedStep ==
    ASSUME RecordsInv, NEW w \in Workers, FuseCached(w) PROVE RecordsInv'
<1>0. /\ OnlySession /\ session[w].todo # <<>> /\ w \in Sessions
      /\ session[w] \in Session /\ Fits(session[w])
  BY DEF FuseCached, NextIs, Sessions, RecordsInv
<1>1. CASE Skips(w) \/ Fails(w)
  BY <1>0, <1>1, QuietSkip
<1>2. CASE /\ Exists /\ ~Terminal(Current.status)
           /\ Takes(w, "fuse", "commit", Len(versions), Fused(1))
  <2>1. kind = "threat"
    <3>1. session[w].todo \in Seq(Steps) /\ Head(session[w].todo) = "fuse"
      BY <1>0 DEF Session, FuseCached, NextIs
    <3>2. 1 \in 1..Len(session[w].todo) /\ session[w].todo[1] = "fuse"
      BY <1>0, <3>1
    <3> QED
      BY <1>0, <3>2 DEF Fits, Planned
  <2>2. /\ Fused(1) \in Row /\ RowFits(Fused(1))
        /\ (Fused(1).status = Current.status \/ Fused(1).status \in Allowed[Current.status])
    BY <1>2, <2>1, FusedFits
  <2>3. "fuse" \in Ops /\ "commit" \in PCs /\ Len(versions) \in Nat
    BY DEF Ops, PCs, RecordsInv, Tables
  <2>4. PICK x \in Session :
            /\ session' = [session EXCEPT ![w] = x]
            /\ x.op = "fuse" /\ x.pc = "commit" /\ x.base = Len(versions)
            /\ x.new = Fused(1) /\ x.amount = 1 /\ Planned(x.todo)
    BY <1>0, <1>2, <2>2, <2>3, TakesFits
  <2>5. /\ w \in Sessions /\ Exists /\ ~Terminal(Current.status) /\ OnlySession
        /\ x.op # "evidence" /\ x.op # "transition" /\ x.pc # "count" /\ x.pc # "early"
        /\ x.pc \in {"early", "commit", "count", "put"} /\ x.amount # 0 /\ kind # "grc"
    BY <1>0, <1>2, <2>1, <2>4
  <2> QED
    BY <2>1, <2>2, <2>4, <2>5, StageStep
<1> QED
  BY <1>1, <1>2 DEF FuseCached

LEMMA LoadEdgesStep ==
    ASSUME RecordsInv, NEW w \in Workers, LoadEdges(w) PROVE RecordsInv'
<1>0. OnlySession /\ session[w].todo # <<>> /\ w \in Sessions
  BY DEF LoadEdges, NextIs, Sessions
<1>1. CASE Skips(w) \/ Fails(w)
  BY <1>0, <1>1, QuietSkip
<1>2. CASE Takes(w, "list", "list", 0, NoRow)
  <2>1. NoRow \in Row /\ "list" \in Ops /\ "list" \in PCs /\ 0 \in Nat
    BY IdleType DEF Ops, PCs
  <2>2. PICK x \in Session : /\ session' = [session EXCEPT ![w] = x]
                             /\ x.op = "list" /\ x.pc = "list" /\ Planned(x.todo)
    BY <1>0, <1>2, <2>1, TakesFits
  <2>3. Fits(x)
    BY <2>2 DEF Fits
  <2> QED
    BY <1>0, <2>2, <2>3, SessionStep
<1> QED
  BY <1>1, <1>2 DEF LoadEdges

\* A worker's idle session, or one at the first step of a pass.
LEMMA IdleFits ==
    ASSUME NEW todo \in Seq(Steps), Planned(todo), NEW pc \in {"idle", "step"}
    PROVE  /\ [Idle EXCEPT !.pc = pc, !.todo = todo] \in Session
           /\ Fits([Idle EXCEPT !.pc = pc, !.todo = todo])
           /\ [Idle EXCEPT !.pc = pc, !.todo = todo].pc = pc
<1> DEFINE x == [Idle EXCEPT !.pc = pc, !.todo = todo]
<1>1. x \in Session /\ x.pc = pc /\ x.op = "none" /\ x.todo = todo
  BY IdleType DEF Idle, Session, PCs
<1>2. Fits(x)
  BY <1>1 DEF Fits
<1> QED
  BY <1>1, <1>2

LEMMA IdleItselfFits == Idle \in Session /\ Fits(Idle) /\ Idle.pc = "idle"
BY IdleType DEF Idle, Fits, Planned

LEMMA PassStep == ASSUME RecordsInv, NEW w \in Workers, Pass(w) PROVE RecordsInv'
<1>0. w \in Sessions /\ w \in Processes /\ w # API /\ kind \in Kinds
  BY RecordsAssumption DEF Sessions, Processes, RecordsInv, Tables
<1>1. CASE StartPass(w)
  <2>1. PICK todo \in Seq(Steps) : Planned(todo) /\ Todo(w, todo)
    <3>1. BootSteps \o PassSteps \in Seq(Steps) /\ Planned(BootSteps \o PassSteps)
      BY <1>0, Plans, JoinedPlans
    <3>2. Todo(w, BootSteps \o PassSteps) \/ Todo(w, PassSteps)
      BY <1>1 DEF StartPass
    <3> QED
      BY <1>0, <3>1, <3>2, Plans
  <2>2. CacheFits'
    <3>1. cache' = [cache EXCEPT ![w] = None] \/ cache' = cache
      BY <1>1 DEF StartPass
    <3>2. versions' = versions
      BY <1>1 DEF StartPass
    <3>3. CASE cache' = cache
      BY <3>2, <3>3 DEF RecordsInv, CacheFits, Exists
    <3>4. CASE cache' = [cache EXCEPT ![w] = None]
      BY <1>0, <3>2, <3>4 DEF RecordsInv, CacheFits, Exists
    <3> QED
      BY <3>1, <3>3, <3>4
  <2>3. RestTypes'
    <3>1. RestTypes /\ MaxPasses \in Nat
      BY RecordsAssumption DEF RecordsInv
    <3>2. passes' \in [Workers -> 0..MaxPasses]
      <4>1. passes[w] \in 0..MaxPasses /\ passes[w] < MaxPasses
            /\ passes' = [passes EXCEPT ![w] = passes[w] + 1]
        BY <1>1, <3>1 DEF StartPass, RestTypes
      <4>2. passes[w] + 1 \in 0..MaxPasses
        BY <3>1, <4>1
      <4> QED
        BY <3>1, <4>1, <4>2 DEF RestTypes
    <3>3. cold' \in [Workers -> BOOLEAN] /\ poisoned' \subseteq Processes
      <4>1. \/ cold' = [cold EXCEPT ![w] = TRUE] /\ poisoned' = poisoned \ {w}
            \/ cold' = cold /\ poisoned' = poisoned
        BY <1>1 DEF StartPass
      <4> QED
        BY <3>1, <4>1 DEF RestTypes
    <3>4. troubles' = troubles /\ relinked' = relinked
      BY <1>1 DEF StartPass
    <3> QED
      BY <3>1, <3>2, <3>3, <3>4 DEF RestTypes
  <2>4. "step" \in {"idle", "step"}
    OBVIOUS
  <2>5. PICK x \in Session : /\ Fits(x) /\ x.pc = "step"
                             /\ session' = [session EXCEPT ![w] = x]
    BY <2>1, <2>4, IdleFits DEF Todo
  <2> QED
    BY <1>0, <1>1, <2>2, <2>3, <2>5, QuietStep DEF StartPass
<1>2. CASE Relink(w)
  <2>1. PICK x \in Session : /\ Fits(x) /\ x.pc \notin {"early", "commit"}
                             /\ session' = [session EXCEPT ![w] = x]
    BY <1>2, SkipsFits DEF Relink, NextIs
  <2>2. CacheFits'
    BY <1>0, <1>2 DEF Relink, RecordsInv, CacheFits, Exists
  <2>3. RestTypes'
    BY <1>2 DEF Relink, RecordsInv, RestTypes
  <2> QED
    BY <1>0, <1>2, <2>1, <2>2, <2>3, QuietStep DEF Relink
<1>3. CASE Warm(w)
  <2>1. PICK x \in Session : /\ Fits(x) /\ x.pc \notin {"early", "commit"}
                             /\ session' = [session EXCEPT ![w] = x]
    BY <1>3, SkipsFits DEF Warm, NextIs
  <2>2. CacheFits'
    BY <1>3 DEF Warm, RecordsInv, CacheFits, Exists
  <2>3. RestTypes'
    BY <1>3 DEF Warm, RecordsInv, RestTypes
  <2> QED
    BY <1>0, <1>3, <2>1, <2>2, <2>3, QuietStep DEF Warm
<1>4. CASE EndPass(w)
  BY <1>0, <1>4, IdleItselfFits, SessionStep DEF EndPass
<1>5. CASE RestartWorker(w)
  <2>1. CacheFits'
    BY <1>0, <1>5 DEF RestartWorker, RecordsInv, CacheFits, Exists
  <2>2. RestTypes'
    BY <1>5, RecordsAssumption DEF RestartWorker, RecordsInv, RestTypes
  <2> QED
    BY <1>0, <1>5, <2>1, <2>2, IdleItselfFits, QuietStep DEF RestartWorker
<1> QED
  BY <1>1, <1>2, <1>3, <1>4, <1>5, TakeUpStep, RecalculateStep, FuseCachedStep,
     LoadEdgesStep DEF Pass

-----------------------------------------------------------------------------
(* Commits.                                                                 *)

LEMMA RollbackStep ==
    ASSUME RecordsInv, NEW s \in Sessions, CommitConflicts(s) \/ CommitFails(s)
    PROVE  RecordsInv'
<1>1. Rollback(s) /\ (troubles' = troubles \/ (troubles < MaxTroubles /\ troubles' = troubles + 1))
  BY DEF CommitConflicts, CommitFails
<1>2. PICK x \in Session : /\ Fits(x) /\ x.pc \notin {"early", "commit"}
                           /\ session' = [session EXCEPT ![s] = x]
  BY <1>1, FailsFits DEF Rollback
<1>3. CacheFits'
  <2>1. cache' = cache \/ (s \in Workers /\ cache' = [cache EXCEPT ![s] = Broken])
    BY <1>1 DEF Rollback
  <2>2. versions' = versions
    BY <1>1 DEF Rollback
  <2>3. CASE cache' = cache
    BY <2>2, <2>3 DEF RecordsInv, CacheFits, Exists
  <2>4. CASE s \in Workers /\ cache' = [cache EXCEPT ![s] = Broken]
    BY <2>2, <2>4, RecordsAssumption DEF RecordsInv, CacheFits, Exists, Processes
  <2> QED
    BY <2>1, <2>3, <2>4
<1>4. RestTypes'
  <2>1. RestTypes /\ MaxTroubles \in Nat
    BY RecordsAssumption DEF RecordsInv
  <2>2. troubles' \in 0..MaxTroubles
    BY <1>1, <2>1 DEF RestTypes
  <2>3. poisoned' \subseteq Processes
    BY <1>1, <2>1 DEF Rollback, RestTypes, Processes
  <2>4. cold' = cold /\ passes' = passes /\ relinked' = relinked
    BY <1>1 DEF Rollback
  <2> QED
    BY <2>1, <2>2, <2>3, <2>4 DEF RestTypes
<1>5. UNCHANGED <<kind, versions, log, evidence, gaps>>
  BY <1>1 DEF Rollback
<1> QED
  BY <1>2, <1>3, <1>4, <1>5, QuietStep

\* What the session that commits has in its hands.
LEMMA InHand ==
    ASSUME RecordsInv, NEW s \in Sessions, Commit(s)
    PROVE  /\ session[s] \in Session /\ session[s].pc = "commit" /\ Fits(session[s])
           /\ session[s].base = 0 => /\ ~Exists /\ session[s].op # "evidence"
                                     /\ session[s].new = NewRow(session[s].amount, session[s].tags)
           /\ session[s].base # 0 => Holds(session[s]) /\ Exists
           /\ session[s].base # 0 /\ Changed(s) /\ Versioned =>
                 session[s].base = Len(versions) /\ Was(s) = Current
<1>1. session[s] \in Session /\ session[s].pc = "commit" /\ Fits(session[s])
  BY DEF RecordsInv, Commit, At
<1>2. session[s].base = 0 => ~Exists
  BY <1>1 DEF RecordsInv, OneKey, HoldsKey, At
<1>3. session[s].base = 0 => /\ session[s].op # "evidence"
                            /\ session[s].new = NewRow(session[s].amount, session[s].tags)
  BY <1>1 DEF Fits
<1>4. session[s].base # 0 => Holds(session[s])
  BY <1>1 DEF Fits
<1>5. session[s].base # 0 => Exists
  BY <1>4 DEF Holds, Exists
<1>6. session[s].base # 0 /\ Changed(s) /\ Versioned => session[s].base = Len(versions)
  BY DEF Commit, Conflict
<1> QED
  BY <1>1, <1>2, <1>3, <1>4, <1>5, <1>6 DEF Was, Current

\* A terminal record is not written.
LEMMA TerminalUnchanged ==
    ASSUME RecordsInv, NEW s \in Sessions, Commit(s), Versioned, Exists,
           Terminal(Current.status)
    PROVE  ~Changed(s)
<1>1. session[s].base # 0
  BY InHand
<1>2. SUFFICES ASSUME Changed(s) PROVE FALSE
  OBVIOUS
<1>3. Was(s) = Current /\ Holds(session[s])
  BY <1>1, <1>2, InHand
<1>4. session[s].new = Was(s) /\ session[s].op # "evidence"
  BY <1>3 DEF Holds, Was
<1> QED
  BY <1>1, <1>2, <1>4 DEF Changed

\* The first version.
LEMMA CommitNew ==
    ASSUME RecordsInv, NEW s \in Sessions, Commit(s), session[s].base = 0
    PROVE  Tables' /\ Exists' /\ Len(versions') = Len(versions) + 1
<1> DEFINE row == session[s].new
           version == [row |-> row, by |-> Process(s)]
<1>1. /\ session[s] \in Session /\ ~Exists /\ session[s].op # "evidence"
      /\ row = NewRow(session[s].amount, session[s].tags)
      /\ Tables
  BY InHand DEF RecordsInv
<1>2. /\ row \in Row /\ row.status = FirstStatus
      /\ kind \notin {"risk", "edge"} => row.score = 0
      /\ FirstStatus \in Statuses /\ FirstStatus \in Life
  BY <1>1, NewRowType, FirstTypes DEF Session, Tables
<1>3. /\ versions = <<>> /\ log = <<>> /\ evidence = 0 /\ gaps = 0
      /\ kind \in Kinds
  BY <1>1 DEF Tables, TablesAgree, HistoryTellsStatus, Exists
<1>4. /\ versions' = Append(versions, version) /\ log' = log \o <<Created>>
      /\ evidence' = evidence + 0 /\ gaps' = gaps + 0 /\ kind' = kind
  BY <1>1 DEF Commit, Changed, Written, Logged
<1>5. version \in Version /\ version.row = row
  BY <1>2, RecordsAssumption DEF Version, Process, Processes, Sessions
<1>6. versions' = <<version>> /\ versions' \in Seq(Version)
  BY <1>3, <1>4, <1>5
<1>7. log' = <<Created>> /\ Created = Change("absent", FirstStatus)
  BY <1>3, <1>4 DEF Created
<1>8. Len(versions') = 1 /\ versions'[1] = version /\ Exists' /\ Current' = row
  BY <1>5, <1>6 DEF Exists, Current
<1>9. Created' = Created /\ Versioned' = Versioned /\ Life' = Life /\ FirstStatus' = FirstStatus
  BY <1>4 DEF Created, FirstStatus, Versioned, Life, Targets
<1>10. InLife'
  BY <1>2, <1>5, <1>6, <1>9 DEF InLife
<1>11. HistoryTellsStatus'
  <2>1. Len(log') = 1 /\ log'[1] = Created /\ log' # <<>> /\ Created.new = FirstStatus
    BY <1>7 DEF Change
  <2> QED
    BY <1>2, <1>8, <1>9, <2>1 DEF HistoryTellsStatus
<1>12. ScoreFits'
  <2>1. evidence' = 0 /\ gaps' = 0 /\ Completeness(evidence') = 0
    BY <1>3, <1>4 DEF Completeness
  <2>2. kind \in {"knowledge", "threat"} => FirstStatus = "ACTIVE"
    BY DEF FirstStatus
  <2>3. kind \in {"grc", "knowledge", "threat"} => row.score = 0
    BY <1>2
  <2> HIDE DEF row
  <2> QED
    BY <1>2, <1>4, <1>8, <2>1, <2>2, <2>3 DEF ScoreFits
<1>13. log' \in Seq([old: Statuses \cup {"absent"}, new: Statuses])
  <2>1. Created \in [old: Statuses \cup {"absent"}, new: Statuses]
    BY <1>2 DEF Created, Change
  <2> QED
    BY <1>7, <2>1
<1>14. evidence' \in Nat /\ gaps' \in Nat /\ kind' \in Kinds
  BY <1>3, <1>4
<1> QED
  BY <1>3, <1>6, <1>8, <1>10, <1>11, <1>12, <1>13, <1>14 DEF Tables, TablesAgree

\* A later version: the session wrote what it had read last, or the rows of
\* its kind carry no version.
LEMMA CommitChange ==
    ASSUME RecordsInv, NEW s \in Sessions, Commit(s), session[s].base # 0, Changed(s)
    PROVE  Tables' /\ Exists' /\ Len(versions') = Len(versions) + 1
<1> DEFINE new == session[s].new
           was == Was(s)
           row == Written(s)
           more == IF session[s].op = "evidence" THEN 1 ELSE 0
           gap == IF session[s].op = "evidence" /\ new.score = 1 THEN 1 ELSE 0
           version == [row |-> row, by |-> Process(s)]
           Changes == [old: Statuses \cup {"absent"}, new: Statuses]
<1>1. /\ session[s] \in Session /\ Fits(session[s]) /\ Exists /\ Tables
      /\ Holds(session[s]) /\ new \in Row
      /\ Versioned => session[s].base = Len(versions) /\ was = Current
  BY InHand DEF RecordsInv, Session
<1>2. /\ kind \in Kinds /\ versions \in Seq(Version) /\ evidence \in Nat /\ gaps \in Nat
      /\ log \in Seq(Changes) /\ InLife /\ HistoryTellsStatus /\ ScoreFits
  BY <1>1 DEF Tables, TablesAgree
<1>3. Current \in Row /\ was \in Row
  <2>1. session[s].base \in 1..Len(versions)
    BY <1>1 DEF Holds
  <2>2. versions[session[s].base] \in Version
    BY <1>2, <2>1
  <2> QED
    BY <1>1, <2>2, CurrentFits DEF Was, Version
<1>4. /\ row \in Row
      /\ Versioned => row.status = new.status /\ row.score = new.score
  BY <1>1, <1>3 DEF Written, Row
<1>5. /\ versions' = Append(versions, version) /\ log' = log \o Logged(s)
      /\ evidence' = evidence + more /\ gaps' = gaps + gap /\ kind' = kind
  BY DEF Commit
<1>6. version \in Version /\ version.row = row
  BY <1>4, RecordsAssumption DEF Version, Process, Processes, Sessions
<1>7. /\ versions' \in Seq(Version) /\ Len(versions') = Len(versions) + 1
      /\ versions'[Len(versions')] = version
      /\ \A n \in 1..Len(versions) : versions'[n] = versions[n]
  <2> HIDE DEF version
  <2> QED
    BY <1>2, <1>5, <1>6
<1>8. Exists' /\ Current' = row
  BY <1>2, <1>6, <1>7 DEF Exists, Current
<1>9. /\ Created' = Created /\ Versioned' = Versioned /\ Life' = Life
      /\ FirstStatus' = FirstStatus /\ Allowed' = Allowed
  BY <1>5 DEF Created, FirstStatus, Versioned, Life, Targets, Allowed
<1>10. Versioned => /\ ~Terminal(was.status)
                    /\ new.status # was.status => new.status \in Allowed[was.status]
  <2>1. Versioned => ~Terminal(Current.status)
    BY <1>1, TerminalUnchanged
  <2> QED
    BY <1>1, <2>1 DEF Holds, Was
<1>11. Versioned => row.status \in Life
  <2>1. SUFFICES ASSUME Versioned PROVE new.status \in Life
    BY <1>4
  <2>2. was = Current /\ Current.status \in Statuses /\ Current.status \in Life
    BY <1>1, <1>3, <2>1, CurrentFits DEF Row
  <2>3. Allowed[Current.status] \subseteq Life
    BY <1>2, <2>1, <2>2, AllowedTypes
  <2> HIDE DEF new, was, row
  <2> QED
    BY <1>10, <2>1, <2>2, <2>3
<1>12. InLife'
  <2>1. DOMAIN versions = 1..Len(versions) /\ DOMAIN versions' = 1..(Len(versions) + 1)
        /\ Len(versions) \in Nat
    BY <1>2, <1>7
  <2> HIDE DEF version, row
  <2> QED
    BY <1>2, <1>6, <1>7, <1>9, <1>11, <2>1 DEF InLife
<1>13. /\ log' \in Seq(Changes)
       /\ new.status = was.status => log' = log
       /\ new.status # was.status => log' = Append(log, Change(was.status, new.status))
  <2>1. Change(was.status, new.status) \in Changes
    BY <1>1, <1>3 DEF Change, Row
  <2>2. CASE new.status = was.status
    <3>1. log' = log \o <<>>
      BY <1>5, <2>2 DEF Logged
    <3> HIDE DEF Changes
    <3> QED
      BY <1>2, <2>2, <3>1
  <2>3. CASE new.status # was.status
    <3>1. log' = log \o <<Change(was.status, new.status)>>
      BY <1>5, <2>3 DEF Logged
    <3> HIDE DEF Changes, new, was
    <3> QED
      BY <1>2, <2>1, <2>3, <3>1
  <2> QED
    BY <2>2, <2>3
<1>14. HistoryTellsStatus'
  <2>1. SUFFICES ASSUME Versioned
                 PROVE  /\ log' # <<>> /\ log'[Len(log')].new = row.status
                        /\ log'[1] = Created
                        /\ \A i \in 2..Len(log') : /\ log'[i].old = log'[i - 1].new
                                                   /\ log'[i].new \in Allowed[log'[i].old]
    BY <1>8, <1>9 DEF HistoryTellsStatus
  <2>2. /\ log # <<>> /\ log[Len(log)].new = was.status
        /\ log[1] = Created /\ Len(log) \in Nat /\ Len(log) # 0
        /\ \A i \in 2..Len(log) : /\ log[i].old = log[i - 1].new
                                  /\ log[i].new \in Allowed[log[i].old]
    BY <1>1, <1>2, <2>1 DEF HistoryTellsStatus
  <2>3. CASE new.status = was.status
    BY <1>4, <1>13, <2>1, <2>2, <2>3
  <2>4. CASE new.status # was.status
    <3> DEFINE last == Change(was.status, new.status)
    <3>1. /\ Len(log') = Len(log) + 1 /\ log'[Len(log) + 1] = last
          /\ \A i \in 1..Len(log) : log'[i] = log[i]
      <4>1. log' = Append(log, last) /\ log \in Seq(Changes)
        BY <1>2, <1>13, <2>4
      <4> HIDE DEF last, Changes
      <4> QED
        BY <4>1
    <3>2. last.old = was.status /\ last.new = new.status
      BY DEF Change
    <3>3. new.status \in Allowed[was.status]
      BY <1>10, <2>1, <2>4
    <3>4. log' # <<>> /\ log'[Len(log')].new = row.status /\ log'[1] = Created
      BY <1>4, <2>1, <2>2, <3>1, <3>2
    <3>5. ASSUME NEW i \in 2..Len(log')
          PROVE  /\ log'[i].old = log'[i - 1].new
                 /\ log'[i].new \in Allowed[log'[i].old]
      <4>1. CASE i \in 2..Len(log)
        <5>1. i \in 1..Len(log) /\ i - 1 \in 1..Len(log)
          BY <2>2, <4>1
        <5> QED
          BY <2>2, <3>1, <4>1, <5>1
      <4>2. CASE i = Len(log) + 1
        <5>1. Len(log) \in 1..Len(log) /\ i - 1 = Len(log)
          BY <2>2, <4>2
        <5> QED
          BY <2>2, <3>1, <3>2, <3>3, <4>2, <5>1
      <4> QED
        BY <2>2, <3>1, <4>1, <4>2
    <3> HIDE DEF last, new, row, was
    <3> QED
      BY <3>4, <3>5
  <2> QED
    BY <2>3, <2>4
<1>15. ScoreFits'
  <2>1. kind = "grc" => /\ row.score = Completeness(evidence')
                        /\ gaps' = IF evidence' = 0 THEN 0 ELSE 1
    <3>1. SUFFICES ASSUME kind = "grc"
                   PROVE  /\ row.score = Completeness(evidence')
                          /\ gaps' = IF evidence' = 0 THEN 0 ELSE 1
      OBVIOUS
    <3>2. Versioned
      BY <3>1 DEF Versioned, Cached, Listed
    <3>3. new.score = Completeness(evidence + more)
      BY <1>1, <3>1, <3>2, InHand DEF Holds, Counted
    <3>4. gaps = IF evidence = 0 THEN 0 ELSE 1
      BY <1>1, <1>2, <3>1 DEF ScoreFits
    <3>5. gaps' = IF evidence' = 0 THEN 0 ELSE 1
      BY <1>2, <1>5, <3>3, <3>4 DEF Completeness
    <3> QED
      BY <1>4, <1>5, <3>2, <3>3, <3>5
  <2>2. kind \in {"knowledge", "threat"} => RowFits(row)
    <3>1. kind \in {"knowledge", "threat"} => Versioned
      BY DEF Versioned, Cached, Listed
    <3>2. kind \in {"knowledge", "threat"} => RowFits(new)
      BY <1>1, <3>1 DEF Holds
    <3> HIDE DEF row, new
    <3> QED
      BY <1>4, <3>1, <3>2 DEF RowFits
  <2> HIDE DEF row
  <2> QED
    BY <1>5, <1>8, <2>1, <2>2 DEF ScoreFits, RowFits
<1>16. evidence' \in Nat /\ gaps' \in Nat /\ kind' \in Kinds
  BY <1>2, <1>5
<1> HIDE DEF new, was, row, more, gap, version
<1> QED
  BY <1>7, <1>8, <1>12, <1>13, <1>14, <1>15, <1>16 DEF Tables, TablesAgree

LEMMA CommitStep == ASSUME RecordsInv, NEW s \in Sessions, Commit(s) PROVE RecordsInv'
<1> DEFINE pc == IF kind \in Cached THEN "put" ELSE After(s)
           base == IF Changed(s) THEN Len(versions) + 1 ELSE session[s].base
           x == [session[s] EXCEPT !.pc = pc, !.base = base]
<1>1. /\ session[s] \in Session /\ Fits(session[s]) /\ Len(versions) \in Nat
      /\ session[s].pc = "commit"
      /\ UNCHANGED <<kind, cache, cold, passes, troubles, poisoned, relinked>>
  <2>1. Len(versions) \in Nat
    BY DEF RecordsInv, Tables
  <2>2. UNCHANGED <<kind, cache, cold, passes, troubles, poisoned, relinked>>
    BY DEF Commit
  <2> QED
    BY <2>1, <2>2, InHand
<1>2. pc \in PCs /\ pc \in {"put", "step", "done"} /\ base \in Nat
  BY <1>1 DEF After, PCs, Session
<1>3. /\ x \in Session /\ x.pc = pc /\ x.base = base /\ x.op = session[s].op
      /\ x.to = session[s].to /\ x.amount = session[s].amount /\ x.todo = session[s].todo
  BY <1>1, <1>2 DEF Session
<1>4. session' = [session EXCEPT ![s] = x]
  BY <1>1 DEF Commit, RecordsInv
<1> HIDE DEF pc, base, x
<1>5. CASE ~Changed(s)
  <2>1. UNCHANGED <<versions, log, evidence, gaps>>
    BY <1>5 DEF Commit
  <2>2. Exists
    BY <1>5, InHand DEF Changed
  <2>3. Fits(x)
    BY <1>1, <1>2, <1>3, <2>2 DEF Fits
  <2>4. CacheFits' /\ RestTypes'
    BY <1>1, <2>1 DEF RecordsInv, CacheFits, RestTypes, Exists
  <2> QED
    BY <1>1, <1>2, <1>3, <1>4, <2>1, <2>3, <2>4, QuietStep
<1>6. CASE Changed(s)
  <2> PICK y \in Session : y = x
    BY <1>3
  <2>1. Tables' /\ Exists' /\ Len(versions') = Len(versions) + 1
    BY <1>6, CommitNew, CommitChange
  <2>2. \A n \in 1..Len(versions) : versions'[n] = versions[n]
    <3>1. versions \in Seq(Version)
      BY DEF RecordsInv, Tables
    <3>2. versions' = Append(versions, [row |-> Written(s), by |-> Process(s)])
      BY <1>6 DEF Commit
    <3> QED
      BY <3>1, <3>2
  <2>3. CacheFits' /\ RestTypes'
    BY <1>1, <2>1 DEF RecordsInv, CacheFits, RestTypes
  <2>4. session' \in [Sessions -> Session]
    BY <1>4 DEF RecordsInv
  <2>5. \A t \in Sessions : session'[t] = IF t = s THEN y ELSE session[t]
    BY <1>4 DEF RecordsInv
  <2>6. /\ Targets' = Targets /\ Versioned' = Versioned /\ Allowed' = Allowed
        /\ \A st : Terminal(st)' <=> Terminal(st)
        /\ \A row : RowFits(row)' <=> RowFits(row)
        /\ \A todo : Planned(todo)' <=> Planned(todo)
        /\ \A amount, tags : NewRow(amount, tags)' = NewRow(amount, tags)
    BY <1>1 DEF Targets, Versioned, Allowed, Terminal, RowFits, Planned, NewRow, FirstStatus
  <2>7. \A z \in Session : Holds(z) => Holds(z)'
    <3>1. SUFFICES ASSUME NEW z \in Session, Holds(z) PROVE Holds(z)'
      OBVIOUS
    <3>2. /\ z.base \in 1..Len(versions) /\ z.base \in 1..Len(versions')
          /\ z.base # Len(versions') /\ versions'[z.base] = versions[z.base]
      BY <1>1, <2>1, <2>2, <3>1 DEF Holds
    <3> QED
      BY <1>1, <2>6, <3>1, <3>2 DEF Holds
  <2>8. \A z \in Session : Fits(z) => Fits(z)'
    BY <1>1, <2>1, <2>6, <2>7 DEF Fits, Planned
  <2>9. Fits(y)'
    BY <1>1, <1>2, <1>3, <2>1, <2>6 DEF Fits, Planned
  <2>10. \A t \in Sessions : Fits(session[t])'
    BY <2>5, <2>8, <2>9 DEF RecordsInv
  <2>11. \A t \in Sessions : ~HoldsKey(t)'
    <3>1. \A t \in Sessions : HoldsKey(t) => t = s
      BY <1>1, InHand DEF RecordsInv, OneKey, HoldsKey, At
    <3>2. \A t \in Sessions : HoldsKey(t)' => HoldsKey(t) /\ t # s
      BY <1>2, <1>3, <2>5 DEF HoldsKey, At
    <3> QED
      BY <3>1, <3>2
  <2>12. \A t \in Sessions : At(t, "early")' => t \in Workers
    BY <1>2, <1>3, <2>5 DEF At, RecordsInv
  <2> QED
    BY <2>1, <2>3, <2>4, <2>10, <2>11, <2>12 DEF RecordsInv, OneKey
<1> QED
  BY <1>5, <1>6

-----------------------------------------------------------------------------
(* Every step keeps the invariant.                                          *)

LEMMA RestartApiStep == ASSUME RecordsInv, RestartApi PROVE RecordsInv'
<1>1. Tables' /\ Exists' = Exists /\ \A y \in Session : Fits(y) => Fits(y)'
  BY TablesKept DEF RestartApi
<1>2. CacheFits'
  <2>1. CacheFits /\ cache' = [cache EXCEPT ![API] = None] /\ versions' = versions
        /\ API \in Processes
    BY DEF RestartApi, RecordsInv, Processes
  <2> QED
    BY <2>1 DEF CacheFits, Exists
<1>3. RestTypes'
  <2>1. RestTypes /\ MaxTroubles \in Nat
    BY RecordsAssumption DEF RecordsInv
  <2>2. troubles' \in 0..MaxTroubles
    BY <2>1 DEF RestartApi, RestTypes
  <2> QED
    BY <2>1, <2>2 DEF RestartApi, RestTypes
<1>4. \A s \in Sessions : /\ session[s] \in Session /\ Fits(session[s])
                         /\ [session[s] EXCEPT !.pc = "failed"] \in Session
                         /\ Fits([session[s] EXCEPT !.pc = "failed"])
  <2>1. "failed" \in Resting
    BY DEF Resting
  <2> QED
    BY <2>1, RestingFits DEF RecordsInv
<1>5. \A s \in Sessions : \/ session'[s] = session[s]
                         \/ session'[s] = [session[s] EXCEPT !.pc = "failed"]
  BY DEF RestartApi
<1>6. session' \in [Sessions -> Session]
  BY <1>4 DEF RestartApi
<1>8. \A s \in Sessions : Fits(session[s])'
  BY <1>1, <1>4, <1>5
<1>9. OneKey'
  <2>1. \A s \in Sessions : HoldsKey(s)' => HoldsKey(s)
    BY <1>4, <1>5 DEF HoldsKey, At, Session
  <2> QED
    BY <1>1, <2>1 DEF RecordsInv, OneKey
<1>10. \A s \in Sessions : At(s, "early")' => s \in Workers
  BY <1>4, <1>5 DEF At, RecordsInv, Session
<1> QED
  BY <1>1, <1>2, <1>3, <1>6, <1>8, <1>9, <1>10 DEF RecordsInv

LEMMA FinishStep == ASSUME RecordsInv, NEW s \in Sessions, Finish(s) PROVE RecordsInv'
BY ListRowsStep, CacheSteps, CommitStep, RollbackStep DEF Finish

LEMMA StutterStep == ASSUME RecordsInv, UNCHANGED recordVars PROVE RecordsInv'
<1>1. Tables' /\ Exists' = Exists /\ \A y \in Session : Fits(y) => Fits(y)'
  BY TablesKept DEF recordVars
<1>2. CacheFits' /\ RestTypes'
  BY <1>1 DEF RecordsInv, recordVars, CacheFits, RestTypes
<1>3. session' = session
  BY DEF recordVars
<1>4. /\ session' \in [Sessions -> Session]
      /\ \A s \in Sessions : Fits(session[s])'
      /\ \A s \in Sessions : At(s, "early")' => s \in Workers
  BY <1>1, <1>3 DEF RecordsInv, At
<1>5. OneKey'
  BY <1>1, <1>3 DEF RecordsInv, OneKey, HoldsKey, At
<1> QED
  BY <1>1, <1>2, <1>4, <1>5 DEF RecordsInv

LEMMA NextStep == ASSUME RecordsInv, [RecordsNext]_recordVars PROVE RecordsInv'
<1>1. CASE \E q \in Requests : Ask(q) \/ Look(q) \/ Move(q)
  BY <1>1, AskStep, LookStep, MoveStep
<1>2. CASE \E s \in Sessions : Sync(s) \/ Finish(s)
  BY <1>2, SyncStep, FinishStep
<1>3. CASE \E w \in Workers : Pass(w)
  BY <1>3, PassStep
<1> QED
  BY <1>1, <1>2, <1>3, RestartApiStep, StutterStep DEF RecordsNext

-----------------------------------------------------------------------------
(* The initial states.                                                      *)

LEMMA FirstRowType ==
    ASSUME kind \in Kinds
    PROVE  /\ NewRow(1, FALSE) \in Row /\ NewRow(1, FALSE).status = FirstStatus
           /\ kind \notin {"risk", "edge"} => NewRow(1, FALSE).score = 0
<1>1. 1 \in 0..2 /\ FALSE \in BOOLEAN
  OBVIOUS
<1> QED
  BY <1>1, NewRowType

LEMMA StartRows ==
    ASSUME kind \in Kinds, NEW st \in Statuses
    PROVE  /\ StartRow(st) \in Row /\ StartRow(st).status = st
           /\ kind = "grc" => StartRow(st).score = 0
           /\ kind = "knowledge" => StartRow(st).score = IF st = "APPROVED" THEN 1 ELSE 0
           /\ kind = "threat" /\ st = "FUSED" => StartRow(st).score = 1
<1> DEFINE new == NewRow(1, FALSE)
           score == IF (kind = "knowledge" /\ st = "APPROVED") \/ (kind = "threat" /\ st = "FUSED")
                    THEN 1 ELSE new.score
<1>1. new \in Row /\ (kind \notin {"risk", "edge"} => new.score = 0)
  BY FirstRowType
<1>2. score \in 0..3
  <2> HIDE DEF new
  <2> QED
    BY <1>1 DEF Row
<1>3. StartRow(st) = [new EXCEPT !.status = st, !.score = score]
  BY <1>1 DEF StartRow, Row
<1>4. StartRow(st) \in Row /\ StartRow(st).status = st /\ StartRow(st).score = score
  <2> HIDE DEF new, score
  <2> QED
    BY <1>1, <1>2, <1>3 DEF Row
<1> QED
  BY <1>1, <1>4

LEMMA FreshType ==
    ASSUME kind \in Kinds
    PROVE  Fresh \in Version /\ Fresh.row = NewRow(1, FALSE)
<1>1. (CHOOSE w \in Workers : TRUE) \in Workers
  BY RecordsAssumption
<1>2. NewRow(1, FALSE) \in Row
  BY FirstRowType
<1> QED
  BY <1>1, <1>2 DEF Fresh, Version, Processes

LEMMA InitTables == ASSUME RecordsInit PROVE Tables
<1> DEFINE Changes == [old: Statuses \cup {"absent"}, new: Statuses]
<1>1. kind \in Kinds /\ evidence = 0 /\ gaps = 0
  BY DEF RecordsInit
<1>2. /\ FirstStatus \in Statuses /\ FirstStatus \in Life
      /\ Created \in Changes /\ Created.new = FirstStatus
  BY <1>1, FirstTypes DEF Created, Change
<1>3. /\ Fresh \in Version /\ Fresh.row.status = FirstStatus
      /\ kind \notin {"risk", "edge"} => Fresh.row.score = 0
  BY <1>1, FreshType, FirstRowType
<1>4. Completeness(0) = 0 /\ (kind \in {"knowledge", "threat"} => FirstStatus = "ACTIVE")
  BY DEF Completeness, FirstStatus
<1>5. CASE versions = <<>> /\ log = <<>>
  <2>1. versions \in Seq(Version) /\ log \in Seq(Changes) /\ ~Exists /\ DOMAIN versions = {}
    BY <1>5 DEF Exists
  <2>2. TablesAgree
    BY <1>5, <2>1 DEF TablesAgree, HistoryTellsStatus, ScoreFits
  <2> QED
    BY <1>1, <2>1, <2>2 DEF Tables, InLife
<1>6. CASE versions = <<Fresh>> /\ log = <<Created>>
  <2>1. /\ versions \in Seq(Version) /\ Len(versions) = 1 /\ DOMAIN versions = {1}
        /\ versions[1] = Fresh
    BY <1>3, <1>6
  <2>2. log \in Seq(Changes) /\ Len(log) = 1 /\ log[1] = Created /\ log # <<>>
    BY <1>2, <1>6
  <2>3. Exists /\ Current = Fresh.row
    BY <2>1 DEF Exists, Current
  <2>4. HistoryTellsStatus
    BY <1>2, <1>3, <2>2, <2>3 DEF HistoryTellsStatus
  <2>5. ScoreFits
    BY <1>1, <1>3, <1>4, <2>3 DEF ScoreFits
  <2>6. InLife
    BY <1>2, <1>3, <2>1 DEF InLife
  <2> QED
    BY <1>1, <2>1, <2>2, <2>3, <2>4, <2>5, <2>6 DEF Tables, TablesAgree
<1>7. ASSUME NEW st \in Allowed[FirstStatus], versions = <<Fresh, Moved(st)>>,
             log = <<Created, Change(FirstStatus, st)>>
      PROVE  Tables
  <2>1. st \in Statuses /\ (Versioned => st \in Life)
    BY <1>1, <1>2, AllowedTypes
  <2>2. Moved(st) \in Version /\ Moved(st).row = StartRow(st)
    BY <1>1, <2>1, StartRows DEF Moved, Version, Processes
  <2>3. /\ versions \in Seq(Version) /\ Len(versions) = 2 /\ DOMAIN versions = {1, 2}
        /\ versions[1] = Fresh /\ versions[2] = Moved(st)
    BY <1>3, <1>7, <2>2
  <2>4. Change(FirstStatus, st) \in Changes /\ Change(FirstStatus, st).old = FirstStatus
        /\ Change(FirstStatus, st).new = st
    BY <1>2, <2>1 DEF Change
  <2>5. log \in Seq(Changes) /\ Len(log) = 2 /\ log[1] = Created /\ log # <<>>
        /\ log[2] = Change(FirstStatus, st)
    BY <1>2, <1>7, <2>4
  <2>6. Exists /\ Current = StartRow(st)
    <3>1. versions # <<>>
      BY <1>7
    <3>2. versions[Len(versions)].row = StartRow(st)
      BY <2>2, <2>3
    <3> QED
      BY <3>1, <3>2 DEF Exists, Current
  <2>7. HistoryTellsStatus
    <3>1. \A i \in 2..Len(log) : i = 2
      BY <2>5
    <3>2. log[Len(log)].new = Current.status
      BY <1>1, <2>1, <2>4, <2>5, <2>6, StartRows
    <3>3. log[2].old = log[2 - 1].new /\ log[2].new \in Allowed[log[2].old]
      BY <1>2, <1>7, <2>4, <2>5
    <3> QED
      BY <2>5, <2>6, <3>1, <3>2, <3>3 DEF HistoryTellsStatus
  <2>8. ScoreFits
    BY <1>1, <1>4, <2>1, <2>6, StartRows DEF ScoreFits
  <2>9. InLife
    BY <1>1, <1>2, <1>3, <2>1, <2>2, <2>3, StartRows DEF InLife
  <2> QED
    BY <1>1, <2>3, <2>5, <2>6, <2>7, <2>8, <2>9 DEF Tables, TablesAgree
<1> QED
  BY <1>5, <1>6, <1>7 DEF RecordsInit

LEMMA InitInv == ASSUME RecordsInit PROVE RecordsInv
<1>1. Tables
  BY InitTables
<1>2. CacheFits
  <2>1. ASSUME Exists
        PROVE  [row |-> Current, version |-> Len(versions)] \in Entry
    BY <1>1, <2>1, CurrentType DEF Tables, Entry
  <2>2. API \in Processes
    BY DEF Processes
  <2> QED
    BY <2>1, <2>2 DEF RecordsInit, CacheFits
<1>3. RestTypes
  BY RecordsAssumption DEF RecordsInit, RestTypes
<1>4. /\ session \in [Sessions -> Session]
      /\ \A s \in Sessions : session[s] = Idle /\ Fits(session[s])
  BY IdleItselfFits DEF RecordsInit
<1>5. OneKey /\ \A s \in Sessions : ~At(s, "early")
  BY <1>4, IdleItselfFits DEF OneKey, HoldsKey, At
<1> QED
  BY <1>1, <1>2, <1>3, <1>4, <1>5 DEF RecordsInv

-----------------------------------------------------------------------------
(* Theorems.                                                                *)

\* The invariant holds in every reachable state.
THEOREM InvariantCorrect == RecordsSpec => []RecordsInv
<1>1. RecordsInit => RecordsInv
  BY InitInv
<1>2. RecordsInv /\ [RecordsNext]_recordVars => RecordsInv'
  BY NextStep
<1> QED
  BY <1>1, <1>2, PTL DEF RecordsSpec

\* Every variable has its type in every reachable state.
THEOREM TypeCorrect == RecordsSpec => []RecordsTypeOK
<1>1. RecordsInv => RecordsTypeOK
  BY DEF RecordsInv, Tables, CacheFits, RestTypes, RecordsTypeOK
<1> QED
  BY <1>1, InvariantCorrect, PTL

\* Whatever requests and passes overlap, the history rows of a record are one
\* path through the allowed transitions to the status of its row, and its
\* computed scores agree with what they are computed from.
THEOREM TablesAlwaysAgree == RecordsSpec => []TablesAgree
<1>1. RecordsInv => TablesAgree
  BY DEF RecordsInv, Tables
<1> QED
  BY <1>1, InvariantCorrect, PTL

\* Only a commit writes the tables.
LEMMA OnlyCommits ==
    ASSUME [RecordsNext]_recordVars, \A s \in Sessions : ~Commit(s)
    PROVE  UNCHANGED <<kind, versions, evidence>>
<1>1. CASE \E q \in Requests : Ask(q)
  BY <1>1 DEF Ask, AskFor, AskCreate, AskMove, AskEvidence, AskFuse, Begin, OnlySession
<1>2. CASE \E q \in Requests : Look(q)
  BY <1>2 DEF Look, GateCached, GateUnknown, GateRow, OnlySession
<1>3. CASE \E q \in Requests : Move(q)
  BY <1>3 DEF Move, MoveAssessment, MoveKnowledge, MoveRisk, MoveThreat, MoveResilience,
     MoveAnalytics, DeprecateNode, DeprecateEdge, Deprecates, MovesTo, AddEvidence, FuseThreat,
     OnlySession
<1>4. CASE \E s \in Sessions : Sync(s)
  BY <1>4 DEF Sync, SyncMissing, SyncAssessment, CountEvidence, SyncKnowledge, SyncRisk,
     SyncThreat, SyncResilience, SyncAnalytics, SyncNode, SyncEdge, Synced, Flush, EarlyPut,
     OnlySession, OnlyCache
<1>5. CASE \E s \in Sessions : Finish(s)
  BY <1>5 DEF Finish, ListRows, Fetched, CommitConflicts, CommitFails, Rollback, PutCommitted,
     OnlySession, OnlyCache
<1>6. CASE \E w \in Workers : Pass(w)
  BY <1>6 DEF Pass, StartPass, BeginSync, RebuildTopology, Recalculate, FuseCached, BeginList,
     LoadEdges, Relink, Warm, EndPass, RestartWorker, OnlySession
<1>7. CASE RestartApi \/ UNCHANGED recordVars
  BY <1>7 DEF RestartApi, recordVars
<1> QED
  BY <1>1, <1>2, <1>3, <1>4, <1>5, <1>6, <1>7 DEF RecordsNext

\* No request, pass, failure or restart changes a versioned record that is in
\* a terminal status, nor adds evidence to it.
THEOREM TerminalStaysFinal == RecordsSpec => TerminalRowsAreFinal
<1>1. ASSUME RecordsInv, [RecordsNext]_recordVars, Versioned, Exists, Terminal(Current.status)
      PROVE  versions'[Len(versions')].row = Current /\ evidence' = evidence
  <2>1. CASE \A s \in Sessions : ~Commit(s)
    BY <1>1, <2>1, OnlyCommits DEF Current
  <2>2. ASSUME NEW s \in Sessions, Commit(s)
        PROVE  versions' = versions /\ evidence' = evidence
    <3>1. ~Changed(s)
      BY <1>1, <2>2, TerminalUnchanged
    <3> QED
      BY <2>2, <3>1 DEF Commit
  <2> QED
    BY <2>1, <2>2 DEF Current
<1>2. RecordsInv /\ [RecordsNext]_recordVars =>
        [Versioned /\ Exists /\ Terminal(Current.status) =>
           versions'[Len(versions')].row = Current /\ evidence' = evidence]_recordVars
  BY <1>1
<1> QED
  BY <1>2, InvariantCorrect, PTL DEF RecordsSpec, TerminalRowsAreFinal

-----------------------------------------------------------------------------
(* The dictionaries.  What a session is about to put in a dictionary was    *)
(* committed, and is no older than what its worker wrote; the object a sync *)
(* has put there before its commit is the one that commit will write.       *)

\* What e says of the record was committed as the version e names.
Shown(e) == /\ e.version \in 1..Len(versions)
            /\ e.row.status = versions[e.version].row.status
            /\ e.row.score = versions[e.version].row.score

\* No version that p wrote is newer than n.
OwnUpTo(p, n) == \A m \in 1..Len(versions) : versions[m].by = p => m <= n

InFlight == {"fetched", "flush", "count", "early", "commit", "put"}

\* What session s has in its hands when it stands as x says.
HandFits(s, x) ==
    /\ x.pc \in {"fetched", "put"} => kind \in Cached /\ Shown([row |-> x.new, version |-> x.base])
    /\ x.pc = "early" => Early
    /\ s \in Workers /\ x.pc \in {"load", "flush", "count", "early"} => x.op = "sync"
    /\ s \in Workers /\ x.pc = "fetched" => x.op = "list"
    /\ s \in Workers /\ x.pc \in InFlight => OwnUpTo(s, x.base)

\* A worker whose sync has put an object in the dictionary and not committed it.
Ahead(p) == p \in Workers /\ session[p].op = "sync" /\ session[p].pc = "commit" /\ Early
Readable(p) == cache[p] \notin {None, Broken} /\ p \notin poisoned

\* What the dictionary of p shows.
ShowsCommitted(p) == Readable(p) /\ ~Ahead(p) => Shown(cache[p])
ShowsComing(p) ==
    Ahead(p) => cache[p] = [row |-> session[p].new,
                            version |-> session[p].base + IF Changed(p) THEN 1 ELSE 0]
ShowsOwn(p) ==
    p \in Workers /\ Readable(p) /\ session[p].pc # "put" => OwnUpTo(p, cache[p].version)
EntryFits(p) == /\ ShowsCommitted(p)
                /\ ShowsComing(p)
                /\ ShowsOwn(p)
                /\ kind \notin Cached => cache[p] = None

FollowInv == /\ \A s \in Sessions : HandFits(s, session[s])
             /\ \A p \in Processes : EntryFits(p)

-----------------------------------------------------------------------------
(* A step of one session while no version is written.                       *)

Only(s) == \A t \in Sessions \ {s} : session'[t] = session[t]
OnlyOf(s) == \A p \in Processes \ {Process(s)} :
                 cache'[p] = cache[p] /\ (p \in poisoned' <=> p \in poisoned)

LEMMA SameFacts ==
    ASSUME UNCHANGED <<kind, versions>>
    PROVE  /\ \A e : Shown(e)' <=> Shown(e)
           /\ \A p, n : OwnUpTo(p, n)' <=> OwnUpTo(p, n)
           /\ \A t, x : HandFits(t, x)' <=> HandFits(t, x)
           /\ Early' <=> Early
<1>1. \A e : Shown(e)' <=> Shown(e)
  BY DEF Shown
<1>2. \A p, n : OwnUpTo(p, n)' <=> OwnUpTo(p, n)
  BY DEF OwnUpTo
<1>3. Early' <=> Early
  BY DEF Early
<1>4. \A t, x : HandFits(t, x)' <=> HandFits(t, x)
  BY <1>1, <1>2, <1>3 DEF HandFits
<1> QED
  BY <1>1, <1>2, <1>3, <1>4

\* A process that takes no part in the step shows what it showed.
LEMMA EntryKept ==
    ASSUME UNCHANGED <<kind, versions>>, NEW p \in Processes, EntryFits(p),
           cache'[p] = cache[p], p \in poisoned' <=> p \in poisoned,
           p \in Workers => session'[p] = session[p]
    PROVE  EntryFits(p)'
<1>1. /\ \A e : Shown(e)' <=> Shown(e)
      /\ \A q, n : OwnUpTo(q, n)' <=> OwnUpTo(q, n)
      /\ Early' <=> Early
  BY SameFacts
<1>2. (Readable(p)' <=> Readable(p)) /\ (Ahead(p)' <=> Ahead(p))
  BY <1>1 DEF Readable, Ahead
<1>3. Shown(cache[p])' <=> Shown(cache[p])
  BY DEF Shown
<1>4. OwnUpTo(p, cache[p].version)' <=> OwnUpTo(p, cache[p].version)
  BY DEF OwnUpTo
<1>5. ShowsCommitted(p)'
  BY <1>2, <1>3 DEF EntryFits, ShowsCommitted
<1>6. ShowsComing(p)'
  <2>1. p \in Workers => (Changed(p)' <=> Changed(p))
    BY DEF Changed, Was
  <2> QED
    BY <1>2, <2>1 DEF EntryFits, ShowsComing, Ahead
<1>7. ShowsOwn(p)'
  BY <1>2, <1>4 DEF EntryFits, ShowsOwn
<1> QED
  BY <1>5, <1>6, <1>7 DEF EntryFits

LEMMA OthersKept ==
    ASSUME FollowInv, NEW s \in Sessions, UNCHANGED <<kind, versions>>, Only(s), OnlyOf(s),
           HandFits(s, session'[s]), EntryFits(Process(s))'
    PROVE  FollowInv'
<1>1. \A t \in Sessions : HandFits(t, session'[t])
  BY DEF FollowInv, Only
<1>2. \A t \in Sessions : HandFits(t, session[t])'
  BY <1>1, SameFacts
<1>3. ASSUME NEW p \in Processes, p # Process(s)
      PROVE  EntryFits(p)'
  <2>1. p \in Workers => p # s /\ p \in Sessions
    BY <1>3 DEF Process, Sessions
  <2>2. p \in Workers => session'[p] = session[p]
    BY <2>1 DEF Only
  <2>3. cache'[p] = cache[p] /\ (p \in poisoned' <=> p \in poisoned) /\ EntryFits(p)
    BY <1>3 DEF OnlyOf, FollowInv
  <2> QED
    BY <2>2, <2>3, EntryKept
<1> QED
  BY <1>2, <1>3 DEF FollowInv

\* The session takes something else in its hands.
LEMMA HandStep ==
    ASSUME FollowInv, NEW s \in Sessions, UNCHANGED <<kind, versions, cache, poisoned>>, Only(s),
           HandFits(s, session'[s]),
           s \in Workers => /\ session[s].pc \notin {"put", "commit"}
                            /\ ~(session'[s].op = "sync" /\ session'[s].pc = "commit" /\ Early)
    PROVE  FollowInv'
<1>1. OnlyOf(s) /\ Process(s) \in Processes
  BY DEF OnlyOf, Process, Processes
<1>2. EntryFits(Process(s))'
  <2>1. CASE s \notin Workers
    BY <1>1, <2>1, EntryKept, RecordsAssumption DEF Process, FollowInv
  <2>2. CASE s \in Workers
    <3>1. EntryFits(s) /\ ~Ahead(s) /\ ~Ahead(s)' /\ (Readable(s)' <=> Readable(s))
      <4>1. ~Ahead(s)' /\ ~Ahead(s) /\ (Readable(s)' <=> Readable(s))
        BY <2>2, SameFacts DEF Ahead, Readable
      <4> QED
        BY <1>1, <2>2, <4>1 DEF FollowInv, Process
    <3>2. Shown(cache[s])' <=> Shown(cache[s])
      BY DEF Shown
    <3>3. OwnUpTo(s, cache[s].version)' <=> OwnUpTo(s, cache[s].version)
      BY DEF OwnUpTo
    <3>4. ShowsCommitted(s)' /\ ShowsComing(s)'
      BY <3>1, <3>2 DEF EntryFits, ShowsCommitted, ShowsComing
    <3>5. ShowsOwn(s)'
      BY <2>2, <3>1, <3>3 DEF EntryFits, ShowsOwn
    <3>6. EntryFits(s)'
      BY <3>1, <3>4, <3>5 DEF EntryFits
    <3> QED
      BY <2>2, <3>6 DEF Process
  <2> QED
    BY <2>1, <2>2
<1> QED
  BY <1>1, <1>2, OthersKept

\* It has nothing in its hands, or what a request needs no fact about.
LEMMA EmptyHand ==
    ASSUME NEW s \in Sessions, NEW x,
           x.pc \in Resting \/ (s \notin Workers /\ x.pc \notin {"fetched", "put", "early"})
    PROVE  HandFits(s, x)
BY DEF HandFits, Resting, InFlight

LEMMA EmptyStep ==
    ASSUME FollowInv, NEW s \in Sessions, UNCHANGED <<kind, versions, cache, poisoned>>, Only(s),
           \/ session'[s].pc \in Resting /\ (s \in Workers => session[s].pc \notin {"put", "commit"})
           \/ s \notin Workers /\ session'[s].pc \notin {"fetched", "put", "early"}
    PROVE  FollowInv'
<1>1. HandFits(s, session'[s])
  BY EmptyHand
<1>2. session'[s].pc \in Resting => session'[s].pc # "commit"
  BY DEF Resting
<1> QED
  BY <1>1, <1>2, HandStep

\* The latest version is shown by its row and owed by nobody.
LEMMA LatestFacts ==
    ASSUME RecordsInv
    PROVE  /\ Exists => Shown([row |-> Current, version |-> Len(versions)])
           /\ \A p : OwnUpTo(p, Len(versions))
           /\ ~Exists => \A p, n : OwnUpTo(p, n)
<1>1. versions \in Seq(Version) /\ (~Exists => Len(versions) = 0)
  BY DEF RecordsInv, Tables, Exists
<1>2. Len(versions) \in Nat
  BY <1>1
<1>3. Exists => Len(versions) \in 1..Len(versions)
  BY <1>1, CurrentType
<1>4. Exists => Shown([row |-> Current, version |-> Len(versions)])
  BY <1>3 DEF Shown, Current
<1>5. \A p : OwnUpTo(p, Len(versions))
  BY <1>2 DEF OwnUpTo
<1>6. ~Exists => \A p, n : OwnUpTo(p, n)
  BY <1>1 DEF OwnUpTo
<1> QED
  BY <1>4, <1>5, <1>6

-----------------------------------------------------------------------------
(* Requests and what the dictionaries show.                                 *)

LEMMA RequestFacts ==
    ASSUME RecordsInv, NEW q \in Requests
    PROVE  q \in Sessions /\ q \notin Workers /\ session[q] \in Session /\ Fits(session[q])
BY RecordsAssumption DEF Sessions, RecordsInv

LEMMA GoesHand ==
    ASSUME RecordsInv, NEW s \in Sessions, NEW pc, Goes(s, pc)
    PROVE  Only(s) /\ session'[s] = [session[s] EXCEPT !.pc = pc] /\ session'[s].pc = pc
<1>1. session[s] \in Session /\ session \in [Sessions -> Session]
  BY DEF RecordsInv
<1>2. session'[s] = [session[s] EXCEPT !.pc = pc]
  BY <1>1 DEF Goes
<1>3. session'[s].pc = pc
  BY <1>1, <1>2 DEF Session
<1> QED
  BY <1>1, <1>2, <1>3 DEF Goes, Only

LEMMA AskFollows == ASSUME RecordsInv, FollowInv, NEW q \in Requests, Ask(q) PROVE FollowInv'
<1>1. q \in Sessions /\ q \notin Workers
  BY RequestFacts
<1>2. PICK op, to, amount, tags, pc :
          Begin(q, op, to, amount, tags, pc) /\ pc \in {"gate", "list", "load"}
  BY DEF Ask, AskFor, AskCreate, AskMove, AskEvidence, AskFuse
<1>3. Only(q) /\ session'[q].pc = pc
  BY <1>1, <1>2, IdleType DEF RecordsInv, Begin, Only, Idle, Session
<1> QED
  BY <1>1, <1>2, <1>3, EmptyStep DEF Begin, OnlySession

LEMMA GoesFollows ==
    ASSUME RecordsInv, FollowInv, NEW q \in Requests, OnlySession,
           NEW pc \in Resting \cup {"load"}, Goes(q, pc)
    PROVE  FollowInv'
<1>1. q \in Sessions /\ q \notin Workers
  BY RequestFacts
<1>2. Only(q) /\ session'[q].pc = pc
  BY <1>1, GoesHand
<1> QED
  BY <1>1, <1>2, EmptyStep DEF OnlySession, Resting

\* A session that has just read the row of a kind kept in a dictionary.
LEMMA ReadFollows ==
    ASSUME RecordsInv, FollowInv, NEW s \in Sessions, OnlySession, Exists, kind \in Cached, Only(s),
           session'[s].pc = "fetched", session'[s].new = Current, session'[s].base = Len(versions),
           s \in Workers => session[s].pc \notin {"put", "commit"} /\ session'[s].op = "list"
    PROVE  FollowInv'
<1>1. HandFits(s, session'[s])
  BY LatestFacts DEF HandFits
<1> QED
  BY <1>1, HandStep DEF OnlySession

LEMMA LookFollows == ASSUME RecordsInv, FollowInv, NEW q \in Requests, Look(q) PROVE FollowInv'
<1>0. q \in Sessions /\ q \notin Workers /\ session[q] \in Session
  BY RequestFacts
<1>1. CASE GateCached(q)
  <2> DEFINE pc == IF cache[API] = Broken THEN "failed" ELSE PassedGate(q, cache[API].row.status)
  <2>1. pc \in Resting \cup {"load"}
    BY GateOutcome DEF Resting
  <2>2. Goes(q, pc) /\ OnlySession
    BY <1>1 DEF GateCached
  <2> QED
    BY <2>1, <2>2, GoesFollows
<1>2. CASE GateUnknown(q)
  BY <1>2, GoesFollows DEF GateUnknown, Resting
<1>3. CASE GateRow(q)
  <2>1. CASE ~Exists
    BY <1>3, <2>1, GoesFollows DEF GateRow, Resting
  <2>2. CASE Exists /\ kind \in Cached
    <3>1. session' = [session EXCEPT ![q].pc = "fetched", ![q].new = Current,
                                     ![q].base = Len(versions)]
      BY <1>3, <2>2 DEF GateRow
    <3>2. /\ Only(q) /\ session'[q].pc = "fetched" /\ session'[q].new = Current
          /\ session'[q].base = Len(versions)
      BY <1>0, <3>1 DEF RecordsInv, Only, Session
    <3> QED
      BY <1>0, <1>3, <2>2, <3>2, ReadFollows DEF GateRow
  <2>3. CASE Exists /\ kind \notin Cached
    BY <1>3, <2>3, GateOutcome, GoesFollows DEF GateRow
  <2> QED
    BY <2>1, <2>2, <2>3
<1> QED
  BY <1>1, <1>2, <1>3 DEF Look

LEMMA ListRowsFollows ==
    ASSUME RecordsInv, FollowInv, NEW s \in Sessions, ListRows(s)
    PROVE  FollowInv'
<1>0. session[s] \in Session /\ session[s].pc = "list" /\ OnlySession
  BY DEF RecordsInv, ListRows, At
<1>1. CASE Goes(s, After(s))
  <2>1. Only(s) /\ session'[s].pc = After(s) /\ After(s) \in Resting
    BY <1>1, GoesHand DEF After, Resting
  <2> QED
    BY <1>0, <2>1, EmptyStep DEF OnlySession
<1>2. CASE ~Goes(s, After(s))
  <2>1. /\ Exists /\ kind \in Cached
        /\ session' = [session EXCEPT ![s].pc = "fetched", ![s].new = Current,
                                      ![s].op = "list", ![s].base = Len(versions)]
    BY <1>2 DEF ListRows, Cached
  <2>2. /\ Only(s) /\ session'[s].pc = "fetched" /\ session'[s].new = Current
        /\ session'[s].base = Len(versions) /\ session'[s].op = "list"
    BY <1>0, <2>1 DEF RecordsInv, Only, Session
  <2> QED
    BY <1>0, <2>1, <2>2, ReadFollows
<1> QED
  BY <1>1, <1>2

\* A request changes the row it has read again and goes on to the commit.
LEMMA StageFollows ==
    ASSUME RecordsInv, FollowInv, NEW q \in Requests, OnlySession, NEW new, Stage(q, new)
    PROVE  FollowInv'
<1>1. q \in Sessions /\ q \notin Workers /\ session[q] \in Session
  BY RequestFacts
<1>2. Only(q) /\ session'[q].pc = "commit"
  BY <1>1 DEF RecordsInv, Stage, Only, Session
<1> QED
  BY <1>1, <1>2, EmptyStep DEF OnlySession

LEMMA MovesToFollows ==
    ASSUME RecordsInv, FollowInv, NEW q \in Requests, NEW new, MovesTo(q, new)
    PROVE  FollowInv'
BY StageFollows, GoesFollows DEF MovesTo, Resting

\* What has been deprecated already is put in the dictionary as it is.
LEMMA DeprecatesFollows ==
    ASSUME RecordsInv, FollowInv, NEW q \in Requests, Deprecates(q), kind \in Graph
    PROVE  FollowInv'
<1>1. q \in Sessions /\ q \notin Workers /\ session[q] \in Session /\ Fits(session[q])
  BY RequestFacts
<1>2. Exists
  BY <1>1 DEF Deprecates, Ready, At, Fits
<1>3. Current \in Row /\ (Versioned => Current.status \in Life)
  BY <1>2, CurrentFits
<1>4. kind \in Cached /\ Versioned /\ Life = {"ACTIVE", "DEPRECATED"}
  BY DEF Cached, Versioned, Graph, Life, FirstStatus, Targets
<1>5. Terminal(Current.status) => Current.status = "DEPRECATED"
  BY <1>3, <1>4 DEF Terminal, Graph
<1> DEFINE new == [Current EXCEPT !.status = "DEPRECATED"]
<1>6. /\ Only(q) /\ session'[q].new = new /\ session'[q].base = Len(versions)
      /\ session'[q].pc = IF Terminal(Current.status) THEN "put" ELSE "commit"
  <2> DEFINE pc == IF Terminal(Current.status) THEN "put" ELSE "commit"
  <2>1. session' = [session EXCEPT ![q].base = Len(versions), ![q].pc = pc, ![q].new = new]
    BY DEF Deprecates
  <2> HIDE DEF pc, new
  <2>2. Only(q) /\ session'[q] = [session[q] EXCEPT !.base = Len(versions), !.pc = pc, !.new = new]
    BY <1>1, <2>1 DEF RecordsInv, Only
  <2>3. session'[q].new = new /\ session'[q].base = Len(versions) /\ session'[q].pc = pc
    BY <1>1, <2>2 DEF Session
  <2> QED
    BY <2>2, <2>3 DEF pc
<1>7. CASE ~Terminal(Current.status)
  <2> HIDE DEF new
  <2>1. session'[q].pc = "commit" /\ UNCHANGED <<kind, versions, cache, poisoned>>
    BY <1>6, <1>7 DEF Deprecates, OnlySession
  <2>2. q \notin Workers /\ session'[q].pc \notin {"fetched", "put", "early"}
    BY <1>1, <2>1
  <2> QED
    BY <1>1, <1>6, <2>1, <2>2, EmptyStep
<1>8. CASE Terminal(Current.status)
  <2>1. new = Current
    BY <1>3, <1>5, <1>8 DEF Row
  <2>2. HandFits(q, session'[q])
    BY <1>1, <1>2, <1>4, <1>6, <1>8, <2>1, LatestFacts DEF HandFits
  <2> QED
    BY <1>1, <1>6, <2>2, HandStep DEF Deprecates, OnlySession
<1> QED
  BY <1>7, <1>8

LEMMA MoveFollows == ASSUME RecordsInv, FollowInv, NEW q \in Requests, Move(q) PROVE FollowInv'
<1>1. CASE \/ MoveAssessment(q) \/ MoveKnowledge(q) \/ MoveRisk(q) \/ MoveThreat(q)
           \/ MoveResilience(q) \/ MoveAnalytics(q)
  BY <1>1, MovesToFollows DEF MoveAssessment, MoveKnowledge, MoveRisk, MoveThreat,
     MoveResilience, MoveAnalytics
<1>2. CASE DeprecateNode(q) \/ DeprecateEdge(q)
  BY <1>2, DeprecatesFollows DEF DeprecateNode, DeprecateEdge, Graph
<1>3. CASE AddEvidence(q)
  BY <1>3, StageFollows, GoesFollows DEF AddEvidence, Resting
<1>4. CASE FuseThreat(q)
  BY <1>4, StageFollows, GoesFollows DEF FuseThreat, Resting
<1> QED
  BY <1>1, <1>2, <1>3, <1>4 DEF Move

-----------------------------------------------------------------------------
(* Synchronisations.                                                        *)

\* What may be in the hands of a session before it puts or commits anything.
LEMMA SyncHand ==
    ASSUME RecordsInv, FollowInv, NEW s \in Sessions, OnlySession, Only(s),
           session[s].pc \in {"load", "flush", "count"}, session'[s].op = session[s].op,
           session'[s].pc \in {"flush", "count", BeforeCommit(s)},
           \/ session'[s].base = Len(versions) \/ ~Exists
           \/ session[s].pc # "load" /\ session'[s].base = session[s].base
    PROVE  FollowInv'
<1>1. s \in Workers => session'[s].op = "sync" /\ OwnUpTo(s, session'[s].base)
  <2>1. HandFits(s, session[s])
    BY DEF FollowInv
  <2> QED
    BY <2>1, LatestFacts DEF HandFits, InFlight
<1>2. /\ session'[s].pc \notin {"fetched", "put"}
      /\ session'[s].pc = "early" => Early /\ s \in Workers
      /\ s \in Workers /\ session'[s].pc = "commit" => ~Early
  BY DEF BeforeCommit
<1>3. HandFits(s, session'[s])
  BY <1>1, <1>2 DEF HandFits
<1> QED
  BY <1>2, <1>3, HandStep DEF OnlySession

LEMMA SyncedFollows ==
    ASSUME RecordsInv, FollowInv, NEW s \in Sessions, NEW new, Synced(s, new)
    PROVE  FollowInv'
<1> DEFINE row == IF Terminal(Current.status) THEN Current ELSE new
<1>1. /\ session[s] \in Session /\ session[s].pc = "load" /\ OnlySession
      /\ session' = [session EXCEPT ![s].pc = BeforeCommit(s), ![s].base = Len(versions),
                                    ![s].new = row]
  BY DEF Synced, Syncing, Ready, At, RecordsInv
<1> HIDE DEF row
<1>2. /\ Only(s)
      /\ session'[s] = [session[s] EXCEPT !.pc = BeforeCommit(s), !.base = Len(versions),
                                          !.new = row]
  BY <1>1 DEF RecordsInv, Only
<1>3. /\ session'[s].pc = BeforeCommit(s) /\ session'[s].base = Len(versions)
      /\ session'[s].op = session[s].op
  <2>1. DOMAIN session[s] = {"pc", "op", "to", "amount", "tags", "base", "new", "todo"}
    BY <1>1 DEF Session
  <2> QED
    BY <1>2, <2>1
<1> QED
  BY <1>1, <1>2, <1>3, SyncHand

LEMMA SyncMissingFollows ==
    ASSUME RecordsInv, FollowInv, NEW s \in Sessions, SyncMissing(s)
    PROVE  FollowInv'
<1>1. /\ session[s] \in Session /\ session[s].pc = "load" /\ OnlySession /\ ~Exists
      /\ session' = [session EXCEPT ![s].pc = "flush", ![s].base = 0,
                                    ![s].new = NewRow(session[s].amount, session[s].tags)]
  BY DEF SyncMissing, Syncing, Ready, At, RecordsInv
<1>2. Only(s) /\ session'[s].pc = "flush" /\ session'[s].op = session[s].op
  BY <1>1 DEF RecordsInv, Only, Session
<1> QED
  BY <1>1, <1>2, SyncHand

LEMMA SyncAssessmentFollows ==
    ASSUME RecordsInv, FollowInv, NEW s \in Sessions, SyncAssessment(s)
    PROVE  FollowInv'
<1>1. /\ session[s] \in Session /\ session[s].pc = "load" /\ OnlySession
      /\ session' = [session EXCEPT ![s].pc = "count", ![s].base = Len(versions),
                                    ![s].new = Current]
  BY DEF SyncAssessment, Syncing, Ready, At, RecordsInv
<1>2. /\ Only(s) /\ session'[s].pc = "count" /\ session'[s].base = Len(versions)
      /\ session'[s].op = session[s].op
  BY <1>1 DEF RecordsInv, Only, Session
<1> QED
  BY <1>1, <1>2, SyncHand

LEMMA CountFollows ==
    ASSUME RecordsInv, FollowInv, NEW s \in Sessions, CountEvidence(s)
    PROVE  FollowInv'
<1> DEFINE score == IF Terminal(session[s].new.status) THEN session[s].new.score
                    ELSE Completeness(evidence)
<1>1. /\ session[s] \in Session /\ session[s].pc = "count" /\ OnlySession
  BY DEF CountEvidence, At, RecordsInv
<1>2. /\ Only(s)
      /\ session'[s] = [session[s] EXCEPT !.pc = BeforeCommit(s), !.new.score = score]
  BY <1>1 DEF CountEvidence, RecordsInv, Only, Session
<1> HIDE DEF score
<1>3. /\ session'[s].pc = BeforeCommit(s) /\ session'[s].base = session[s].base
      /\ session'[s].op = session[s].op
  BY <1>1, <1>2 DEF Session
<1> QED
  BY <1>1, <1>2, <1>3, SyncHand

\* An exception leaves nothing in the hands of the session.
LEMMA FailsHand ==
    ASSUME RecordsInv, NEW s \in Sessions, Fails(s)
    PROVE  Only(s) /\ session'[s].pc \in {"step", "failed"}
<1> DEFINE pc == IF s \in Workers THEN "step" ELSE "failed"
           todo == IF s \in Workers /\ ~Bootstrapping(s) /\ kind \in Listed
                   THEN <<"list">> ELSE <<>>
<1>1. session' = [session EXCEPT ![s].pc = pc, ![s].todo = todo] /\ session[s] \in Session
  BY DEF Fails, RecordsInv
<1> HIDE DEF pc, todo
<1>2. Only(s) /\ session'[s] = [session[s] EXCEPT !.pc = pc, !.todo = todo]
  BY <1>1 DEF RecordsInv, Only
<1>3. session'[s].pc = pc
  BY <1>1, <1>2 DEF Session
<1> QED
  BY <1>2, <1>3 DEF pc

LEMMA FailsFollows ==
    ASSUME RecordsInv, FollowInv, NEW s \in Sessions, Fails(s), OnlySession,
           session[s].pc \notin {"put", "commit"}
    PROVE  FollowInv'
BY FailsHand, EmptyStep DEF OnlySession, Resting

LEMMA FlushFollows ==
    ASSUME RecordsInv, FollowInv, NEW s \in Sessions, Flush(s)
    PROVE  FollowInv'
<1>1. session[s] \in Session /\ session[s].pc = "flush" /\ OnlySession
  BY DEF Flush, At, RecordsInv
<1>2. CASE Fails(s)
  BY <1>1, <1>2, FailsFollows
<1>3. CASE Goes(s, BeforeCommit(s))
  <2>1. /\ Only(s) /\ session'[s] = [session[s] EXCEPT !.pc = BeforeCommit(s)]
        /\ session'[s].pc = BeforeCommit(s)
    BY <1>3, GoesHand
  <2>2. session'[s].op = session[s].op /\ session'[s].base = session[s].base
    BY <1>1, <2>1 DEF Session
  <2> QED
    BY <1>1, <2>1, <2>2, SyncHand
<1> QED
  BY <1>2, <1>3 DEF Flush

\* The object of a sync goes into the dictionary under the version its commit
\* will give it.
LEMMA EarlyPutFollows ==
    ASSUME RecordsInv, FollowInv, NEW s \in Sessions, EarlyPut(s)
    PROVE  FollowInv'
<1>1. /\ session[s] \in Session /\ session[s].pc = "early" /\ s \in Workers /\ OnlyCache
      /\ HandFits(s, session[s]) /\ Goes(s, "commit")
  BY DEF EarlyPut, At, RecordsInv, FollowInv
<1>2. /\ Only(s) /\ session'[s] = [session[s] EXCEPT !.pc = "commit"]
      /\ session'[s].pc = "commit"
  BY <1>1, GoesHand
<1>3. /\ session'[s].op = session[s].op /\ session'[s].base = session[s].base
      /\ session'[s].new = session[s].new
  BY <1>1, <1>2 DEF Session
<1>4. session[s].op = "sync" /\ Early /\ kind \in Cached /\ OwnUpTo(s, session[s].base)
  BY <1>1 DEF HandFits, InFlight, Early
<1>5. HandFits(s, session'[s])
  BY <1>2, <1>3, <1>4 DEF HandFits
<1> DEFINE n == session[s].base + IF Changed(s) THEN 1 ELSE 0
<1>6. Process(s) = s /\ s \in Processes
  BY <1>1 DEF Process, Processes
<1>7. cache' = [cache EXCEPT ![s] = [row |-> session[s].new, version |-> n]]
  BY <1>6 DEF EarlyPut, Put
<1>8. OnlyOf(s) /\ cache'[s] = [row |-> session[s].new, version |-> n]
  <2> HIDE DEF n
  <2> QED
    BY <1>1, <1>6, <1>7 DEF OnlyOf, OnlyCache, RecordsInv, CacheFits
<1>9. n \in Nat /\ n >= session[s].base
  BY <1>1 DEF Session
<1>10. OwnUpTo(s, n)
  <2>1. session[s].base \in Nat
    BY <1>1 DEF Session
  <2>2. Len(versions) \in Nat
    BY DEF RecordsInv, Tables
  <2> HIDE DEF n
  <2> QED
    BY <1>4, <1>9, <2>1, <2>2 DEF OwnUpTo
<1>11. Changed(s)' <=> Changed(s)
  BY <1>1, <1>3 DEF Changed, Was, OnlyCache
<1>12. EntryFits(s)'
  <2>1. Ahead(s)'
    BY <1>1, <1>2, <1>3, <1>4, SameFacts DEF Ahead, OnlyCache
  <2>2. ShowsComing(s)'
    BY <1>3, <1>8, <1>11 DEF ShowsComing
  <2>3. OwnUpTo(s, cache[s].version)'
    <3>1. cache'[s].version = n
      BY <1>8
    <3>2. versions' = versions
      BY <1>1 DEF OnlyCache
    <3> HIDE DEF n
    <3> QED
      BY <1>10, <3>1, <3>2 DEF OwnUpTo
  <2>4. kind' = kind
    BY <1>1 DEF OnlyCache
  <2> QED
    BY <1>4, <2>1, <2>2, <2>3, <2>4 DEF EntryFits, ShowsCommitted, ShowsOwn
<1> QED
  BY <1>1, <1>2, <1>5, <1>6, <1>8, <1>12, OthersKept DEF OnlyCache

LEMMA SyncFollows == ASSUME RecordsInv, FollowInv, NEW s \in Sessions, Sync(s) PROVE FollowInv'
<1>1. CASE \/ SyncKnowledge(s) \/ SyncRisk(s) \/ SyncThreat(s) \/ SyncResilience(s)
           \/ SyncAnalytics(s) \/ SyncNode(s) \/ SyncEdge(s)
  BY <1>1, SyncedFollows DEF SyncKnowledge, SyncRisk, SyncThreat, SyncResilience, SyncAnalytics,
     SyncNode, SyncEdge
<1> QED
  BY <1>1, SyncMissingFollows, SyncAssessmentFollows, CountFollows, FlushFollows,
     EarlyPutFollows DEF Sync

-----------------------------------------------------------------------------
(* What goes into a dictionary after the commit, or after a read.           *)

LEMMA PutFollows ==
    ASSUME RecordsInv, FollowInv, NEW s \in Sessions, OnlyCache,
           session[s].pc \in {"fetched", "put"}, NEW pc \in Resting \cup {"load"}, Goes(s, pc),
           pc = "load" => s \notin Workers,
           Put(Process(s), session[s].new, session[s].base)
    PROVE  FollowInv'
<1>1. session[s] \in Session /\ HandFits(s, session[s]) /\ Process(s) \in Processes
  BY DEF RecordsInv, FollowInv, Process, Processes
<1>2. Only(s) /\ session'[s].pc = pc
  BY GoesHand
<1>3. HandFits(s, session'[s])
  BY <1>2, EmptyHand DEF Resting
<1> DEFINE e == [row |-> session[s].new, version |-> session[s].base]
<1>4. kind \in Cached /\ Shown(e) /\ (s \in Workers => OwnUpTo(s, session[s].base))
  BY <1>1 DEF HandFits, InFlight
<1>5. OnlyOf(s) /\ cache'[Process(s)] = e
  <2>1. cache' = [cache EXCEPT ![Process(s)] = e]
    BY DEF Put
  <2> HIDE DEF e
  <2> QED
    BY <1>1, <2>1 DEF OnlyOf, OnlyCache, RecordsInv, CacheFits
<1>6. ~Ahead(Process(s))'
  BY <1>2, RecordsAssumption DEF Ahead, Process, Resting
<1>7. Shown(cache[Process(s)])'
  <2>1. \A d : d = e => Shown(d)'
    <3>1. Shown(e) /\ UNCHANGED <<kind, versions>>
      BY <1>4 DEF OnlyCache
    <3>2. \A d : Shown(d)' <=> Shown(d)
      BY <3>1, SameFacts
    <3> HIDE DEF e
    <3> QED
      BY <3>1, <3>2
  <2>2. PICK d : d = e
    OBVIOUS
  <2> HIDE DEF e
  <2> QED
    BY <1>5, <2>1, <2>2 DEF Shown
<1>8. Process(s) \in Workers => OwnUpTo(Process(s), cache[Process(s)].version)'
  <2>1. Process(s) \in Workers => Process(s) = s /\ OwnUpTo(s, session[s].base)
    BY <1>4, RecordsAssumption DEF Process
  <2>2. cache'[Process(s)].version = session[s].base /\ versions' = versions
    BY <1>5 DEF OnlyCache
  <2> QED
    BY <2>1, <2>2 DEF OwnUpTo
<1>9. EntryFits(Process(s))'
  BY <1>4, <1>6, <1>7, <1>8 DEF EntryFits, ShowsCommitted, ShowsComing, ShowsOwn, OnlyCache
<1> QED
  BY <1>2, <1>3, <1>5, <1>9, OthersKept DEF OnlyCache

LEMMA FetchedFollows ==
    ASSUME RecordsInv, FollowInv, NEW s \in Sessions, Fetched(s)
    PROVE  FollowInv'
<1> DEFINE pc == IF session[s].op = "list" THEN After(s) ELSE PassedGate(s, session[s].new.status)
<1>1. pc \in Resting \cup {"load"} /\ (pc = "load" => s \notin Workers)
  <2>1. CASE session[s].op = "list"
    BY <2>1 DEF After, Resting
  <2>2. CASE session[s].op # "list"
    <3>1. s \notin Workers
      BY <2>2 DEF FollowInv, HandFits, Fetched, At
    <3> QED
      BY <2>2, <3>1, GateOutcome
  <2> QED
    BY <2>1, <2>2
<1>2. /\ session[s].pc = "fetched" /\ Put(Process(s), session[s].new, session[s].base)
      /\ Goes(s, pc) /\ OnlyCache
  BY DEF Fetched, At
<1> HIDE DEF pc
<1> QED
  BY <1>1, <1>2, PutFollows

LEMMA PutCommittedFollows ==
    ASSUME RecordsInv, FollowInv, NEW s \in Sessions, PutCommitted(s)
    PROVE  FollowInv'
BY PutFollows DEF PutCommitted, At, After, Resting

-----------------------------------------------------------------------------
(* The commit.                                                              *)

\* The version a commit leaves its session with.
CommittedAs(s) == IF Changed(s) THEN Len(versions) + 1 ELSE session[s].base

LEMMA CommitHand ==
    ASSUME RecordsInv, NEW s \in Sessions, Commit(s)
    PROVE  /\ Only(s) /\ session'[s].op = session[s].op /\ session'[s].new = session[s].new
           /\ session'[s].pc = IF kind \in Cached THEN "put" ELSE After(s)
           /\ session'[s].base = CommittedAs(s)
<1> DEFINE pc == IF kind \in Cached THEN "put" ELSE After(s)
           base == IF Changed(s) THEN Len(versions) + 1 ELSE session[s].base
<1>1. session[s] \in Session /\ session' = [session EXCEPT ![s].pc = pc, ![s].base = base]
  BY DEF Commit, RecordsInv
<1> HIDE DEF pc, base
<1>2. Only(s) /\ session'[s] = [session[s] EXCEPT !.pc = pc, !.base = base]
  BY <1>1 DEF RecordsInv, Only
<1>3. /\ session'[s].op = session[s].op /\ session'[s].new = session[s].new
      /\ session'[s].pc = pc /\ session'[s].base = base
  BY <1>1, <1>2 DEF Session
<1> QED
  BY <1>2, <1>3 DEF pc, base, CommittedAs

\* What a commit does not touch.
LEMMA CommitKeeps ==
    ASSUME RecordsInv, NEW s \in Sessions, Commit(s)
    PROVE  /\ UNCHANGED <<kind, cache, poisoned>>
           /\ \A n \in 1..Len(versions) : n \in 1..Len(versions') /\ versions'[n] = versions[n]
           /\ \A e : Shown(e) => Shown(e)'
           /\ \A p, n : p # Process(s) /\ OwnUpTo(p, n) => OwnUpTo(p, n)'
<1>1. versions \in Seq(Version) /\ UNCHANGED <<kind, cache, poisoned>>
  BY DEF Commit, RecordsInv, Tables
<1>2. CASE ~Changed(s)
  <2>1. versions' = versions
    BY <1>2 DEF Commit
  <2> QED
    BY <1>1, <2>1, SameFacts
<1>3. CASE Changed(s)
  <2> PICK v : v = [row |-> Written(s), by |-> Process(s)]
    OBVIOUS
  <2>1. versions' = Append(versions, v) /\ v.by = Process(s)
    BY <1>3 DEF Commit
  <2>2. /\ Len(versions) \in Nat /\ Len(versions') = Len(versions) + 1
        /\ versions'[Len(versions) + 1] = v
        /\ \A n \in 1..Len(versions) : versions'[n] = versions[n]
    BY <1>1, <2>1
  <2>3. \A n \in 1..Len(versions) : n \in 1..Len(versions')
    BY <2>2
  <2>4. \A e : Shown(e) => Shown(e)'
    BY <2>2, <2>3 DEF Shown
  <2>5. \A p, n : p # Process(s) /\ OwnUpTo(p, n) => OwnUpTo(p, n)'
    <3>1. \A m \in 1..Len(versions') : m \in 1..Len(versions) \/ m = Len(versions) + 1
      BY <2>2
    <3> QED
      BY <2>1, <2>2, <3>1 DEF OwnUpTo
  <2> QED
    BY <1>1, <2>2, <2>3, <2>4, <2>5
<1> QED
  BY <1>2, <1>3

\* What the session puts in the dictionary afterwards is what it has committed.
LEMMA CommitShows ==
    ASSUME RecordsInv, NEW s \in Sessions, Commit(s), kind \in Cached
    PROVE  /\ CommittedAs(s) = session[s].base + IF Changed(s) THEN 1 ELSE 0
           /\ CommittedAs(s) \in 1..Len(versions')
           /\ versions'[CommittedAs(s)].row.status = session[s].new.status
           /\ versions'[CommittedAs(s)].row.score = session[s].new.score
           /\ Changed(s) => CommittedAs(s) = Len(versions')
<1>1. /\ versions \in Seq(Version) /\ session[s].base \in Nat /\ session[s].new \in Row
  BY DEF RecordsInv, Tables, Session
<1>2. CASE ~Changed(s)
  <2>1. session[s].base # 0 /\ session[s].new = Was(s) /\ versions' = versions
    BY <1>2 DEF Changed, Commit
  <2>2. session[s].base \in 1..Len(versions)
    BY <2>1, InHand DEF Holds
  <2> QED
    BY <1>1, <1>2, <2>1, <2>2 DEF Was, CommittedAs
<1>3. CASE Changed(s)
  <2>1. session[s].base = Len(versions)
    <3>1. CASE session[s].base = 0
      BY <1>1, <3>1, InHand DEF Exists
    <3>2. CASE session[s].base # 0
      BY <1>3, <3>2, InHand DEF Versioned
    <3> QED
      BY <3>1, <3>2
  <2>2. Written(s).status = session[s].new.status /\ Written(s).score = session[s].new.score
    <3>1. CASE session[s].base = 0
      BY <3>1 DEF Written
    <3>2. CASE session[s].base # 0
      <4>1. Was(s) = Current
        BY <1>3, <3>2, InHand DEF Versioned
      <4> QED
        BY <3>2, <4>1 DEF Written
    <3> QED
      BY <3>1, <3>2
  <2> PICK v : v = [row |-> Written(s), by |-> Process(s)]
    OBVIOUS
  <2>3. versions' = Append(versions, v) /\ v.row = Written(s)
    BY <1>3 DEF Commit
  <2>4. Len(versions) \in Nat /\ Len(versions') = Len(versions) + 1
        /\ versions'[Len(versions) + 1] = v
    BY <1>1, <2>3
  <2> QED
    BY <1>3, <2>1, <2>2, <2>3, <2>4 DEF CommittedAs
<1> QED
  BY <1>2, <1>3

LEMMA CommitHands ==
    ASSUME RecordsInv, FollowInv, NEW s \in Sessions, Commit(s)
    PROVE  \A t \in Sessions : HandFits(t, session[t])'
<1>1. \A t \in Sessions : HandFits(t, session[t])
  BY DEF FollowInv
<1>2. kind' = kind /\ (Early' <=> Early)
  BY CommitKeeps DEF Early
<1>3. ASSUME NEW t \in Sessions, t # s
      PROVE  HandFits(t, session[t])'
  <2>1. session'[t] = session[t]
    BY <1>3, CommitHand DEF Only
  <2>2. t \in Workers => t # Process(s)
    BY <1>3, RecordsAssumption DEF Process
  <2> PICK x : x = session[t]
    OBVIOUS
  <2>3. Shown([row |-> x.new, version |-> x.base]) => Shown([row |-> x.new, version |-> x.base])'
    <3> PICK e : e = [row |-> x.new, version |-> x.base]
      OBVIOUS
    <3> QED
      BY CommitKeeps
  <2>4. t \in Workers /\ OwnUpTo(t, x.base) => OwnUpTo(t, x.base)'
    BY <2>2, CommitKeeps
  <2>5. HandFits(t, x)'
    BY <1>1, <1>2, <2>3, <2>4 DEF HandFits
  <2> QED
    BY <2>1, <2>5 DEF HandFits
<1>4. HandFits(s, session[s])'
  <2>1. CASE kind \notin Cached
    <3>1. session'[s].pc \in {"step", "done"}
      BY <2>1, CommitHand DEF After
    <3> QED
      BY <3>1 DEF HandFits, InFlight
  <2>2. CASE kind \in Cached
    <3>1. session'[s].pc = "put"
      BY <2>2, CommitHand
    <3>2. Shown([row |-> session[s].new, version |-> session[s].base])'
      BY <2>2, CommitHand, CommitShows DEF Shown
    <3>3. s \in Workers => OwnUpTo(s, session[s].base)'
      <4>1. CASE Changed(s)
        <5>1. Len(versions') \in Nat /\ session'[s].base = Len(versions')
          BY <2>2, <4>1, CommitHand, CommitShows, CommitStep DEF RecordsInv, Tables
        <5> QED
          BY <5>1 DEF OwnUpTo
      <4>2. CASE ~Changed(s)
        <5>1. versions' = versions /\ session'[s].base = session[s].base
          BY <4>2, CommitHand DEF Commit, CommittedAs
        <5>2. s \in Workers => OwnUpTo(s, session[s].base)
          BY <1>1 DEF HandFits, InFlight, Commit, At
        <5> QED
          BY <5>1, <5>2 DEF OwnUpTo
      <4> QED
        BY <4>1, <4>2
    <3> QED
      BY <1>2, <2>2, <3>1, <3>2, <3>3 DEF HandFits
  <2> QED
    BY <2>1, <2>2
<1> QED
  BY <1>3, <1>4

LEMMA CommitEntries ==
    ASSUME RecordsInv, FollowInv, NEW s \in Sessions, Commit(s)
    PROVE  \A p \in Processes : EntryFits(p)'
<1>1. /\ \A p \in Processes : EntryFits(p)
      /\ UNCHANGED <<kind, cache, poisoned>>
  BY CommitKeeps DEF FollowInv
<1>2. (Early' <=> Early) /\ \A p : Readable(p)' <=> Readable(p)
  BY <1>1 DEF Early, Readable
<1>3. \A p \in Processes : Shown(cache[p]) => Shown(cache[p])'
  <2> TAKE p \in Processes
  <2> PICK e : e = cache[p]
    OBVIOUS
  <2>1. Shown(e) => Shown(e)'
    BY CommitKeeps
  <2> QED
    BY <1>1, <2>1 DEF Shown
<1>4. ASSUME NEW p \in Processes, ~(p = s /\ s \in Workers)
      PROVE  EntryFits(p)'
  <2>1. p \in Workers => /\ p # Process(s) /\ p \in Sessions /\ session'[p] = session[p]
    BY <1>4, CommitHand, RecordsAssumption DEF Process, Sessions, Only
  <2>2. Ahead(p)' <=> Ahead(p)
    BY <1>2, <2>1 DEF Ahead
  <2>3. ShowsCommitted(p)'
    BY <1>1, <1>2, <1>3, <2>2 DEF EntryFits, ShowsCommitted
  <2>4. ShowsComing(p)'
    <3>1. ASSUME Ahead(p)
          PROVE  Changed(p)' <=> Changed(p)
      <4>1. p \in Workers /\ session[p].pc = "commit" /\ p \in Sessions /\ session'[p] = session[p]
        BY <2>1, <3>1 DEF Ahead
      <4>2. session[p].base # 0 => session[p].base \in 1..Len(versions)
        BY <4>1 DEF RecordsInv, Fits, Holds
      <4>3. session[p].base # 0 => Was(p)' = Was(p)
        BY <4>1, <4>2, CommitKeeps DEF Was
      <4> QED
        BY <4>1, <4>3 DEF Changed
    <3> QED
      BY <1>1, <2>1, <2>2, <3>1 DEF EntryFits, ShowsComing, Ahead
  <2>5. ShowsOwn(p)'
    <3>1. ASSUME p \in Workers, OwnUpTo(p, cache[p].version)
          PROVE  OwnUpTo(p, cache[p].version)'
      <4> PICK n : n = cache[p].version
        OBVIOUS
      <4>1. OwnUpTo(p, n)'
        BY <2>1, <3>1, CommitKeeps
      <4> QED
        BY <1>1, <4>1 DEF OwnUpTo
    <3> QED
      BY <1>1, <1>2, <2>1, <3>1 DEF EntryFits, ShowsOwn
  <2> QED
    BY <1>1, <2>3, <2>4, <2>5 DEF EntryFits
<1>5. ASSUME s \in Workers
      PROVE  EntryFits(s)'
  <2>1. s \in Processes
    BY <1>5 DEF Processes
  <2>2. CASE kind \notin Cached
    <3>1. cache'[s] = None /\ ~Readable(s)' /\ ~Ahead(s)'
      BY <1>1, <1>2, <2>1, <2>2 DEF EntryFits, Readable, Ahead, Early
    <3> QED
      BY <1>1, <3>1 DEF EntryFits, ShowsCommitted, ShowsComing, ShowsOwn
  <2>3. CASE kind \in Cached
    <3>1. session'[s].pc = "put" /\ ~Ahead(s)'
      BY <2>3, CommitHand DEF Ahead
    <3>2. ShowsCommitted(s)'
      <4>1. CASE ~Ahead(s)
        BY <1>1, <1>2, <1>3, <2>1, <4>1 DEF EntryFits, ShowsCommitted
      <4>2. CASE Ahead(s)
        <5>1. cache[s] = [row |-> session[s].new, version |-> CommittedAs(s)]
          BY <1>1, <2>1, <2>3, <4>2, CommitShows DEF EntryFits, ShowsComing
        <5>2. Shown(cache[s])'
          BY <1>1, <2>3, <5>1, CommitShows DEF Shown
        <5> QED
          BY <5>2 DEF ShowsCommitted
      <4> QED
        BY <4>1, <4>2
    <3> QED
      BY <1>1, <2>3, <3>1, <3>2 DEF EntryFits, ShowsComing, ShowsOwn
  <2> QED
    BY <2>2, <2>3
<1> QED
  BY <1>4, <1>5

LEMMA CommitFollows ==
    ASSUME RecordsInv, FollowInv, NEW s \in Sessions, Commit(s)
    PROVE  FollowInv'
BY CommitHands, CommitEntries DEF FollowInv

-----------------------------------------------------------------------------
(* Rollbacks, passes and restarts.                                          *)

LEMMA RollbackFollows ==
    ASSUME RecordsInv, FollowInv, NEW s \in Sessions, session[s].pc = "commit", Rollback(s)
    PROVE  FollowInv'
<1>1. Only(s) /\ session'[s].pc \in {"step", "failed"} /\ UNCHANGED <<kind, versions>>
  BY FailsHand DEF Rollback
<1>2. HandFits(s, session'[s])
  BY <1>1, EmptyHand DEF Resting
<1>3. Process(s) \in Processes /\ EntryFits(Process(s)) /\ session'[s].pc # "put"
  BY <1>1 DEF Process, Processes, FollowInv
<1>4. ~Ahead(Process(s))'
  BY <1>1, RecordsAssumption DEF Ahead, Process
<1>5. CASE s \in Workers /\ session[s].op = "sync" /\ Early
  <2>1. /\ poisoned' = poisoned \cup {s} /\ Process(s) = s /\ kind \in Cached
        /\ \/ cache' = cache
           \/ cache' = [cache EXCEPT ![s] = Broken]
    BY <1>5 DEF Rollback, Process, Early
  <2>2. OnlyOf(s)
    BY <1>3, <2>1 DEF OnlyOf, RecordsInv, CacheFits
  <2>3. EntryFits(Process(s))'
    BY <1>1, <1>4, <2>1 DEF EntryFits, ShowsCommitted, ShowsComing, ShowsOwn, Readable
  <2> QED
    BY <1>1, <1>2, <2>2, <2>3, OthersKept
<1>6. CASE ~(s \in Workers /\ session[s].op = "sync" /\ Early)
  <2>1. UNCHANGED <<poisoned, cache>>
    BY <1>6 DEF Rollback
  <2>2. ~Ahead(Process(s))
    BY <1>6, RecordsAssumption DEF Ahead, Process
  <2>3. OnlyOf(s)
    BY <2>1 DEF OnlyOf
  <2>4. Readable(Process(s))' <=> Readable(Process(s))
    BY <2>1 DEF Readable, Process
  <2> PICK p \in Processes : p = Process(s)
    BY <1>3
  <2>5. Shown(cache[p])' <=> Shown(cache[p])
    BY <1>1, <2>1 DEF Shown
  <2>6. OwnUpTo(p, cache[p].version)' <=> OwnUpTo(p, cache[p].version)
    BY <1>1, <2>1 DEF OwnUpTo
  <2>7. (Readable(p)' <=> Readable(p)) /\ ~Ahead(p) /\ ~Ahead(p)' /\ EntryFits(p)
    <3>1. s \in Workers => p = s
      BY DEF Process
    <3>2. s \notin Workers => p \notin Workers
      BY RecordsAssumption DEF Process
    <3> QED
      BY <1>1, <1>3, <2>1, <2>2, <3>1, <3>2 DEF Readable, Ahead
  <2>8. p \in Workers => session[p].pc # "put"
    BY RecordsAssumption DEF Process
  <2>9. EntryFits(p)'
    BY <1>1, <2>1, <2>5, <2>6, <2>7, <2>8 DEF EntryFits, ShowsCommitted, ShowsComing, ShowsOwn
  <2>10. EntryFits(Process(s))'
    BY <2>9 DEF Process
  <2> QED
    BY <1>1, <1>2, <2>3, <2>10, OthersKept
<1> QED
  BY <1>5, <1>6

LEMMA FinishFollows ==
    ASSUME RecordsInv, FollowInv, NEW s \in Sessions, Finish(s)
    PROVE  FollowInv'
<1>1. CASE CommitConflicts(s) \/ CommitFails(s)
  BY <1>1, RollbackFollows DEF CommitConflicts, CommitFails, At
<1> QED
  BY <1>1, ListRowsFollows, FetchedFollows, CommitFollows, PutCommittedFollows DEF Finish

\* The dictionary of a worker that holds nothing any more shows nothing.
LEMMA DropStep ==
    ASSUME FollowInv, NEW w \in Workers, UNCHANGED <<kind, versions>>, Only(w), OnlyOf(w),
           session'[w].pc \in Resting, cache'[w] = None
    PROVE  FollowInv'
<1>1. w \in Sessions /\ Process(w) = w
  BY DEF Sessions, Process
<1>2. HandFits(w, session'[w])
  BY <1>1, EmptyHand
<1>3. ~Ahead(w)' /\ ~Readable(w)'
  BY DEF Ahead, Readable, Resting
<1>4. EntryFits(w)'
  BY <1>3 DEF EntryFits, ShowsCommitted, ShowsComing, ShowsOwn
<1>5. EntryFits(Process(w))'
  BY <1>1, <1>4 DEF Process
<1> QED
  BY <1>1, <1>2, <1>5, OthersKept

LEMMA TakesHand ==
    ASSUME RecordsInv, NEW w \in Workers, NEW op, NEW pc, NEW base, NEW new,
           Takes(w, op, pc, base, new)
    PROVE  /\ Only(w) /\ session'[w].pc = pc /\ session'[w].op = op /\ session'[w].base = base
           /\ session'[w].new = new
<1>1. w \in Sessions
  BY DEF Sessions
<1> DEFINE x == [Idle EXCEPT !.pc = pc, !.op = op, !.amount = 1, !.base = base, !.new = new,
                             !.todo = Tail(session[w].todo)]
<1>2. x.pc = pc /\ x.op = op /\ x.base = base /\ x.new = new
  BY DEF Idle
<1>3. session' = [session EXCEPT ![w] = x]
  BY DEF Takes
<1> HIDE DEF x
<1> QED
  BY <1>1, <1>2, <1>3 DEF RecordsInv, Only

LEMMA TakesFollows ==
    ASSUME RecordsInv, FollowInv, NEW w \in Workers, OnlySession, session[w].pc = "step",
           NEW op, NEW pc \in {"step", "list", "load"}, NEW base, NEW new,
           Takes(w, op, pc, base, new), pc = "load" => op = "sync"
    PROVE  FollowInv'
<1>1. w \in Sessions
  BY DEF Sessions
<1>2. HandFits(w, session'[w]) /\ Only(w) /\ session'[w].pc = pc
  BY TakesHand DEF HandFits, InFlight
<1> QED
  BY <1>1, <1>2, HandStep DEF OnlySession

LEMMA SkipsFollows ==
    ASSUME RecordsInv, FollowInv, NEW w \in Workers, UNCHANGED <<kind, versions, cache, poisoned>>,
           session[w].pc = "step", Skips(w)
    PROVE  FollowInv'
<1>1. w \in Sessions
  BY DEF Sessions
<1>2. Only(w) /\ session'[w].pc = "step"
  BY TakesHand DEF Skips
<1> QED
  BY <1>1, <1>2, EmptyStep DEF Resting

\* A pass that reads the row and goes straight to the commit.
LEMMA TakesUpFollows ==
    ASSUME RecordsInv, FollowInv, NEW w \in Workers, OnlySession, session[w].pc = "step",
           NEW op, NEW new, op # "sync", Takes(w, op, "commit", Len(versions), new)
    PROVE  FollowInv'
<1>1. w \in Sessions
  BY DEF Sessions
<1>2. /\ Only(w) /\ session'[w].pc = "commit" /\ session'[w].op = op
      /\ session'[w].base = Len(versions)
  BY TakesHand
<1>3. HandFits(w, session'[w])
  BY <1>2, LatestFacts DEF HandFits
<1> QED
  BY <1>1, <1>2, <1>3, HandStep DEF OnlySession

LEMMA StartPassFollows ==
    ASSUME RecordsInv, FollowInv, NEW w \in Workers, StartPass(w)
    PROVE  FollowInv'
<1>1. w \in Sessions /\ w \in Processes /\ Process(w) = w
  BY DEF Sessions, Processes, Process
<1>2. PICK steps : Todo(w, steps)
  BY DEF StartPass
<1>3. Only(w) /\ session'[w].pc = "step"
  BY <1>1, <1>2 DEF Todo, Only, RecordsInv, Idle
<1>4. CASE UNCHANGED <<cache, cold, poisoned>>
  BY <1>1, <1>3, <1>4, EmptyStep DEF StartPass, At, Resting
<1>5. CASE cache' = [cache EXCEPT ![w] = None] /\ poisoned' = poisoned \ {w}
  <2>1. cache'[w] = None /\ OnlyOf(w)
    BY <1>1, <1>5 DEF RecordsInv, CacheFits, OnlyOf
  <2> QED
    BY <1>3, <2>1, DropStep DEF StartPass, Resting
<1> QED
  BY <1>4, <1>5 DEF StartPass

LEMMA PassFollows == ASSUME RecordsInv, FollowInv, NEW w \in Workers, Pass(w) PROVE FollowInv'
<1>0. w \in Sessions /\ w \in Processes /\ Process(w) = w
  BY DEF Sessions, Processes, Process
<1>1. CASE BeginSync(w) \/ RebuildTopology(w) \/ BeginList(w)
  BY <1>1, TakesFollows DEF BeginSync, RebuildTopology, BeginList, NextIs, At
<1>2. CASE Recalculate(w)
  BY <1>2, TakesUpFollows, SkipsFollows DEF Recalculate, NextIs, At, OnlySession
<1>3. CASE FuseCached(w)
  <2>1. session[w].pc = "step" /\ OnlySession
    BY <1>3 DEF FuseCached, NextIs, At
  <2>2. CASE Skips(w)
    BY <2>1, <2>2, SkipsFollows DEF OnlySession
  <2>3. CASE Fails(w)
    BY <1>0, <2>1, <2>3, FailsFollows
  <2>4. CASE Takes(w, "fuse", "commit", Len(versions), Fused(1))
    BY <2>1, <2>4, TakesUpFollows
  <2> QED
    BY <1>3, <2>2, <2>3, <2>4 DEF FuseCached
<1>4. CASE LoadEdges(w)
  <2>1. session[w].pc = "step" /\ OnlySession
    BY <1>4 DEF LoadEdges, NextIs, At
  <2>2. CASE Skips(w)
    BY <2>1, <2>2, SkipsFollows DEF OnlySession
  <2>3. CASE Fails(w)
    BY <1>0, <2>1, <2>3, FailsFollows
  <2>4. CASE Takes(w, "list", "list", 0, NoRow)
    BY <2>1, <2>4, TakesFollows
  <2> QED
    BY <1>4, <2>2, <2>3, <2>4 DEF LoadEdges
<1>5. CASE Relink(w)
  <2>1. session[w].pc = "step" /\ Skips(w) /\ UNCHANGED <<kind, versions, poisoned>>
    BY <1>5 DEF Relink, NextIs, At
  <2>2. CASE cache' = cache
    BY <2>1, <2>2, SkipsFollows
  <2>3. CASE cache' = [cache EXCEPT ![w] = None]
    <3>1. cache'[w] = None /\ OnlyOf(w)
      BY <1>0, <2>1, <2>3 DEF RecordsInv, CacheFits, OnlyOf
    <3>2. Only(w) /\ session'[w].pc = "step"
      BY <2>1, TakesHand DEF Skips
    <3> QED
      BY <2>1, <3>1, <3>2, DropStep DEF Resting
  <2> QED
    BY <1>5, <2>2, <2>3 DEF Relink
<1>6. CASE Warm(w)
  BY <1>6, SkipsFollows DEF Warm, NextIs, At
<1>7. CASE EndPass(w)
  <2>1. Only(w) /\ session'[w].pc = "idle" /\ session[w].pc = "step"
    BY <1>0, <1>7 DEF EndPass, At, Only, RecordsInv, Idle
  <2> QED
    BY <1>0, <1>7, <2>1, EmptyStep DEF EndPass, OnlySession, Resting
<1>8. CASE RestartWorker(w)
  <2>1. cache'[w] = None /\ OnlyOf(w)
    BY <1>0, <1>8 DEF RestartWorker, RecordsInv, CacheFits, OnlyOf
  <2>2. Only(w) /\ session'[w].pc = "idle"
    BY <1>0, <1>8 DEF RestartWorker, Only, RecordsInv, Idle
  <2> QED
    BY <1>8, <2>1, <2>2, DropStep DEF RestartWorker, Resting
<1> QED
  BY <1>1, <1>2, <1>3, <1>4, <1>5, <1>6, <1>7, <1>8, StartPassFollows DEF Pass

LEMMA RestartApiFollows == ASSUME RecordsInv, FollowInv, RestartApi PROVE FollowInv'
<1>1. UNCHANGED <<kind, versions, poisoned>>
  BY DEF RestartApi
<1>2. ASSUME NEW s \in Sessions
      PROVE  /\ s \in Workers => session'[s] = session[s]
             /\ HandFits(s, session'[s])
  <2>1. session[s] \in Session /\ HandFits(s, session[s])
    BY DEF RecordsInv, FollowInv
  <2>2. CASE session'[s] = session[s]
    BY <2>1, <2>2
  <2>3. CASE session'[s] # session[s]
    <3>1. s \in Requests /\ session'[s] = [session[s] EXCEPT !.pc = "failed"]
      BY <2>3 DEF RestartApi
    <3>2. session'[s].pc = "failed" /\ s \notin Workers
      BY <2>1, <3>1, RecordsAssumption DEF Session
    <3> QED
      BY <3>2, EmptyHand DEF Resting
  <2> QED
    BY <2>2, <2>3
<1>3. \A s \in Sessions : HandFits(s, session[s])'
  BY <1>1, <1>2, SameFacts
<1>4. ASSUME NEW p \in Processes
      PROVE  EntryFits(p)'
  <2>1. CASE p = API
    <3>1. cache'[p] = None /\ p \notin Workers
      BY <2>1, RecordsAssumption DEF RestartApi, RecordsInv, CacheFits
    <3> QED
      BY <3>1 DEF EntryFits, ShowsCommitted, ShowsComing, ShowsOwn, Readable, Ahead
  <2>2. CASE p # API
    <3>1. cache'[p] = cache[p] /\ (p \in Workers => session'[p] = session[p])
      BY <1>2, <2>2 DEF RestartApi, RecordsInv, CacheFits, Sessions
    <3> QED
      BY <1>1, <3>1, EntryKept DEF FollowInv
  <2> QED
    BY <2>1, <2>2
<1> QED
  BY <1>3, <1>4 DEF FollowInv

LEMMA StutterFollows == ASSUME FollowInv, UNCHANGED recordVars PROVE FollowInv'
<1>1. UNCHANGED <<kind, versions, cache, session, poisoned>>
  BY DEF recordVars
<1>2. \A s \in Sessions : HandFits(s, session[s])'
  BY <1>1, SameFacts DEF FollowInv
<1>3. \A p \in Processes : EntryFits(p)'
  BY <1>1, EntryKept DEF FollowInv
<1> QED
  BY <1>2, <1>3 DEF FollowInv

LEMMA NextFollows ==
    ASSUME RecordsInv, FollowInv, [RecordsNext]_recordVars
    PROVE  FollowInv'
<1>1. CASE \E q \in Requests : Ask(q) \/ Look(q) \/ Move(q)
  BY <1>1, AskFollows, LookFollows, MoveFollows
<1>2. CASE \E s \in Sessions : Sync(s) \/ Finish(s)
  BY <1>2, SyncFollows, FinishFollows
<1>3. CASE \E w \in Workers : Pass(w)
  BY <1>3, PassFollows
<1> QED
  BY <1>1, <1>2, <1>3, RestartApiFollows, StutterFollows DEF RecordsNext

LEMMA InitFollows == ASSUME RecordsInit PROVE FollowInv
<1>1. RecordsInv
  BY InitInv
<1>2. \A s \in Sessions : session[s].pc = "idle"
  BY DEF RecordsInit, Idle
<1>3. \A s \in Sessions : HandFits(s, session[s])
  BY <1>2, EmptyHand DEF Resting
<1>4. ASSUME NEW p \in Processes
      PROVE  EntryFits(p)
  <2>1. ~Ahead(p)
    BY <1>2 DEF Ahead, Sessions
  <2>2. CASE cache[p] = None /\ kind \notin Cached
    BY <2>1, <2>2 DEF EntryFits, ShowsCommitted, ShowsComing, ShowsOwn, Readable
  <2>3. CASE cache[p] = None /\ kind \in Cached
    BY <2>1, <2>3 DEF EntryFits, ShowsCommitted, ShowsComing, ShowsOwn, Readable
  <2>4. CASE cache[p] # None
    <3>1. /\ Exists /\ kind \in Cached
          /\ cache[p] = [row |-> Current, version |-> Len(versions)]
      BY <2>4 DEF RecordsInit
    <3>2. Shown(cache[p]) /\ OwnUpTo(p, cache[p].version)
      BY <1>1, <3>1, LatestFacts
    <3> QED
      BY <2>1, <3>1, <3>2 DEF EntryFits, ShowsCommitted, ShowsComing, ShowsOwn
  <2> QED
    BY <2>2, <2>3, <2>4
<1> QED
  BY <1>3, <1>4 DEF FollowInv

\* Whatever requests, passes, failures and restarts overlap, a dictionary shows
\* what was committed at some time, unless its process rolled back a sync that
\* had put its object there already, and while a worker is between passes its
\* dictionary is no older than the last thing it wrote itself.
THEOREM DictionariesAlwaysFollow == RecordsSpec => []DictionariesFollow
<1>1. RecordsInit => RecordsInv /\ FollowInv
  BY InitInv, InitFollows
<1>2. RecordsInv /\ FollowInv /\ [RecordsNext]_recordVars => RecordsInv' /\ FollowInv'
  BY NextStep, NextFollows
<1>3. RecordsInv /\ FollowInv => DictionariesFollow
  <2> SUFFICES ASSUME RecordsInv, FollowInv PROVE DictionariesFollow
    OBVIOUS
  <2>1. CacheWasCommitted
    BY DEF FollowInv, EntryFits, ShowsCommitted, Shown, Ahead, Readable, At, CacheWasCommitted
  <2>2. WorkerSeesOwnWrites
    BY DEF FollowInv, EntryFits, ShowsOwn, OwnUpTo, Readable, Busy, Processes,
       WorkerSeesOwnWrites
  <2> QED
    BY <2>1, <2>2 DEF DictionariesFollow
<1> QED
  BY <1>1, <1>2, <1>3, PTL DEF RecordsSpec
=============================================================================
