------------------------------ MODULE Records -------------------------------
(***************************************************************************)
(* The governed records: compliance assessments, knowledge, quantified     *)
(* risks, threat intelligence, resilience plans, SOC analytics, nodes and  *)
(* edges of the intelligence graph.  Their services share one shape: read  *)
(* the row, validate on the row, write row, history and outbox in one      *)
(* transaction and, for all but two kinds, put the object in a dictionary  *)
(* of the process after (or before) the commit.                            *)
(*                                                                         *)
(* The model follows one record of one kind.  The requests of the API      *)
(* overlap; each worker process runs one pass at a time, in which it syncs *)
(* the record with what the program ships and, for threats, fuses it.  A   *)
(* node is one of an asset, which the passes make; an edge is one a        *)
(* request made between two nodes, for no pass finds any to make.          *)
(***************************************************************************)
EXTENDS Integers, Sequences

CONSTANTS
    Kinds,       \* the kinds of record to consider
    Requests,    \* requests to the API, all served by one process
    Workers,     \* worker processes
    MaxPasses,   \* passes a worker makes
    MaxTroubles, \* commits the database refuses and restarts
    API,         \* the API process
    None

Graph == {"node", "edge"}
Listed == {"grc", "knowledge", "risk"}            \* a request can list the rows
Cached == Listed \cup {"threat"} \cup Graph       \* kept in a dictionary too
Sessions == Requests \cup Workers
Processes == Workers \cup {API}

ASSUME RecordsAssumption ==
    /\ Kinds \subseteq Cached \cup {"resilience", "analytics"}
    /\ Requests \cap Workers = {}
    /\ Workers # {}
    /\ API \notin Workers
    /\ None \notin Processes
    /\ MaxPasses \in Nat
    /\ MaxTroubles \in Nat

VARIABLES
    kind,     \* what the record is
    versions, \* the committed values of its row with the process that wrote each
    log,      \* the committed history rows that name a change of status
    evidence, \* committed evidence rows (grc)
    gaps,     \* committed gap rows (grc)
    cache,    \* cache[p]: what the dictionary of p holds of the record
    session,  \* session[s]: where a request or a pass is, and what it has read
    cold,     \* cold[w]: w has not finished the bootstrap of a run
    passes,   \* passes[w]: passes w has started
    troubles, \* refused commits and restarts so far
    poisoned, \* processes whose uncommitted sync was rolled back
    relinked  \* workers that have put a plain dict in the place of a TenantCacheDict

recordVars == <<kind, versions, log, evidence, gaps, cache, session, cold,
                passes, troubles, poisoned, relinked>>

Statuses == {"ACTIVE", "IN_REVIEW", "COMPLIANT", "NON_COMPLIANT", "CLOSED",
             "REVIEW", "APPROVED", "ARCHIVED", "IN_TRIAGE", "FUSED", "ACCEPTED",
             "MITIGATED", "PLANNED", "UNDER_REVIEW", "VALIDATED", "COMPLETED", "DEPRECATED"}

\* score: evidence counted (grc), confidence (knowledge: 0 for 70, 1 for 95;
\* threat: 0 for none), exposure (risk), readiness (resilience), weight (edge).
\* tagged: the tag a caller adds to those the record was made with.
Row == [status: Statuses, score: 0..3, tagged: BOOLEAN]
Version == [row: Row, by: Processes]
Entry == [row: Row, version: Nat]
Broken == [row |-> None, version |-> 0] \* an expired object without a session
Change(old, new) == [old |-> old, new |-> new]

Exists == versions # <<>>
Current == versions[Len(versions)].row

-----------------------------------------------------------------------------
(* What the services allow: ALLOWED_TRANSITIONS and the routed endpoints.   *)

NoMoves == [st \in Statuses |-> {}]
GrcAllowed ==
    [NoMoves EXCEPT !["ACTIVE"] = {"IN_REVIEW", "COMPLIANT", "NON_COMPLIANT", "CLOSED"},
                    !["IN_REVIEW"] = {"COMPLIANT", "NON_COMPLIANT", "CLOSED"},
                    !["COMPLIANT"] = {"CLOSED"},
                    !["NON_COMPLIANT"] = {"CLOSED"}]
KnowledgeAllowed ==
    [NoMoves EXCEPT !["ACTIVE"] = {"REVIEW", "APPROVED", "ARCHIVED"},
                    !["REVIEW"] = {"APPROVED", "ARCHIVED"},
                    !["APPROVED"] = {"ARCHIVED"}]
RiskAllowed ==
    [NoMoves EXCEPT !["ACTIVE"] = {"ACCEPTED", "MITIGATED", "CLOSED"},
                    !["ACCEPTED"] = {"CLOSED"},
                    !["MITIGATED"] = {"CLOSED"}]
ThreatAllowed ==
    [NoMoves EXCEPT !["ACTIVE"] = {"IN_TRIAGE", "FUSED", "ARCHIVED"},
                    !["IN_TRIAGE"] = {"FUSED", "ARCHIVED"},
                    !["FUSED"] = {"ARCHIVED"}]
ResilienceAllowed ==
    [NoMoves EXCEPT !["PLANNED"] = {"ACTIVE"},
                    !["ACTIVE"] = {"UNDER_REVIEW", "VALIDATED", "COMPLETED", "CLOSED"},
                    !["UNDER_REVIEW"] = {"VALIDATED", "COMPLETED", "CLOSED"},
                    !["VALIDATED"] = {"COMPLETED", "CLOSED"}]
AnalyticsAllowed ==
    [NoMoves EXCEPT !["ACTIVE"] = {"REVIEW", "COMPLETED", "ARCHIVED"},
                    !["REVIEW"] = {"COMPLETED", "ARCHIVED"},
                    !["COMPLETED"] = {"ARCHIVED"}]
\* deprecate_node, deprecate_edge.
GraphAllowed == [NoMoves EXCEPT !["ACTIVE"] = {"DEPRECATED"}]

Allowed == CASE kind = "grc"        -> GrcAllowed
             [] kind = "knowledge"  -> KnowledgeAllowed
             [] kind = "risk"       -> RiskAllowed
             [] kind = "threat"     -> ThreatAllowed
             [] kind = "resilience" -> ResilienceAllowed
             [] kind = "analytics"  -> AnalyticsAllowed
             [] kind \in Graph       -> GraphAllowed

\* The statuses a request can ask for.
Targets == CASE kind = "grc"        -> {"IN_REVIEW", "COMPLIANT", "NON_COMPLIANT", "CLOSED"}
             [] kind = "knowledge"  -> {"REVIEW", "APPROVED", "ARCHIVED"}
             [] kind = "risk"       -> {"ACCEPTED", "MITIGATED", "CLOSED"}
             [] kind = "threat"     -> {"IN_TRIAGE", "ARCHIVED"}
             [] kind = "resilience" -> {"ACTIVE", "VALIDATED", "COMPLETED", "CLOSED"}
             [] kind = "analytics"  -> {"REVIEW", "ARCHIVED"}
             [] kind \in Graph       -> {"DEPRECATED"}

Terminal(st) == \/ st = "CLOSED"
                \/ st = "ARCHIVED"
                \/ st = "DEPRECATED"
                \/ kind = "resilience" /\ st = "COMPLETED"

\* The rows of these kinds carry a version column that every UPDATE checks.
Versioned == kind \in Cached

-----------------------------------------------------------------------------
(* Sessions.                                                                *)

PCs == {"idle", "gate", "fetched", "list", "load", "count", "flush", "early",
        "commit", "put", "step", "done", "failed"}
Ops == {"none", "get", "list", "create", "transition", "evidence", "fuse", "sync", "recalc"}
Steps == {"sync", "recalc", "fuse", "list", "edges", "relink", "warm"}

\* base: the version read, 0 for none; new: the object as the session has it;
\* amount: the exposure or confidence asked for; tags: the extra tag asked for.
Session == [pc: PCs, op: Ops, to: Statuses, amount: 0..2, tags: BOOLEAN,
            base: Nat, new: Row, todo: Seq(Steps)]
NoRow == [status |-> "ACTIVE", score |-> 0, tagged |-> FALSE]
Idle == [pc |-> "idle", op |-> "none", to |-> "ACTIVE", amount |-> 0, tags |-> FALSE,
         base |-> 0, new |-> NoRow, todo |-> <<>>]

Process(s) == IF s \in Workers THEN s ELSE API
Was(s) == versions[session[s].base].row
Changed(s) == IF session[s].base = 0 \/ session[s].op = "evidence" THEN TRUE
              ELSE session[s].new # Was(s)

Put(p, row, n) == cache' = [cache EXCEPT ![p] = [row |-> row, version |-> n]]

At(s, pc) == session[s].pc = pc
Goes(s, pc) == session' = [session EXCEPT ![s].pc = pc]
After(s) == IF s \in Workers THEN "step" ELSE "done"

\* An exception: a request answers an error; in a pass the rest of the
\* service's block is skipped, in a bootstrap the rest of the task.
Bootstrapping(w) == \E i \in DOMAIN session[w].todo : session[w].todo[i] = "warm"
Fails(s) ==
    session' = [session EXCEPT ![s].pc = IF s \in Workers THEN "step" ELSE "failed",
                               ![s].todo = IF s \in Workers /\ ~Bootstrapping(s)
                                              /\ kind \in Listed
                                           THEN <<"list">> ELSE <<>>]

OnlySession == UNCHANGED <<kind, versions, log, evidence, gaps, cache, cold,
                           passes, troubles, poisoned, relinked>>
OnlyCache == UNCHANGED <<kind, versions, log, evidence, gaps, cold, passes,
                         troubles, poisoned, relinked>>

RecordsTypeOK ==
    /\ kind \in Kinds
    /\ versions \in Seq(Version)
    /\ log \in Seq([old: Statuses \cup {"absent"}, new: Statuses])
    /\ evidence \in Nat
    /\ gaps \in Nat
    /\ cache \in [Processes -> Entry \cup {Broken, None}]
    /\ session \in [Sessions -> Session]
    /\ cold \in [Workers -> BOOLEAN]
    /\ passes \in [Workers -> 0..MaxPasses]
    /\ troubles \in 0..MaxTroubles
    /\ poisoned \subseteq Processes
    /\ relinked \subseteq Workers

\* Readiness follows the status, and only a synchronisation recomputes it.
Readiness(st) == CASE st = "PLANNED"      -> 0
                   [] st = "ACTIVE"       -> 1
                   [] st = "UNDER_REVIEW" -> 2
                   [] OTHER               -> 3
Completeness(n) == IF n < 2 THEN n ELSE 2

FirstStatus == IF kind = "resilience" THEN "PLANNED" ELSE "ACTIVE"
NewRow(amount, tags) ==
    [status |-> FirstStatus, score |-> IF kind \in {"risk", "edge"} THEN amount ELSE 0,
     tagged |-> tags /\ kind \in {"knowledge", "threat"}]

\* Records the system may start with: none, or one at some point of its life.
\* Each has been written by a worker's first pass, an edge by a request, and
\* then by requests.
StartRow(st) ==
    [NewRow(1, FALSE) EXCEPT !.status = st,
        !.score = IF (kind = "knowledge" /\ st = "APPROVED") \/ (kind = "threat" /\ st = "FUSED")
                  THEN 1 ELSE @]
Moved(st) == [row |-> StartRow(st), by |-> API]
Fresh == [row |-> NewRow(1, FALSE), by |-> IF kind = "edge" THEN API ELSE CHOOSE w \in Workers : TRUE]
Created == Change("absent", FirstStatus)

RecordsInit ==
    /\ kind \in Kinds
    /\ evidence = 0 /\ gaps = 0
    /\ \/ versions = <<>> /\ log = <<>>
       \/ versions = <<Fresh>> /\ log = <<Created>>
       \/ \E st \in Allowed[FirstStatus] :
             /\ versions = <<Fresh, Moved(st)>>
             /\ log = <<Created, Change(FirstStatus, st)>>
    /\ cache \in [Processes -> {None} \cup
                    IF Exists /\ kind \in Cached
                    THEN {[row |-> Current, version |-> Len(versions)]} ELSE {}]
    /\ session = [s \in Sessions |-> Idle]
    /\ cold \in [Workers -> BOOLEAN]
    /\ \A w \in Workers :
          cold[w] \/ (cache[w] = None <=> kind = "edge" \/ (Exists /\ kind \notin Cached))
    /\ relinked = {w \in Workers : ~cold[w]}
    /\ passes = [w \in Workers |-> 0]
    /\ troubles = 0
    /\ poisoned = {}

-----------------------------------------------------------------------------
(* Requests.  All but a creation first look the record up.                  *)

Begin(q, op, to, amount, tags, pc) ==
    /\ At(q, "idle")
    /\ session' = [session EXCEPT ![q] = [Idle EXCEPT !.op = op, !.to = to,
                       !.amount = amount, !.tags = tags, !.pc = pc]]
    /\ OnlySession

AskFor(q) == \/ Begin(q, "get", "ACTIVE", 0, FALSE, "gate")
             \/ kind \notin Graph /\ Begin(q, "list", "ACTIVE", 0, FALSE, "list")
AskCreate(q) == \E amount \in 1..2, tags \in BOOLEAN :
    /\ amount = 1 \/ kind \in {"risk", "edge"}
    /\ ~tags \/ kind \in {"knowledge", "threat"}
    /\ Begin(q, "create", "ACTIVE", amount, tags, "load")
AskMove(q) == \E to \in Targets : Begin(q, "transition", to, 0, FALSE, "gate")
AskEvidence(q) == kind = "grc" /\ Begin(q, "evidence", "ACTIVE", 0, FALSE, "gate")
AskFuse(q) == kind = "threat" /\ Begin(q, "fuse", "FUSED", 2, FALSE, "gate")

\* A get answers; a change is refused if what was found is closed.  The
\* routers of threats and of the graph leave that to the service.
InMemory == {"threat"} \cup Graph  \* looked up in the dictionary alone
PassedGate(q, st) ==
    IF session[q].op = "get" THEN "done"
    ELSE IF kind \notin InMemory /\ Terminal(st) THEN "failed"
    ELSE "load"

GateCached(q) ==
    /\ At(q, "gate") /\ kind \in Cached
    /\ cache[API] # None
    /\ Goes(q, IF cache[API] = Broken THEN "failed"
               ELSE PassedGate(q, cache[API].row.status))
    /\ OnlySession

GateUnknown(q) ==
    /\ At(q, "gate") /\ kind \in InMemory
    /\ cache[API] = None
    /\ Goes(q, "failed")
    /\ OnlySession

GateRow(q) ==
    /\ At(q, "gate") /\ kind \notin InMemory
    /\ kind \in Cached => cache[API] = None
    /\ IF ~Exists THEN Goes(q, "failed")
       ELSE IF kind \in Cached
       THEN session' = [session EXCEPT ![q].pc = "fetched", ![q].new = Current,
                                       ![q].base = Len(versions)]
       ELSE Goes(q, PassedGate(q, Current.status))
    /\ OnlySession

\* get_all_*: the compliance and risk repositories return ACTIVE rows only.  The
\* bootstrap of the graph reads all of its rows.
ListRows(s) ==
    /\ At(s, "list")
    /\ IF /\ kind \in Listed \cup Graph /\ Exists
          /\ kind \in {"grc", "risk"} => Current.status = "ACTIVE"
       THEN session' = [session EXCEPT ![s].pc = "fetched", ![s].new = Current,
                                       ![s].op = "list", ![s].base = Len(versions)]
       ELSE Goes(s, After(s))
    /\ OnlySession

\* The answer of the database arrives and goes into the dictionary.
Fetched(s) ==
    /\ At(s, "fetched")
    /\ Put(Process(s), session[s].new, session[s].base)
    /\ Goes(s, IF session[s].op = "list" THEN After(s)
               ELSE PassedGate(s, session[s].new.status))
    /\ OnlyCache

-----------------------------------------------------------------------------
(* transition_status, add_evidence, fuse_threat: read the row again, check, *)
(* change the object.                                                       *)

Ready(s, op) == At(s, "load") /\ session[s].op = op
Stage(s, new) == session' = [session EXCEPT ![s].pc = "commit", ![s].new = new,
                                            ![s].base = Len(versions)]

\* Only an archived threat refuses to go anywhere else; the others that have
\* come to their end are answered as they are.
MovesTo(q, new) ==
    /\ Ready(q, "transition")
    /\ IF Terminal(Current.status)
       THEN Goes(q, IF kind = "threat" /\ session[q].to # Current.status THEN "failed" ELSE "done")
       ELSE IF session[q].to \notin Allowed[Current.status] THEN Goes(q, "failed")
       ELSE Stage(q, new)
    /\ OnlySession

MoveAssessment(q) ==
    kind = "grc" /\ MovesTo(q, [Current EXCEPT !.status = session[q].to])
MoveKnowledge(q) ==
    kind = "knowledge"
    /\ MovesTo(q, [Current EXCEPT !.status = session[q].to,
                                  !.score = IF session[q].to = "APPROVED" THEN 1 ELSE @])
MoveRisk(q) == kind = "risk" /\ MovesTo(q, [Current EXCEPT !.status = session[q].to])
MoveThreat(q) == kind = "threat" /\ MovesTo(q, [Current EXCEPT !.status = session[q].to])
MoveResilience(q) ==
    kind = "resilience" /\ MovesTo(q, [Current EXCEPT !.status = session[q].to])
MoveAnalytics(q) ==
    kind = "analytics" /\ MovesTo(q, [Current EXCEPT !.status = session[q].to])

\* A component that is deprecated already goes into the dictionary again.
Deprecates(q) ==
    /\ Ready(q, "transition")
    /\ session' = [session EXCEPT ![q].base = Len(versions),
                      ![q].pc = IF Terminal(Current.status) THEN "put" ELSE "commit",
                      ![q].new = [Current EXCEPT !.status = "DEPRECATED"]]
    /\ OnlySession
DeprecateNode(q) == kind = "node" /\ Deprecates(q)
DeprecateEdge(q) == kind = "edge" /\ Deprecates(q)

\* The evidence row is flushed first, so the count includes it.
AddEvidence(q) ==
    /\ Ready(q, "evidence")
    /\ IF Terminal(Current.status) THEN Goes(q, "failed")
       ELSE Stage(q, [Current EXCEPT !.score = Completeness(evidence + 1)])
    /\ OnlySession

Fused(confidence) == [Current EXCEPT !.status = "FUSED", !.score = confidence]
FuseThreat(q) ==
    /\ Ready(q, "fuse")
    /\ IF Terminal(Current.status) THEN Goes(q, "done")
       ELSE Stage(q, Fused(session[q].amount))
    /\ OnlySession

-----------------------------------------------------------------------------
(* create_or_sync: find the record by its fingerprint; change it or make    *)
(* it.  A terminal record is left alone.  The sync of a pass runs inside    *)
(* the transaction of its caller and puts the object in the dictionary      *)
(* before that commits; that of the graph has a transaction of its own.     *)

Syncing(s) == Ready(s, "create") \/ Ready(s, "sync")
Early == kind \in Cached \ Graph
BeforeCommit(s) == IF s \in Workers /\ Early THEN "early" ELSE "commit"

Synced_Slip(s, new) ==                       \* terminal records are changed too
    /\ Syncing(s) /\ Exists
    /\ session' = [session EXCEPT ![s].pc = BeforeCommit(s), ![s].base = Len(versions),
                                  ![s].new = new]
    /\ OnlySession

Synced(s, new) ==
    /\ Syncing(s) /\ Exists
    /\ session' = [session EXCEPT ![s].pc = BeforeCommit(s), ![s].base = Len(versions),
                      ![s].new = IF Terminal(Current.status) THEN Current ELSE new]
    /\ OnlySession

SyncMissing(s) ==
    /\ Syncing(s) /\ ~Exists
    /\ session' = [session EXCEPT ![s].pc = "flush", ![s].base = 0,
                      ![s].new = NewRow(session[s].amount, session[s].tags)]
    /\ OnlySession

\* The evidence is counted in a second query.
SyncAssessment(s) ==
    /\ kind = "grc" /\ Syncing(s) /\ Exists
    /\ session' = [session EXCEPT ![s].pc = "count", ![s].base = Len(versions),
                                  ![s].new = Current]
    /\ OnlySession
CountEvidence(s) ==
    /\ At(s, "count")
    /\ session' = [session EXCEPT ![s].pc = BeforeCommit(s),
                      ![s].new.score = IF Terminal(session[s].new.status) THEN @
                                       ELSE Completeness(evidence)]
    /\ OnlySession

\* A new tag is appended to the list the object holds.
Tagging(s) == Current.tagged \/ session[s].tags
SyncKnowledge(s) ==
    kind = "knowledge"
    /\ Synced(s, [Current EXCEPT !.tagged = Tagging(s),
                                 !.score = IF Current.status = "APPROVED" THEN 1 ELSE 0])
SyncRisk(s) == kind = "risk" /\ Synced(s, [Current EXCEPT !.score = session[s].amount])
SyncThreat(s) == kind = "threat" /\ Synced(s, [Current EXCEPT !.tagged = Tagging(s)])
SyncResilience(s) ==
    kind = "resilience" /\ Synced(s, [Current EXCEPT !.score = Readiness(Current.status)])
SyncAnalytics(s) == kind = "analytics" /\ Synced(s, Current)
SyncNode(s) == kind = "node" /\ Synced(s, Current)
SyncEdge(s) == kind = "edge" /\ Synced(s, [Current EXCEPT !.score = session[s].amount])

\* The INSERT waits for a session that has inserted the fingerprint, and
\* fails if that session commits.
HoldsKey(s) == session[s].base = 0 /\ (At(s, "early") \/ At(s, "commit"))
Flush(s) ==
    /\ At(s, "flush")
    /\ ~\E t \in Sessions : HoldsKey(t)
    /\ IF Exists THEN Fails(s) ELSE Goes(s, BeforeCommit(s))
    /\ OnlySession

EarlyPut(s) ==
    /\ At(s, "early")
    /\ Put(Process(s), session[s].new, session[s].base + IF Changed(s) THEN 1 ELSE 0)
    /\ Goes(s, "commit")
    /\ OnlyCache

-----------------------------------------------------------------------------
(* The commit: UPDATE where the version is the one read, history and        *)
(* outbox with it, or nothing.                                              *)

Conflict_Slip(s) == FALSE                    \* no version in the WHERE clause

Conflict(s) == Versioned /\ session[s].base \notin {0, Len(versions)} /\ Changed(s)

\* UPDATE writes the columns that were assigned; appending to a list is not
\* an assignment.
Written(s) ==
    LET new == session[s].new
    IN  IF session[s].base = 0 THEN new
        ELSE [status |-> IF new.status # Was(s).status THEN new.status ELSE Current.status,
              score  |-> IF new.score # Was(s).score THEN new.score ELSE Current.score,
              tagged |-> Current.tagged]
Logged(s) ==
    IF session[s].base = 0 THEN <<Created>>
    ELSE IF session[s].new.status # Was(s).status
    THEN <<Change(Was(s).status, session[s].new.status)>>
    ELSE <<>>

Commit(s) ==
    /\ At(s, "commit") /\ ~Conflict(s)
    /\ IF Changed(s)
       THEN /\ versions' = Append(versions, [row |-> Written(s), by |-> Process(s)])
            /\ log' = log \o Logged(s)
            /\ evidence' = evidence + IF session[s].op = "evidence" THEN 1 ELSE 0
            /\ gaps' = gaps + IF session[s].op = "evidence" /\ session[s].new.score = 1
                              THEN 1 ELSE 0
       ELSE UNCHANGED <<versions, log, evidence, gaps>>
    /\ session' = [session EXCEPT ![s].pc = IF kind \in Cached THEN "put" ELSE After(s),
                      ![s].base = IF Changed(s) THEN Len(versions) + 1 ELSE @]
    /\ UNCHANGED <<kind, cache, cold, passes, troubles, poisoned, relinked>>

\* A rollback expires the objects that had rows: the one a sync has put in
\* the dictionary can no longer be read.  A record that was new, and the
\* copy made of a threat, stay as they are.
Rollback(s) ==
    /\ Fails(s)
    /\ IF s \in Workers /\ session[s].op = "sync" /\ Early
       THEN /\ poisoned' = poisoned \cup {s}
            /\ cache' = IF kind = "threat" \/ session[s].base = 0 THEN cache
                        ELSE [cache EXCEPT ![s] = Broken]
       ELSE UNCHANGED <<poisoned, cache>>
    /\ UNCHANGED <<kind, versions, log, evidence, gaps, cold, passes, relinked>>

CommitConflicts(s) ==
    /\ At(s, "commit") /\ Conflict(s)
    /\ Rollback(s)
    /\ UNCHANGED troubles

\* The database refuses, or the other record of the same sync conflicts.
CommitFails(s) ==
    /\ At(s, "commit") /\ troubles < MaxTroubles
    /\ Rollback(s)
    /\ troubles' = troubles + 1

PutCommitted_Slip(s) ==                      \* under the version that was read
    /\ At(s, "put")
    /\ Put(Process(s), session[s].new, session[s].base - 1)
    /\ Goes(s, After(s))
    /\ OnlyCache

PutCommitted(s) ==
    /\ At(s, "put")
    /\ Put(Process(s), session[s].new, session[s].base)
    /\ Goes(s, After(s))
    /\ OnlyCache

-----------------------------------------------------------------------------
(* The passes of a worker.                                                  *)

PassSteps == CASE kind = "threat" -> <<"sync", "fuse">>
               [] kind \in Listed -> <<"sync", "list">>
               [] kind = "node" -> <<"sync", "relink">>
               [] kind = "edge" -> <<"relink">>
               [] OTHER -> <<"sync">>
\* recalculate_* is awaited in the bootstrap and nowhere else.
BootSteps == CASE kind = "threat" -> <<"sync", "fuse", "warm">>
               [] kind \in {"grc", "knowledge"} -> <<"sync", "recalc", "list", "warm">>
               [] kind = "risk" -> <<"sync", "list", "warm">>
               [] kind = "node" -> <<"list", "edges", "sync", "relink", "warm">>
               [] kind = "edge" -> <<"edges", "relink", "warm">>
               [] OTHER -> <<"sync", "warm">>

Todo(w, steps) == session' = [session EXCEPT ![w] = [Idle EXCEPT !.pc = "step",
                                                                    !.todo = steps]]
\* The pass after the first step of a run, or after a later one.  The run looks
\* for nodes of the intelligence fabric, and as nothing makes one, empties its
\* dictionaries and synchronises everything before its first step too.
StartPass(w) ==
    /\ At(w, "idle") /\ passes[w] < MaxPasses
    /\ passes' = [passes EXCEPT ![w] = @ + 1]
    /\ \/ /\ Todo(w, BootSteps \o PassSteps)
          /\ cache' = [cache EXCEPT ![w] = None]
          /\ cold' = [cold EXCEPT ![w] = TRUE]
          /\ poisoned' = poisoned \ {w}
       \/ ~cold[w] /\ Todo(w, PassSteps) /\ UNCHANGED <<cache, cold, poisoned>>
    /\ UNCHANGED <<kind, versions, log, evidence, gaps, troubles, relinked>>

NextIs(w, what) == At(w, "step") /\ session[w].todo # <<>> /\ Head(session[w].todo) = what
Takes(w, op, pc, base, new) ==
    session' = [session EXCEPT ![w] = [Idle EXCEPT !.pc = pc, !.op = op, !.amount = 1,
                   !.base = base, !.new = new, !.todo = Tail(session[w].todo)]]
Skips(w) == Takes(w, "none", "step", 0, NoRow)

BeginSync(w) ==
    kind # "node" /\ NextIs(w, "sync") /\ Takes(w, "sync", "load", 0, NoRow) /\ OnlySession

\* Every asset of the database gets its node; of the records of the other
\* services none carries a tenant, and they are passed over.
RebuildTopology(w) ==
    kind = "node" /\ NextIs(w, "sync") /\ Takes(w, "sync", "load", 0, NoRow) /\ OnlySession

\* recalculate_assessments: the ACTIVE rows; recalculate_knowledge: all of
\* them, but an archived one is only put in the dictionary again.
Recalculated ==
    [Current EXCEPT !.score = IF kind = "grc" THEN Completeness(evidence)
                              ELSE IF Terminal(Current.status) THEN @
                              ELSE IF Current.status = "APPROVED" THEN 1 ELSE 0]
Recalculate(w) ==
    /\ NextIs(w, "recalc")
    /\ IF Exists /\ (kind = "grc" => Current.status = "ACTIVE")
       THEN Takes(w, "recalc", "commit", Len(versions), Recalculated)
       ELSE Skips(w)
    /\ OnlySession

\* The fusion of a pass asks the dictionary which threats there are.
FuseCached(w) ==
    /\ NextIs(w, "fuse")
    /\ IF cache[w] = None \/ Terminal(cache[w].row.status) THEN Skips(w)
       ELSE IF ~Exists THEN Fails(w)
       ELSE IF Terminal(Current.status) THEN Skips(w)
       ELSE Takes(w, "fuse", "commit", Len(versions), Fused(1))
    /\ OnlySession

BeginList(w) == NextIs(w, "list") /\ Takes(w, "list", "list", 0, NoRow) /\ OnlySession

\* The edges are loaded after the nodes.  Where the links have been made once,
\* the first edge there is ends the task: the plain dict lacks set_for_tenant.
LoadEdges(w) ==
    /\ NextIs(w, "edges")
    /\ \/ kind = "edge" /\ (w \notin relinked \/ ~Exists) /\ Takes(w, "list", "list", 0, NoRow)
       \/ kind = "edge" /\ w \in relinked /\ Exists /\ Fails(w)
       \/ kind = "node" /\ Skips(w)
       \/ kind = "node" /\ w \in relinked /\ Fails(w)
    /\ OnlySession

\* The links of a pass: the edges that are not deprecated leave the dictionary,
\* to be made again between records that carry a tenant; none does.
Relink(w) ==
    /\ NextIs(w, "relink")
    /\ Skips(w)
    /\ relinked' = relinked \cup {w}
    /\ cache' = IF kind = "edge" /\ cache[w] # None /\ ~Terminal(cache[w].row.status)
                THEN [cache EXCEPT ![w] = None] ELSE cache
    /\ UNCHANGED <<kind, versions, log, evidence, gaps, cold, passes, troubles, poisoned>>

Warm(w) ==
    /\ NextIs(w, "warm")
    /\ Skips(w)
    /\ cold' = [cold EXCEPT ![w] = FALSE]
    /\ UNCHANGED <<kind, versions, log, evidence, gaps, cache, passes, troubles,
                   poisoned, relinked>>

EndPass(w) ==
    /\ At(w, "step") /\ session[w].todo = <<>>
    /\ session' = [session EXCEPT ![w] = Idle]
    /\ OnlySession

Busy(s) == session[s].pc \notin {"idle", "done", "failed"}

RestartApi ==
    /\ troubles < MaxTroubles
    /\ troubles' = troubles + 1
    /\ cache' = [cache EXCEPT ![API] = None]
    /\ session' = [s \in Sessions |-> IF s \in Requests /\ Busy(s)
                                      THEN [session[s] EXCEPT !.pc = "failed"] ELSE session[s]]
    /\ UNCHANGED <<kind, versions, log, evidence, gaps, cold, passes, poisoned, relinked>>

RestartWorker(w) ==
    /\ troubles < MaxTroubles
    /\ troubles' = troubles + 1
    /\ cache' = [cache EXCEPT ![w] = None]
    /\ cold' = [cold EXCEPT ![w] = TRUE]
    /\ session' = [session EXCEPT ![w] = Idle]
    /\ poisoned' = poisoned \ {w}
    /\ relinked' = relinked \ {w}
    /\ UNCHANGED <<kind, versions, log, evidence, gaps, passes>>

Ask(q) == AskFor(q) \/ AskCreate(q) \/ AskMove(q) \/ AskEvidence(q) \/ AskFuse(q)
Look(q) == GateCached(q) \/ GateUnknown(q) \/ GateRow(q)
Move(q) == \/ MoveAssessment(q) \/ MoveKnowledge(q) \/ MoveRisk(q) \/ MoveThreat(q)
           \/ MoveResilience(q) \/ MoveAnalytics(q) \/ DeprecateNode(q) \/ DeprecateEdge(q)
           \/ AddEvidence(q) \/ FuseThreat(q)
Sync(s) == \/ SyncMissing(s) \/ SyncAssessment(s) \/ CountEvidence(s) \/ SyncKnowledge(s)
           \/ SyncRisk(s) \/ SyncThreat(s) \/ SyncResilience(s) \/ SyncAnalytics(s)
           \/ SyncNode(s) \/ SyncEdge(s)
           \/ Flush(s) \/ EarlyPut(s)
Finish(s) == \/ ListRows(s) \/ Fetched(s) \/ Commit(s) \/ CommitConflicts(s)
             \/ CommitFails(s) \/ PutCommitted(s)
Pass(w) == \/ StartPass(w) \/ BeginSync(w) \/ RebuildTopology(w) \/ Recalculate(w)
           \/ FuseCached(w) \/ BeginList(w) \/ LoadEdges(w) \/ Relink(w) \/ Warm(w)
           \/ EndPass(w) \/ RestartWorker(w)

RecordsNext ==
    \/ \E q \in Requests : Ask(q) \/ Look(q) \/ Move(q)
    \/ \E s \in Sessions : Sync(s) \/ Finish(s)
    \/ \E w \in Workers : Pass(w)
    \/ RestartApi

RecordsSpec == RecordsInit /\ [][RecordsNext]_recordVars

-----------------------------------------------------------------------------
(* Properties.                                                              *)

\* Under a version check the history rows form one path through the allowed
\* transitions, from the creation to the status the row has, whatever
\* requests and passes overlapped (transition_status, create_or_sync_*).
HistoryTellsStatus ==
    /\ Versioned /\ Exists =>
         /\ log # <<>> /\ log[Len(log)].new = Current.status
         /\ log[1] = Created
         /\ \A i \in 2..Len(log) : /\ log[i].old = log[i - 1].new
                                    /\ log[i].new \in Allowed[log[i].old]
    /\ ~Exists => log = <<>>

\* Scores that are computed from something else agree with it in every
\* committed state: an assessment counts its evidence and has the one gap of
\* its first evidence, confidence in knowledge follows approval, a fused
\* threat has a confidence (add_evidence, recalculate_*, fuse_threat).
ScoreFits ==
    /\ kind = "grc" /\ Exists => /\ Current.score = Completeness(evidence)
                                 /\ gaps = IF evidence = 0 THEN 0 ELSE 1
    /\ kind = "knowledge" /\ Exists =>
         /\ Current.status = "APPROVED" => Current.score = 1
         /\ Current.status \in {"ACTIVE", "REVIEW"} => Current.score = 0
    /\ kind = "threat" /\ Exists => (Current.status = "FUSED" => Current.score # 0)

\* What the tables say of a record is of one piece.
TablesAgree == HistoryTellsStatus /\ ScoreFits

\* A dictionary shows what was committed at some time, or the process rolled
\* a sync back that had already put its object there.  (Tags apart.)
CacheWasCommitted ==
    \A p \in Processes :
        cache[p] \notin {None, Broken} /\ p \notin poisoned
        /\ (p \in Workers => ~(session[p].op = "sync" /\ At(p, "commit"))) =>
            /\ cache[p].version \in 1..Len(versions)
            /\ cache[p].row.status = versions[cache[p].version].row.status
            /\ cache[p].row.score = versions[cache[p].version].row.score

\* While a worker is between passes its dictionary is no older than the last
\* thing it wrote itself, unless a sync of its was rolled back.
WorkerSeesOwnWrites ==
    \A w \in Workers :
        cache[w] \notin {None, Broken} /\ w \notin poisoned /\ ~Busy(w) =>
            \A n \in 1..Len(versions) : versions[n].by = w => n <= cache[w].version

\* A dictionary shows committed values, and a worker's no older than its own.
DictionariesFollow == CacheWasCommitted /\ WorkerSeesOwnWrites

\* Nothing a request or a pass does changes a record in a terminal status:
\* not its status, not its scores, and no evidence is added to it.
TerminalRowsAreFinal ==
    [][Versioned /\ Exists /\ Terminal(Current.status) =>
         versions'[Len(versions')].row = Current /\ evidence' = evidence]_recordVars
=============================================================================
