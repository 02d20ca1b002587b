------------------------------ MODULE Findings ------------------------------
(***************************************************************************)
(* The findings of one asset: vulnerability scans that report, evidence    *)
(* and close them, and analysts who triage them through the API.           *)
(*                                                                         *)
(* Every scan task and every request has its own database session.  A      *)
(* session reads a row, decides on what it read, and sends an UPDATE of    *)
(* the columns it changed: at that flush the row is locked until the       *)
(* session commits, and nobody else sees the change before.  When a        *)
(* session commits is left to what else happens in it: new evidence, a     *)
(* recommendation its process has not seen, the end of the reconciliation. *)
(***************************************************************************)
EXTENDS Integers, Sequences, FiniteSets

CONSTANTS
    Fingerprints, \* findings the asset can have, one per template
    Scans,         \* scan runs that scan the asset's scope
    Analysts,     \* requests to triage a finding
    Processes,    \* API processes and workers
    Hashes,       \* evidence hashes
    Reports,      \* what a scanner may print: sequences of Entry
    TemplateSets, \* what the steps may be configured to look for
    PassesOf,     \* PassesOf[r]: the vulnerability scans r consists of
    ProcessOf,    \* ProcessOf[s]: the process that serves s
    TriageOf,     \* TriageOf[q]: the finding q is about
    External,     \* whether the asset is exposed to the internet
    None

Sessions == Scans \cup Analysts
Severities == {"info", "low", "critical"}
FindingStatuses == {"open", "acknowledged", "resolved", "suppressed"}
Active == {"open", "acknowledged"}
Entry == [finding: Fingerprints, hash: Hashes, severity: Severities]

ASSUME FindingsAssumption ==
    /\ None \notin Scans \cup Fingerprints
    /\ Scans \cap Analysts = {}
    /\ Reports \subseteq Seq(Entry)
    /\ TemplateSets \subseteq SUBSET Fingerprints
    /\ PassesOf \in [Scans -> Nat \ {0}]
    /\ ProcessOf \in [Sessions -> Processes]
    /\ TriageOf \in [Analysts -> Fingerprints]

VARIABLES
    row,       \* row[f]: the committed row of f, or Absent
    history,   \* history[f]: the committed finding_history rows of f
    evidence,  \* evidence[h]: the finding whose evidence has hash h, or None
    known,     \* known[p]: recommendations the process has recorded
    snapshot,  \* snapshot[p]: how many findings of each status p last counted
    pending,   \* pending[s]: what s has flushed and not committed, by finding
    session,   \* session[s]: where s is and what it has read
    inTurn     \* whether sessions wait for each other

findingVars == <<row, history, evidence, known, snapshot, pending, session, inTurn>>

\* closed: closed_by_scan (last_scan_missing never differs from it);
\* detected: last_detected_scan_run_id; again: last_seen > first_seen.
Row == [status: FindingStatuses, severity: Severities, closed: BOOLEAN,
        detected: Scans \cup {None}, again: BOOLEAN]
Absent == [status |-> "absent", severity |-> "info", closed |-> FALSE,
           detected |-> None, again |-> FALSE]
Rows == Row \cup {Absent}

\* A history entry: the column (status or closed) and its two values.
StatusChange(old, new) == [column |-> "status", old |-> old, new |-> new]
Flag(closed) == IF closed THEN "closed" ELSE "found"
ClosedChange(old, new) == [column |-> "closed", old |-> Flag(old), new |-> Flag(new)]
Change == [column: {"status"}, old: FindingStatuses \cup {"absent"}, new: FindingStatuses]
          \cup [column: {"closed"}, old: {"closed", "found"}, new: {"closed", "found"}]

Columns == {"status", "severity", "meta", "again"}
Untouched == [columns |-> {}, new |-> Absent, log |-> <<>>, insert |-> FALSE]
Write == [columns: SUBSET Columns, new: Rows, log: Seq(Change), insert: BOOLEAN]

Points == {"idle", "read", "flush", "evidence", "advise", "reconcile", "close",
        "passed", "triage", "answer", "done", "failed"}
Session == [pc: Points, pass: Nat, todo: Seq(Entry), templates: SUBSET Fingerprints,
            processed: SUBSET Fingerprints, made: SUBSET Fingerprints,
            loaded: [Fingerprints -> Rows], to: FindingStatuses]
NoRows == [f \in Fingerprints |-> Absent]
Idle == [pc |-> "idle", pass |-> 0, todo |-> <<>>, templates |-> {},
         processed |-> {}, made |-> {}, loaded |-> NoRows, to |-> "open"]

Rules == {"external_critical_finding", "rediscovered_finding", "critical_finding",
          "low_finding", "high_risk_asset"}
NoneCounted == [st \in FindingStatuses |-> 0]

FindingsTypeOK ==
    /\ row \in [Fingerprints -> Rows]
    /\ history \in [Fingerprints -> Seq(Change)]
    /\ evidence \in [Hashes -> Fingerprints \cup {None}]
    /\ known \in [Processes -> SUBSET ((Fingerprints \cup {None}) \X Rules)]
    /\ snapshot \in [Processes -> [FindingStatuses -> Nat]]
    /\ pending \in [Sessions -> [Fingerprints -> Write]]
    /\ session \in [Sessions -> Session]
    /\ inTurn \in BOOLEAN

FindingsInit ==
    /\ row = [f \in Fingerprints |-> Absent]
    /\ history = [f \in Fingerprints |-> <<>>]
    /\ evidence = [h \in Hashes |-> None]
    /\ known = [p \in Processes |-> {}]
    /\ snapshot = [p \in Processes |-> NoneCounted]
    /\ pending = [s \in Sessions |-> [f \in Fingerprints |-> Untouched]]
    /\ session = [s \in Sessions |-> Idle]
    /\ inTurn \in BOOLEAN

-----------------------------------------------------------------------------
(* What a session sees and what its commit does.                            *)

Touched(s, f) == pending[s][f] # Untouched
Busy(s) == session[s].pc \notin {"idle", "done", "failed"}
Turn(s) == inTurn => \A t \in Sessions \ {s} : ~Busy(t)

\* UPDATE writes the columns the object changed, over whatever is there.
Applied(w, old) ==
    IF w.insert THEN w.new
    ELSE [status   |-> IF "status" \in w.columns THEN w.new.status ELSE old.status,
          severity |-> IF "severity" \in w.columns THEN w.new.severity ELSE old.severity,
          closed   |-> IF "meta" \in w.columns THEN w.new.closed ELSE old.closed,
          detected |-> IF "meta" \in w.columns THEN w.new.detected ELSE old.detected,
          again    |-> IF "again" \in w.columns THEN w.new.again ELSE old.again]

View(s, f) == IF Touched(s, f) THEN Applied(pending[s][f], row[f]) ELSE row[f]

\* An UPDATE (or an INSERT of the same fingerprint) waits for the session
\* that has the row.
Unlocked(s, f) == \A t \in Sessions \ {s} : ~Touched(t, f)

Differing(old, new) ==
    {c \in Columns : CASE c = "status"   -> new.status # old.status
                       [] c = "severity" -> new.severity # old.severity
                       [] c = "meta"     -> \/ new.closed # old.closed
                                            \/ new.detected # old.detected
                       [] c = "again"    -> new.again # old.again}

\* A flush after an earlier one of the same transaction adds to it.
Flushed(s, f, columns, new, log) ==
    LET before == pending[s][f]
    IN  [columns |-> before.columns \cup columns, new |-> new,
         log |-> before.log \o log, insert |-> before.insert]

Commit(s, writes) ==
    /\ row' = [f \in Fingerprints |->
                 IF writes[f] # Untouched THEN Applied(writes[f], row[f]) ELSE row[f]]
    /\ history' = [f \in Fingerprints |-> history[f] \o writes[f].log]
    /\ pending' = [pending EXCEPT ![s] = [f \in Fingerprints |-> Untouched]]

\* generate_finding_snapshot, as s sees the table (closings pending in the same
\* session do not change a status).
Counts(s) == [st \in FindingStatuses |-> Cardinality({f \in Fingerprints : View(s, f).status = st})]

NoCommit == UNCHANGED <<row, history, pending>>
Entered(r) == Head(session[r].todo)

-----------------------------------------------------------------------------
(* A scan: one pass per tool of a vulnerability-scan step.                  *)

\* The tool has run; process_discovered_findings gets its parsed output,
\* which lists only what the configured templates look for.
BeginPass(r, report, templates) ==
    /\ \/ session[r].pc = "idle" /\ Turn(r)
       \/ session[r].pc = "passed" /\ session[r].pass < PassesOf[r]
    /\ \A k \in 1..Len(report) : report[k].finding \in templates
    /\ session' = [session EXCEPT ![r] =
         [Idle EXCEPT !.pc = IF report = <<>> THEN "reconcile" ELSE "read",
                      !.pass = session[r].pass + 1, !.todo = report,
                      !.templates = templates]]
    /\ NoCommit /\ UNCHANGED <<evidence, known, snapshot, inTurn>>

\* SELECT by fingerprint.  A row the loop variable still refers to comes back
\* as the object it is, not as the table has it.
SelectFinding(r) ==
    /\ session[r].pc = "read"
    /\ LET f == Entered(r).finding
           object == IF session[r].loaded[f] # Absent THEN session[r].loaded[f]
                     ELSE View(r, f)
       IN  session' = [session EXCEPT ![r].pc = "flush",
                                      ![r].processed = @ \cup {f},
                                      ![r].loaded = [NoRows EXCEPT ![f] = object]]
    /\ NoCommit /\ UNCHANGED <<evidence, known, snapshot, inTurn>>

\* No row: INSERT.  If somebody has inserted it since, the unique fingerprint
\* makes the flush raise, which is Fail.
CreateFinding(r) ==
    LET f == Entered(r).finding
        new == [status |-> "open", severity |-> Entered(r).severity,
                closed |-> FALSE, detected |-> r, again |-> FALSE]
    IN  /\ session[r].pc = "flush"
        /\ session[r].loaded[f] = Absent
        /\ Unlocked(r, f)
        /\ row[f] = Absent
        /\ pending' = [pending EXCEPT ![r][f] =
             [columns |-> Columns, new |-> new, insert |-> TRUE,
              log |-> <<StatusChange("absent", "open")>>]]
        /\ session' = [session EXCEPT ![r].pc = "evidence", ![r].loaded[f] = new,
                                      ![r].made = @ \cup {f}]
        /\ UNCHANGED <<row, history, evidence, known, snapshot, inTurn>>

\* All entries of a pass have one time: what the pass has made itself is not
\* seen later than it was first.
SeenBefore(r) == Entered(r).finding \notin session[r].made
Stamp(new) == IF new.again THEN {"again"} ELSE {}

Redetected_Slip(r, old, severity) ==  \* suppressed findings are reopened as well
    [status   |-> IF old.status \in Active THEN old.status ELSE "open",
     severity |-> severity,
     closed   |-> FALSE, detected |-> r, again |-> SeenBefore(r)]
Redetected(r, old, severity) ==
    [status   |-> IF old.status = "resolved" THEN "open" ELSE old.status,
     severity |-> severity,
     closed   |-> FALSE, detected |-> r, again |-> SeenBefore(r)]

RedetectionLog_Slip(old) ==  \* the history of the reopened status is forgotten
    IF old.closed THEN <<ClosedChange(TRUE, FALSE)>> ELSE <<>>
RedetectionLog_Slip2(old) ==  \* the old values are read after the reset
    (IF old.closed THEN <<ClosedChange(FALSE, FALSE)>> ELSE <<>>) \o
    (IF old.status = "resolved" THEN <<StatusChange("resolved", "open")>> ELSE <<>>)
RedetectionLog(old) ==
    (IF old.closed THEN <<ClosedChange(TRUE, FALSE)>> ELSE <<>>) \o
    (IF old.status = "resolved" THEN <<StatusChange("resolved", "open")>> ELSE <<>>)

UpdateFinding(r) ==
    LET f == Entered(r).finding
        old == session[r].loaded[f]
        new == Redetected(r, old, Entered(r).severity)
    IN  /\ session[r].pc = "flush"
        /\ old # Absent
        /\ Unlocked(r, f)
        /\ pending' = [pending EXCEPT ![r][f] =
             Flushed(r, f, Differing(old, new) \cup Stamp(new), new, RedetectionLog(old))]
        /\ session' = [session EXCEPT ![r].pc = "evidence", ![r].loaded[f] = new]
        /\ UNCHANGED <<row, history, evidence, known, snapshot, inTurn>>

\* create_evidence looks the hash up among all findings' evidence and commits
\* only if it has a new one to store.
CreateEvidence(r) ==
    LET h == Entered(r).hash
    IN  /\ session[r].pc = "evidence"
        /\ session' = [session EXCEPT ![r].pc = "advise"]
        /\ \/ /\ evidence[h] = None
              /\ evidence' = [evidence EXCEPT ![h] = Entered(r).finding]
              /\ Commit(r, pending[r])
           \/ /\ evidence[h] # None
              /\ NoCommit /\ UNCHANGED evidence
        /\ UNCHANGED <<known, snapshot, inTurn>>

\* The rule that applies to a finding; info has none of its own.
RulesFor(v) ==
    IF External /\ v.severity = "critical" THEN {"external_critical_finding"}
    ELSE IF v.again THEN {"rediscovered_finding"}
    ELSE IF v.severity = "critical" THEN {"critical_finding"}
    ELSE IF v.severity = "low" THEN {"low_finding"}
    ELSE {}

\* generate_asset_recommendations as s sees the table; whether the asset's
\* risk score reaches 80 is left open.
Recommendations(s, highRisk) ==
    UNION {{f} \X RulesFor(View(s, f)) : f \in {g \in Fingerprints : View(s, g).status \in Active}}
    \cup (IF highRisk THEN {<<None, "high_risk_asset">>} ELSE {})

\* record_recommendation commits (its audit entry) when it meets one that the
\* process has not recorded before, and otherwise not.
Recommend(s, highRisk) ==
    LET advice == Recommendations(s, highRisk)
        p == ProcessOf[s]
    IN  /\ known' = [known EXCEPT ![p] = @ \cup advice]
        /\ IF advice \subseteq known[p]
             THEN NoCommit
             ELSE Commit(s, pending[s])

Advise(r) ==
    /\ session[r].pc = "advise"
    /\ \E highRisk \in BOOLEAN : Recommend(r, highRisk)
    /\ session' = [session EXCEPT
         ![r].todo = Tail(@),
         ![r].pc = IF Len(session[r].todo) = 1 THEN "reconcile" ELSE "read"]
    /\ snapshot' = [snapshot EXCEPT ![ProcessOf[r]] = Counts(r)]
    /\ UNCHANGED <<evidence, inTurn>>

\* reconcile_findings: active findings the step looked for, that no scan has
\* closed and that this tool did not report.
Missing(r) ==
    {f \in session[r].templates \ session[r].processed :
        View(r, f).status \in Active /\ ~View(r, f).closed}

ReadForReconcile(r) ==
    /\ session[r].pc = "reconcile"
    /\ session' = [session EXCEPT ![r].pc = "close",
         ![r].loaded = [f \in Fingerprints |->
                          IF f \in Missing(r) THEN View(r, f) ELSE Absent]]
    /\ NoCommit /\ UNCHANGED <<evidence, known, snapshot, inTurn>>

ClosingLog(old) == <<ClosedChange(old.closed, TRUE)>>

\* The one commit at the end also commits whatever the pass still has pending.
CommitReconcile(r) ==
    LET missing == {f \in Fingerprints : session[r].loaded[f] # Absent}
        closing(f) == [session[r].loaded[f] EXCEPT !.closed = TRUE]
    IN  /\ session[r].pc = "close"
        /\ \A f \in missing : Unlocked(r, f)
        /\ Commit(r, [f \in Fingerprints |->
             IF f \in missing
             THEN Flushed(r, f, {"meta"}, closing(f), ClosingLog(session[r].loaded[f]))
             ELSE pending[r][f]])
        /\ session' = [session EXCEPT ![r].pc = "passed", ![r].loaded = NoRows]
        /\ snapshot' = IF missing = {} THEN snapshot
                       ELSE [snapshot EXCEPT ![ProcessOf[r]] = Counts(r)]
        /\ UNCHANGED <<evidence, known, inTurn>>

\* Before the SELECT the entry's host is looked up; if two assets answer to it
\* the lookup raises, and the task's handler commits what the pass has flushed.
AmbiguousHost(r) ==
    /\ session[r].pc = "read"
    /\ Commit(r, pending[r])
    /\ session' = [session EXCEPT ![r] = [Idle EXCEPT !.pc = "failed"]]
    /\ UNCHANGED <<evidence, known, snapshot, inTurn>>

EndScan(r) ==
    /\ session[r].pc = "passed"
    /\ session[r].pass = PassesOf[r]
    /\ session' = [session EXCEPT ![r] = [Idle EXCEPT !.pc = "done"]]
    /\ NoCommit /\ UNCHANGED <<evidence, known, snapshot, inTurn>>

-----------------------------------------------------------------------------
(* Triage: acknowledge, resolve, suppress.                                  *)

\* The router loads the row; update_status gets the same object back.
Triage(q, to) ==
    LET f == TriageOf[q]
    IN  /\ session[q].pc = "idle"
        /\ Turn(q)
        /\ row[f] # Absent
        /\ session' = [session EXCEPT ![q] =
             [Idle EXCEPT !.pc = IF row[f].status = to THEN "done" ELSE "triage",
                          !.to = to, !.loaded = [NoRows EXCEPT ![f] = row[f]]]]
        /\ NoCommit /\ UNCHANGED <<evidence, known, snapshot, inTurn>>

FlushTriage(q) ==
    LET f == TriageOf[q]
        old == session[q].loaded[f]
        new == [old EXCEPT !.status = session[q].to]
    IN  /\ session[q].pc = "triage"
        /\ Unlocked(q, f)
        /\ pending' = [pending EXCEPT ![q][f] =
             Flushed(q, f, {"status"}, new, <<StatusChange(old.status, new.status)>>)]
        /\ session' = [session EXCEPT ![q].pc = "answer"]
        /\ UNCHANGED <<row, history, evidence, known, snapshot, inTurn>>

\* The recommendations are recomputed, the client gets its 200, and the
\* request's session is closed: what is not committed by then is rolled back.
AnswerTriage(q) ==
    /\ session[q].pc = "answer"
    /\ \E highRisk \in BOOLEAN :
         LET advice == Recommendations(q, highRisk)
             p == ProcessOf[q]
         IN  /\ known' = [known EXCEPT ![p] = @ \cup advice]
             /\ IF advice \subseteq known[p]
                  THEN /\ pending' = [pending EXCEPT ![q] = [f \in Fingerprints |-> Untouched]]
                       /\ UNCHANGED <<row, history>>
                  ELSE Commit(q, pending[q])
    /\ session' = [session EXCEPT ![q].pc = "done"]
    /\ snapshot' = [snapshot EXCEPT ![ProcessOf[q]] = Counts(q)]
    /\ UNCHANGED <<evidence, inTurn>>

-----------------------------------------------------------------------------
(* Failures.                                                                *)

\* Any statement can raise: a lost connection, a deadlock between two flushes,
\* a unique key.  The transaction is rolled back and the scan or request ends.
Fail(s) ==
    /\ Busy(s)
    /\ pending' = [pending EXCEPT ![s] = [f \in Fingerprints |-> Untouched]]
    /\ session' = [session EXCEPT ![s] = [Idle EXCEPT !.pc = "failed"]]
    /\ UNCHANGED <<row, history, evidence, known, snapshot, inTurn>>

\* A process that starts again has recorded no recommendation and counted
\* nothing.
RestartProcess(p) ==
    /\ known[p] # {} \/ snapshot[p] # NoneCounted
    /\ \A s \in Sessions : ProcessOf[s] = p => ~Busy(s)
    /\ known' = [known EXCEPT ![p] = {}]
    /\ snapshot' = [snapshot EXCEPT ![p] = NoneCounted]
    /\ UNCHANGED <<row, history, evidence, pending, session, inTurn>>

-----------------------------------------------------------------------------
(* Priorities: what an asset and its findings are ranked by.               *)

\* What else is known of the asset: its exposure, a risk score of 80 or more,
\* a high or critical criticality.
AssetFacts == [external: BOOLEAN, highRisk: BOOLEAN, vital: BOOLEAN]
Weight(factor) == CASE factor = "critical_finding"     -> 30
                    [] factor = "high_risk_asset"      -> 25
                    [] factor = "internet_exposed"     -> 20
                    [] factor = "rediscovered_finding" -> 15
                    [] factor = "high_criticality"     -> 10

FactsScore(facts) ==
    (IF facts.highRisk THEN Weight("high_risk_asset") ELSE 0)
    + (IF facts.external THEN Weight("internet_exposed") ELSE 0)
    + (IF facts.vital THEN Weight("high_criticality") ELSE 0)

FindingPriority(v, facts) ==
    FactsScore(facts)
    + (IF v.severity = "critical" THEN Weight("critical_finding") ELSE 0)
    + (IF v.again THEN Weight("rediscovered_finding") ELSE 0)

AssetPriority_Slip(facts) ==  \* one finding decides, as for a finding
    FactsScore(facts)
    + (IF \A f \in Fingerprints : row[f].status \in Active => row[f].severity = "critical"
         THEN Weight("critical_finding") ELSE 0)
AssetPriority(facts) ==
    LET active == {row[f] : f \in {g \in Fingerprints : row[g].status \in Active}}
    IN  FactsScore(facts)
        + (IF \E v \in active : v.severity = "critical" THEN Weight("critical_finding") ELSE 0)
        + (IF \E v \in active : v.again THEN Weight("rediscovered_finding") ELSE 0)

-----------------------------------------------------------------------------
ScanStep(r) ==
    \/ \E report \in Reports, templates \in TemplateSets : BeginPass(r, report, templates)
    \/ SelectFinding(r)
    \/ AmbiguousHost(r)
    \/ CreateFinding(r)
    \/ UpdateFinding(r)
    \/ CreateEvidence(r)
    \/ Advise(r)
    \/ ReadForReconcile(r)
    \/ CommitReconcile(r)
    \/ EndScan(r)

TriageStep(q) ==
    \/ \E to \in FindingStatuses \ {"open"} : Triage(q, to)
    \/ FlushTriage(q)
    \/ AnswerTriage(q)

FindingsNext ==
    \/ \E r \in Scans : ScanStep(r)
    \/ \E q \in Analysts : TriageStep(q)
    \/ \E s \in Sessions : Fail(s)
    \/ \E p \in Processes : RestartProcess(p)

FindingsSpec == FindingsInit /\ [][FindingsNext]_findingVars

-----------------------------------------------------------------------------
(* What must hold however the sessions interleave.                          *)

\* The entries of a log about one column: the last one tells its value, and
\* in a chain each starts from the value the one before it ended with.
About(log, column) == {k \in DOMAIN log : log[k].column = column}
Tells(log, column, value) ==
    \E k \in About(log, column) :
        log[k].new = value /\ \A j \in About(log, column) : j <= k
Chained(log, column) ==
    \A j, k \in About(log, column) :
        j < k /\ (\A i \in About(log, column) : i <= j \/ k <= i) => log[k].old = log[j].new

\* The last status_change row of a finding tells its status: no commit, of
\* whatever stale object, changes the one without the other.
HistoryTellsStatus ==
    \A f \in Fingerprints : row[f] # Absent => Tells(history[f], "status", row[f].status)

\* A finding marked closed by a scan has that closing as its last
\* metadata_change row.
ClosedIsLogged ==
    \A f \in Fingerprints : row[f].closed => Tells(history[f], "closed", "closed")

\* A committed finding has its evidence stored, if under another finding:
\* the transaction that inserts the row commits no sooner.
RowsAreEvidenced ==
    \A f \in Fingerprints : row[f] # Absent =>
        \E report \in Reports : \E k \in 1..Len(report) :
            report[k].finding = f /\ evidence[report[k].hash] # None

\* Rows, history and evidence explain one another, however sessions interleave
\* and fail (process_discovered_findings, reconcile_findings, update_status).
HistoryExplainsRow == HistoryTellsStatus /\ ClosedIsLogged /\ RowsAreEvidenced

\* An asset ranks no lower than any of its active findings, with the two scores
\* computed by separate code from separate queries.
AssetOutranksFindings ==
    \A facts \in AssetFacts, f \in Fingerprints :
        row[f].status \in Active => FindingPriority(row[f], facts) <= AssetPriority(facts)

-----------------------------------------------------------------------------
(* What holds when sessions wait for each other.                            *)

\* Each history row starts from the value the one before it ended with.
HistoryIsAChain ==
    inTurn => \A f \in Fingerprints, column \in {"status", "closed"} :
        Chained(history[f], column)

\* After a pass, what it reported is there, reopened and attributed to it;
\* what it looked for and did not report is inactive or marked closed.
PassIsReconciled ==
    \A r \in Scans : inTurn /\ session[r].pc = "passed" =>
        /\ \A f \in session[r].processed :
              row[f] # Absent /\ row[f].status # "resolved"
              /\ ~row[f].closed /\ row[f].detected = r
        /\ \A f \in session[r].templates \ session[r].processed :
              row[f].status \in Active => row[f].closed

\* When a pass that reported something ends, the worker's counts are those of
\* the table, though they were taken before the commit.
SnapshotAfterPass ==
    \A r \in Scans : inTurn /\ session[r].pc = "passed" /\ session[r].processed # {} =>
        snapshot[ProcessOf[r]] = Counts(r)

\* Sessions that wait for each other leave a coherent history, a reconciled
\* table and true counts.
PassesInTurnReconcile == HistoryIsAChain /\ PassIsReconciled /\ SnapshotAfterPass

\* A scan changes a status only by inserting the finding or by reopening a
\* resolved one: what an analyst acknowledged or suppressed stays so.
ScansRespectTriage ==
    [][inTurn => \A f \in Fingerprints : row'[f].status # row[f].status =>
         \/ row[f].status \in {"absent", "resolved"} /\ row'[f].status = "open"
         \/ \E q \in Analysts : /\ TriageOf[q] = f
                                /\ session[q].pc = "answer"
                                /\ row'[f].status = session[q].to]_findingVars
=============================================================================
