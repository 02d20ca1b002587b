# AegisX: verification project

TLA+ models of the AegisX backend (`src/backend`), model-checked with TLC on
small instances and proved with TLAPS for all values of their constants.
`PROJECT.json` lists the components, the runs, the lines each definition models,
the hazards, the findings and the theorems.

## The system

AegisX is a FastAPI application and a Celery worker around one PostgreSQL
database and one Redis, which is the broker.  A user defines *workflows*
(sequences of steps, each naming plugins) and starts them on *scopes*; the
worker runs the plugins, stores assets and findings, and after every step makes
a *pass* over a chain of derived "intelligence": drift and alerts, incidents,
recommendations, exposures, postures, risks, threats, plans and more.  Analysts
work on the same records through the API.

What makes the code hard is not its algorithms but who sees what when.

- *Sessions* are configured with `expire_on_commit=False` and `autoflush=False`
  (`infrastructure/database/session.py:33-39`): an object read once keeps the
  values it was read with until somebody refreshes it, and a test made on a
  loaded object is a test of the past.
- *Dictionaries.*  Most services keep a dictionary beside their table, one per
  process.  (A storage factory could put them in Redis, but the setting it asks
  for, `CACHE_PROVIDER`, does not exist in `core/config.py`: every process uses
  its own memory.)  Some services change the dictionary before the row, some
  after the commit, some have no row at all.
- *Cold starts.*  Whether a run begins with a reload of the dictionaries is
  decided by whether there is a node of the intelligence fabric
  (`celery/worker.py:67`), and no code of the application makes one: every run
  of a worker empties and reloads what it knows.  The API never loads anything.
- *Events* are flushed into the caller's transaction by some services and
  committed on their own by others, so that one operation is one, two or more
  commits, with every `await` in between open to the others.

### Inventory

| Component | State | Operations | Hard behaviour | Correct when |
|---|---|---|---|---|
| Workflow engine (`workflow_service`, `celery/worker`) | `scan_runs`, `workflow_events`; the task's objects and indices | start, cancel; the task, some twenty commits per step | cancellations between read and write, edits under a running task, crashes | row and log agree; a completed run ran every step; it ends |
| Plugins (`plugin_service`, `plugins/host`), scopes | `plugins.state`, `plugin_events`, `scopes` | register, approve, disable, deprecate, delete; run | state changed between check and use | only approved plugins run |
| Assets, ports, services (`asset_`, `port_`, `service_service`) | tables with history, no unique keys on fingerprint or host | discovery, port scan, service detection | lookups that raise when two rows answer; whole-column updates from stale copies | one asset per fingerprint, the confidence of the best source |
| Findings (`finding_*`), recommendations, prioritisation | `findings`, history, evidence; recommendations per process | discover, reconcile, triage; advise | several scans and analysts on a row; commits that depend on unrelated new records | history explains the row; scans respect triage |
| Monitoring and alerts (`continuous_refresh_`, `alert_*`) | log, baselines and alerts in memory | refresh, raise, resolve, escalate, triage | replay of all events on each pass, passes that fail half way | a good pass makes up for failed ones |
| Incidents (`incident_*`, `investigation_service`) | `incidents` with version, history, timeline; dictionaries | create, transition, assign, escalate, sync | dictionary before row; other process's dictionary | histories explain rows and dictionaries |
| Remediation, risk acceptance | `remediations`, `risk_acceptances`; dictionaries | sync, update; accept, revoke | two tables, two dictionaries, two commits | one acceptance in force |
| Records kept row first (compliance, knowledge, risk, threats, resilience, SOC analytics, graph) | rows with versions, history, dictionaries | create or sync, transition, evidence, fuse, list; passes and bootstrap | stale answers put into the dictionary, rollbacks under it | tables of one piece; final rows final |
| Records kept dictionary first (hunts, exercises, postures, programs, decisions) | dictionaries, rows with versions, history | create or sync, change of status; passes | commits that overtake the decisions | nothing after a close is recorded |
| Registers (exposures, controls, detections, executive reports, IOCs, plans) | dictionaries only | create or sync, change of status, validate, correlate | a wait in the middle of a validation | history, status and validations agree |
| Drift services (nineteen) | snapshots in memory | compare, emit, snapshot again | failures between these three; snapshots taken by others | a report is a change, a worsening is reported |
| Unit of work, cache bootstrap | one transaction; the reload of dictionaries | commit, roll back; load | modelled inside the components above | |
| Correlation, AI copilot, cases, cache storages, authentication, tools, frontend | | | see "Not modelled" | |

Components call each other in one direction: the engine drives inventory and
findings, findings feed monitoring, monitoring's alerts become incidents, and
the intelligence services read all of them.  What a component reads from
another is a choice from a small set in its module, which is how the modules
compose: each is a process of the whole system with the others as its
environment.  The exceptions, where two components write each other's state, are
modelled together: engine, plugins and scopes in `ScanRun`, remediations and
acceptances in `RiskAcceptance`, findings and recommendations in `Findings`,
alerts' groups and incidents in `Incidents`.

## The modules

An action is what one actor does between two points where another can get in: a
commit, or an `await` after which something read before is used.  Several
components have the same shape in many services.  There one module follows one
record of one *kind*, with the kind a variable that never changes, an operator
or action per service where the services differ, and shared actions where their
code is the same; `map` in `PROJECT.json` gives the lines of each.  A record of one
fingerprint shares neither row nor dictionary entry with another's, so one
record contains all its interactions.

Definitions with the suffix `_Slip` are the definition after them with one
plausible slip; they are no part of a specification and serve to confirm that
each checked property can fail.

### `RunLog`: what the engine promises about a run's log

The `workflow_events` rows of one run as a sequence: opened by
`workflow.started` (or by a lone `workflow.failed`, the refusal), steps
bracketed one at a time and numbered from 1, closed by at most one of
`completed`, `failed`, `cancelled`, erased by the deletion of the workflow and
never written again.  Nothing of the worker is visible in it.

### `ScanRun`: the engine

State: the tables the engine touches (`workflows`, `definition`, `scopes`,
`pluginState`, `status` and `stamped` for `scan_runs`, `events`, `pluginLog`),
what each request has in flight (`request`), and each task's program counter
and local state (`task`): the status its `ScanRun` object holds, the definition
it loaded, its two loop indices, and the `Plugin` object its variable refers
to.  Two history variables (`mark`, `vetted`) exist for the properties only.

`StartWorkflow` commits the row, `Enqueue` / `EnqueueFails` is the `delay()`
after it; `ReadForCancel` / `CommitCancel` are the two halves of a cancellation;
`Load`, `Validate`, `Start`, then per step `Refresh`, `StartStep`, per tool
`Lookup`, `RunPlugin`, `PluginReturns` / `PluginFails`, `Process`, then
`CompleteStep`; and the ends `CompleteRun`, `LogCancelled`, `FailRun`,
`FailOrphan`.  `Abort` is a commit whose foreign key fails because the workflow
was deleted, `Die` a killed worker or an escaped exception.

`Lookup` models SQLAlchemy's identity map: the worker holds one Plugin object
at a time; a SELECT that returns the same row gives that object back with the
attributes it already had.  Step numbers count from 1 where the code's payloads
count from 0; 0 stands for the code's -1.

Left out: payloads, timestamps (except that `end_ts` is set or not),
`plugin_id`, `start_ts`, capabilities that change, ownership of the requester,
the body of the passes between two steps (every exception of them is swallowed;
what they do to the session is in `Die`; what they do is in the modules below),
a second registration of a deleted plugin's name, redelivery of a message by the
broker.  Creating workflows and scopes is left out because nothing can refer to
a new row before it exists.

### `RiskAcceptance`: remediations and accepted risks

A request changes the dict first, at once and validated against the dict, and
then opens a unit of work, reads the row, and commits.  One fingerprint is
modelled.  State: the remediation's row (`remRow`), the entries of its history
that carry a status (`history`), the status of each acceptance row (`accRow`),
each process's dicts (`remCache`, `accCache`), and each request's place and
local variables (`req`): the id it looked up, the status it is writing, the
acceptance it is revoking, the rows its session has read, and whether one of
them has been changed since (`stale`: the version column then makes the commit
raise).  An acceptance is named by the request that grants it.

| Code | Actions |
|---|---|
| `update_status`, `apply_exception` (start, complete, accept-risk, false-positive, defer) | `UpdateStatus`, `GetRem`, `CommitRem` |
| `assign_owner` | `AssignOwner`, `GetRem`, `CommitRem` (no status is written, the version still advances) |
| `sync_recommendation` | `SyncRecommendation`, then `InsertRem` or `GetRem`, `CommitRem` |
| `accept_risk` | `AcceptRisk`, with the remediation's steps, `ApplyException`; `ListExisting`, `RevokeOld` / `GetOld` per earlier acceptance, `CreateAcceptance`, `CommitAcceptance` |
| `revoke_risk` | `RevokeRisk`, `GetAcceptance`, `CommitRevoke`, `Reopen`, `GetRem`, `CommitRem` |
| an await that raises, a client that goes away | `Fail` |
| end and start of a process, `bootstrap` in the worker only | `Restart` |

`ListExisting` distinguishes the two things `existing_ids` can be: the dict's
own list, in which the loop sees what is appended later, or a new empty one.
`GetRem` that finds no row goes on as if it had (`if db_rem:`).

Two specifications share the actions: `Spec` (anything fails, everything
overlaps) and `AdminsInTurnSpec` (administrators wait for one another and
nothing fails by itself).  The second is no claim about how the system is used:
it says under which discipline of its callers the code keeps a promise that it
does not keep without (two acceptances that overlap both stay in force).

Left out: `expire_risk` and `check_expirations`, which only tests call, and with
them the statuses EXPIRING and EXPIRED; severities, due dates, owners and
reasons; snapshots; events and audit entries written after the commit.

### `Inventory`: assets, ports, services

Rows of one scope (`assets`, `ports`, `services`) with their histories
(`assetHistory`, `serviceLog`) and the steps of runs as sessions (`step`: its
place in the tool's output, the row it looked up and the copy it read).
`SelectAsset`, `InsertAsset` / `UpdateAsset`, `LogAsset` are the commits of
`process_discovered_assets`; `FindHost`, `SavePort` those of ports; `FindAddress`,
`InsertService`, `NoteService`, `UpdateService` those of services; `Raise` is the
lookup that finds two rows, `StepFails` anything else.  A discovery tool is known
by the confidence the normalisers give its sightings.  The nested metadata is
compared with an object that was changed in place, so a new `last_seen` alone is
not written (`UpdateAsset`).  `oneByOne` says whether steps wait for each other;
the properties that need it name it.

Left out: titles, banners, technologies, tags; `create_asset`, `update_asset` and
`delete_asset`, which nothing calls.

### `Findings`: scans, triage, recommendations

The findings of one asset.  `row`, `history`, `evidence` are committed; `pending`
is what a session has flushed, which locks the row (`Unlocked`) and which nobody
else sees; `session` is its place and the objects it has loaded; `known` the
recommendations a process has recorded; `snapshot` its status counts.

A pass of a run is `BeginPass`, per entry `SelectFinding`, `CreateFinding` or
`UpdateFinding`, `CreateEvidence`, `Advise`, then `ReadForReconcile` and
`CommitReconcile`.  Who commits is left to what else happens: new evidence
commits, a recommendation not yet recorded commits, the reconciliation commits,
and triage (`Triage`, `FlushTriage`, `AnswerTriage`) commits only if one of its
recommendations is new.  `AmbiguousHost` is the lookup that raises, after which
the task's handler commits what was flushed.  `UPDATE` writes the columns that
changed (`Differing`, `Applied`), the metadata as a whole.  `inTurn` says whether
sessions wait for each other.  `made` is what a pass itself has inserted so far
(`SeenBefore`): a tool may list a finding twice, and the second entry is no
redetection.

### `Monitoring`: drift, baselines, alerts

`facts` is what the database says; `events`, `baseline` and `alerts` the worker's
memory (alerts also the API's); `pass` the stage of the pass, which compares
asset (`CompareAsset`), risk, posture, findings (`CompareFinding` one by one,
`CompareResolved`), then raises, replays, calms and escalates alerts.  Each event
and alert has an audit commit: `Observe` and `Section` end the pass after any of
them.  `Fresh` is the deduplication by fingerprint, `Rebuilt` the rebuilding of baselines
from the log: one that is missing when it is asked for is rebuilt together with
the others of its asset (`WithAsset`) or of its finding (`WithFinding`), so that a
missing posture overwrites the risk baseline the same pass has just compared;
`outcome.rebuilt` remembers the assets it happened to in this pass.  No code renames or deletes an asset, so
`ASSET_ADDED` is the only drift of an asset itself.

### `Incidents`

`row`, `history`, `timeline` are committed; `cache` is each process's dictionary;
`job` what an actor still has to commit; `pass`, `active` and `life` the worker.
Requests are `Transition`, `StartInvestigation`, `AddNote`,
`CompleteInvestigation`, `AssignIncident`, `Escalate`, `EscalateToNamed` and
`LookUpOwner` / `OwnerFound`; their commits `SaveMove`, `FollowUp`, `SaveOwner`.
The worker's are `SyncGroup`, `SaveCreated` and `EscalateOverdue`;
`AlertsChange` is what `Monitoring` does to the groups of active alerts.  `CommitFails`, `RestartApi`, `RestartWorker` are the failures, and
`lost` remembers what they lost, for the properties.  Rows carry a version, so two
overlapping commits cannot both succeed and a commit is one step.

### `Records`: services that read the row first

One record of one of eight kinds: `grc`, `knowledge`, `risk`, `threat`,
`resilience`, `analytics`, and `node` and `edge` of the graph.  `versions` is the
sequence of committed values with the process that wrote each; `log`, `evidence`
and `gaps` the other tables; `cache` the dictionaries, whose entries point at a
version (`Broken` is an expired object no session can load); `session` a request
or a pass.  `Begin`, the three gates, `MovesTo` and its six instances (an archived threat
refuses any other status),
`AddEvidence`, `FuseThreat`, `Synced` with one action per kind, `Flush`,
`EarlyPut`, `Commit`, `CommitConflicts`, `CommitFails`, `Rollback`,
`PutCommitted`, `ListRows`, `Fetched` follow the services; `StartPass` with
`PassSteps` and `BootSteps` the worker; `poisoned` and `relinked` remember a
rollback under a dictionary and the plain dict the graph's links leave behind.
Only the cached kinds carry a version column.

### `Lifecycles`: services that change the dictionary first

One hunt, exercise, posture, program or decision.  `held` is what each process's
dictionary has, `row`, `version` and `log` the tables; `hyps`, `checks` and `known`
the standard hypotheses of hunts and the validations of exercises.
`CreateOrSync…` and the changes of status (`Moves` with one action per method)
check and change the dictionary in one stretch; `LoadRow`, `WriteRow` /
`StaleWrite`, `InsertRow` / `InsertFails` are the transaction; `SeekDecision` and
`KeepDecision` the lookup only decisions have.  `BootstrapValidations` and
`BootstrapRecords` are the two distant parts of a bootstrap, the `…Pass` actions
what a worker does with the record after each step.  `turn` numbers the API's
decisions, for the properties.

### `Registers`: dictionaries without tables

One exposure, control, detection, executive report, IOC or plan in the API or in a
worker: `record`, its history `trail`, the `validations` of a control, and
`links` to what is `around`.  A request looks the record up, waits for the
owner of the scope, and does its work in one stretch (`Creates`, `Moved`,
`ExecuteValidation`), but for a failed validation, which waits for an event in
the middle (`FinishValidation`, `EmitFails`).  `judged` is the place of a request
whose validation is recorded and answered.  `CorrelateControl` breaks on any
detection, because it asks for an attribute detections do not have: a validation
of a control related to one is recorded and then answered with an error.  The
arithmetic of a control's effectiveness is modelled in hundredths, because its
status depends on it.

### `Drift`: nineteen drift services

One kind and scope in one process, the worker or the API.  `live` is what the
process would find, in five facts of which each kind watches some (`About`);
`base` the snapshot; `session` the check in progress; `log` what was compared
and the fate of its events.  Each kind has its snapshot and its comparison as an
operator of its own; the order of steps is `Look`, `Renew` / `Keep`, `Compare`,
`Emit`, `Retake` / `Rekeep` according to the sets `Renewing`, `Suspending`,
`TwoStage`.  `Boot` takes the snapshots of `Bootstrapped` kinds again at the
start of a run.

### The `MC…` modules and the `…Proofs` modules

`MC…` modules give constants their values for TLC.  The theorems are in
`ScansProofs` (about `ScanRun` and `Findings`), `ChangesProofs` (`Inventory` and
`Drift`), `RiskAcceptanceProofs`, `MonitoringProofs`, `IncidentsProofs`,
`RecordsProofs`, `LifecyclesProofs` and `RegistersProofs`.

## Runs

Deadlock is not checked anywhere because the system may rest when nobody asks
for anything.  The run whose name stands in italics ends with a violation: it
shows a disagreement between the code and what the repository says of it, quoted
in the findings of `PROJECT.json`.

| Run | Instance | Checks | Shows |
|---|---|---|---|
| `scanrun_deep` | one run whose definition is edited between two steps with two plugins, none, and one a plugin lacks the capability for | `TypeOK`, `StatusMatchesLog`, `CompletedRanEveryStep`, `CancelStopsWithinOneStep`, `ExecutedPluginsWereApproved`, `ImplementsRunLog`, `QueuedCancelSticks`, `QueuedRunsSettle` | every interleaving of cancellation, edits, failures and crashes at every commit of a two-step run; the log refines `RunLog`; a cancellation of a queued run stands; under fairness a queued run settles unless its task dies |
| *`scanrun_lost_cancel`* | one step, one plugin | `CancelledNeverResumes` | a cancelled run goes back to running |
| `risk_full` | 2 acceptances, a revocation, an operator at the API; a recommendation in the worker; failures, restarts | `TypeOK`, `HistoryMatchesRow`, `OneHolderEach` | audit trail and the hold on acceptances survive everything |
| `risk_admins` | 2 acceptances, a revocation, a status and an owner change | `OneActiveAcceptance`, `AcceptancesInStep` | operators cannot break what administrators taking turns keep |
| `findings` | 2 findings, of which every pass reports one, the same one and then the other, or one twice; 2 runs of which one makes two passes, 1 triage, 1 evidence hash | `HistoryExplainsRow`, `AssetOutranksFindings`, `PassesInTurnReconcile`, `ScansRespectTriage` | row, history and evidence agree however sessions interleave and fail; one after the other they reconcile and respect triage |
| `inventory` | 3 discovery steps of 4 tools, of which three report one name, a port scan, a service detection, 2 hosts | `ConfidenceIsHighest`, `OneAssetPerFingerprint`, `HistoryIsBorneOut` | the confidence is the best source's in every interleaving; in turn, one asset per fingerprint |
| `monitoring` | 1 asset, 1 finding, 1 alert made by hand; 3 changes, 2 failures, 1 restart, 1 escalation | `GoodPassMakesUp`, `TrailTellsStatus`, `SettledAlertsStaySettled` | a good pass makes up for failed ones, but for a risk baseline that a rebuilding put back; settled alerts stay settled |
| `incidents` | 1 incident made by hand, 1 group of alerts, 2 sessions; 2 calls, 2 passes, 1 trouble | `HistoriesExplain`, `PassesKeepUp`, `ClosedBeliefsAreFinal` | what rows, dictionaries and timelines say has its reason in a history or a lost commit; a pass misses no group of alerts and repeats no escalation; a closed incident stays closed, and only the late answer of a look-up gives it another owner |
| `records` | each of 8 kinds; 2 requests, 1 worker, 1 pass, 1 trouble | `TablesAgree`, `DictionariesFollow`, `TerminalRowsAreFinal` | the version check keeps the tables together; dictionaries show what was committed |
| `lifecycles` | each of 5 kinds; 2 requests, 1 worker, 2 passes, 1 trouble | `HistoryTellsTheRow`, `ClosedIsTheLastDecision`, `DriftHasACause`, `NothingIsMadeTwice` | nothing decided after a close is recorded; what the API shows has a row with that status once every request has ended, every decision was committed and no two overtook each other; nothing is made twice |
| `drift` | each of 19 kinds; 2 changes, 3 passes, 1 trouble; or 2 requests | `ReportsAreChanges`, `WorseningIsReported`, `ComparisonsMeet` | reports name changes, but for gaps, which are reported on every pass, and deprecated components of the graph; of thirteen kinds no change falls between two comparisons of a run; of the six others one does that is made while the pass is between comparison and snapshot |
| `registers` | each of 6 kinds; 3 requests, 2 techniques, 2 passes, 1 trouble | `TrailTellsStatus`, `StatusTellsValidations`, `RecordedOnce`, `EndIsTheEnd` | overlapping validations keep status and score in step; a validation is counted once, from the moment it is recorded, whether it is answered or breaks; an end stays an end |

Why the bounds are enough.

- `ScanRun`: a run's own behaviour repeats per step and per tool, so two steps,
  one of them with two tools, contain every pair of consecutive positions;
  cancellation has one slot in flight because a second request reads and writes
  the same row the same way; two runs share nothing but workflow, scope and
  plugins, which any other actor may change as well.
- `RiskAcceptance`: every interaction is between two requests on one row or one
  dict entry, so two acceptances with a revocation contain every pair and a
  bystander.  A request runs once: the same call made again is another request.
- `Findings`, `Inventory`: two writers of one row, and a third session that comes
  after a race between them; a pass that sees again what another one closed.  A
  pass of `Findings` reports the second finding, or both, so the first one is
  inserted, missed, closed and seen again; the analyst works on that one.  The
  two share an evidence hash, which is what makes commits move.  A pass that
  reports nothing reconciles nothing, so none is empty.
- `Monitoring`: three changes are the least that let a thing leave a state, come
  back, and leave again around a failed pass; two failures are the least that
  leave a score in the log and no posture in the baselines; assets are compared one after
  the other and share only the order.
- `Incidents`, `Records`, `Lifecycles`, `Registers`: two requests race, a worker
  (or a third request, where a validation waits in the middle) sees the result
  half done, one commit fails or one process restarts.  The record starts at any
  point of its life, so no call is spent on getting there.  `MCRecords` has a `VIEW`
  that hides what an ended session still had in hand: nothing reads it again.
- `Drift`: a comparison involves two snapshots and a failure between them; three
  passes contain a failed one between two good ones, and a run that begins
  anywhere among them.

Larger instances of `Findings`, `Inventory`, `Monitoring`, `Incidents`,
`Lifecycles` and `Drift` (another asset, analyst, host, group, session, worker,
pass or failure) were explored at random without a violation.  The type
invariants `FindingsTypeOK`, `InventoryTypeOK`, `MonitoringTypeOK` and
`IncidentsTypeOK` hold on the same instances: add them to `INVARIANTS` of the cfg
to check them; those of the other modules are proved.

Fairness: weak fairness of each task's next step in `ScanRun`, no more: a worker
that stays up keeps executing and a broker that accepted a message delivers it.
Requests, edits and crashes are never forced.  `QueuedRunsSettle` excepts tasks
that died: messages are acknowledged before the task runs and nothing looks for
orphaned runs, so a killed worker leaves its run in `running` for good.  Nothing
is said about liveness elsewhere: requests and passes do not wait for each
other, so one that does not fail just ends.

## Proofs

Every theorem holds for every value of the constants that satisfies the module's
`ASSUME`; TLC evaluates these assumptions on the instances of the runs.  Most of
them only say that sets are finite and bounds natural numbers; the others say
that a value standing for "nothing" is not one of the values it stands beside
(`NoneAssumption`, `NoSnapshotAssumption`).

**`ScansProofs`**, the engine: `TypeCorrect`, `StatusAgreesWithLog`,
`CompletedIsComplete`, `OnlyVettedPluginsRun`, `ReturnsSettled`, `CancelIsHeeded`,
and `EngineImplementsRunLog`, the refinement.  None of the properties is inductive: row and log alone do not say
what the task may still do to them.  `IInv` adds, per run, four parts: the loop
indices stay within the loaded definition (`IndexInv`), the statuses the row can
have at each program counter (`RowInv`), the exact prefix of the log at each
program counter (`LogInv`, with `Ordered` for the bracketing of steps), and that
an object that says "approved" was loaded while the plugin was (`PluginInv`).  A
step of one run leaves the invariant of every other run alone (`OtherRuns`,
`RunFrame`); the remaining lemmas take the four parts action by action.
`CancelIsHeeded` adds `CancelInv`: at which program counters a task whose run
stands cancelled has begun no step since, and at which the one it may.

**`ScansProofs`**, findings: `RowsAreExplained`, `AssetRanksFirst`,
`PassesReconcile`, `TriageIsRespected`.  `FindingInv` says of each session and
finding that what is flushed is a change of the row as committed, with a log
that tells it (`WriteInv`), that the loaded objects agree with what was flushed
(`LoadInv`), that a row about to be inserted has its evidence stored or is the
entry whose evidence comes next (`EvidenceInv`), and that no two sessions have
written the same row (`Locked`).  `TurnInv` is about sessions that wait: what a
session has read is still the row, each log is a chain from where the row began
to where it is (`Told`), and the reconciliation has before it just what the pass
did not report (`ScanTurn`).  No recursion is involved: the last word on a column
is that of the entry with the highest index (`About`, `Tells`), and the lemmas on
logs say how it changes when a log is extended by an entry or by a session's.
Then follow the steps: writes and commits first, the steps of one session next,
the sessions that wait last.

**`RiskAcceptanceProofs`**: `TypeCorrect`, `AuditTrailMatchesRow`, `OneHolder` under
`Spec`, if acceptances are granted and revoked by processes that do not reload
their dicts (`AdministratorsAssumption`: the endpoints are the API's,
`bootstrap_cache` is the worker's); `OneActive` and `InStep` under
`AdminsInTurnSpec`, if administrators are served by one process
(`AdminsShareProcess`; with two API processes each knows only its own
acceptances, and the promise is not kept).  That two requests do not take up the
same acceptance follows from the dict: an acceptance in a request's hand is
REVOKED in the dict of its process (`HandInv`), whoever takes one up finds it
ACTIVE, and both look at the same dict because an acceptance is known only where
it was granted (`CacheInv`).  `OneActiveAcceptance` needs to know where dict and
table may differ: exactly at the acceptances some request has in hand and at the
one being created (`AgreeInv`); and that whoever creates one has first emptied
the dict of ACTIVE ones, or found it without any entry (`ListInv`).

**`ChangesProofs`**, the inventory: `ConfidenceIsAlwaysHighest`, `FingerprintsAreUnique`,
`HistoryIsAlwaysBorneOut`.  A stale copy is written over a newer row, yet the
confidence stays the best source's: not only every row but every copy a step
holds is rated by its best source (`RowsFit`), and `Merged` keeps that.  The other
two are about steps that run one after the other: `InTurn` says what a step that
is alone under way knows (its copy is the row, its lookup still holds), and
`TurnFrame` that the others rest.

**`ChangesProofs`**, drift: `DriftTypeCorrect`, `ReportsAlwaysChanges`,
`WorseningAlwaysReported`, `ComparisonsAlwaysMeet`.  `DriftInv` says of which facts
every snapshot was taken, the one kept as well as the one a session has in hand
(`WatchFits`, `ChecksFit`), and that every entry of the log tells what the
comparison of its facts tells (`LogTells`).  Three lemmas on the nineteen
comparisons do the rest: the same facts tell nothing but deprecated components
(`SameFactsTellNothing`), a lower score is told (`WorseIsTold`), and so is a record
that fell (`FallIsTold`); they take the kinds one by one.  `ComparisonsMeet` needs
`ChainInv`: entries are ordered by pass, and the snapshot held (`BaseMeets`) or the
one to come (`NewMeets`) is at the point where the entry that the next comparison
will follow ended, whether that entry's check went through or broke off.

**`IncidentsProofs`**: `HistoriesAlwaysExplain`, `ClosedStaysClosed`,
`PassesAlwaysKeepUp`.  What is known of an incident (`Known`: statuses logged,
about to be committed, or lost with a commit) only grows (`Grows`), and every
dictionary, row and job under way has its statuses from there (`Believable`,
`JobFits`).  `RowsTell` adds that the API knows no incident without a row, `Kept`
what the worker's pass may count on.  Steps are of four classes with a lemma
each: decisions (`DecidesFacts`), commits (`CommitFacts`), failures and restarts
(`DropsFacts`), and steps of the pass that commit nothing (`PassesOnFacts`).
`OwnersStay` goes through the actions for the owner of a closed incident: the only
step that touches it is the late answer of a look-up (`LateOwner`).
`PassesAlwaysKeepUp` counts entries of a log of any length by what one more entry
adds.  `StretchInv`: the worker's escalations of an incident, the one it is about
to commit included, are no more than the stretches in which the history has it
escalated; where they are as many and the last stretch lasts, the worker is
neither about to escalate nor takes the incident for something else; and a
worker that is up knows every group that has a row.

**`RecordsProofs`**: `TypeCorrect`, `TablesAlwaysAgree`, `TerminalStaysFinal`,
`DictionariesAlwaysFollow`.  The
history is one path although every session decides on what it read, because of
the version column: `RecordsInv` says what each session holds at each program
counter (`Fits`, `Holds`: its object is an allowed change of the version it
read), that at most one session holds the key of an insertion (`OneKey`), that a
versioned commit writes on the latest version, and that dictionaries show
well-typed rows (`CacheFits`).  Only `Commit` changes a table (`OnlyCommits`), and a
session that met a terminal row stages no change (`TerminalUnchanged`).
`DictionariesAlwaysFollow` needs `FollowInv`: what a session has in hand for a
dictionary was committed, and in a worker's is no older than what that worker
wrote (`HandFits`); a dictionary shows a committed value (`ShowsCommitted`,
`ShowsOwn`), but while a synchronisation that puts its object in early has still
to commit, just the value that commit will write (`ShowsComing`).

**`LifecyclesProofs`**: `TypesAreKept`, `HistoryAlwaysTells`, `ClosedIsAlwaysLast`,
`DriftIsExplained`, `MadeOnce`.
The first two rest on `Commits` and `TellsRow`: version counts entries, and what
is `Recorded` stays so.  `ClosedIsAlwaysLast` relates the order of decisions to
the order of commits: turns are given once and in order (`Turns`: the next is
one more than the requests that have one), entries carry the turn of the session
that wrote them (`Entries`), and a session with a turn after a close cannot
exist, because the dictionary that gave the turn was already closed, or was
emptied by a restart, after which it holds nothing but a new record without a
row (`ClosingIsLast`, with `Late`, `Dead` and `Closing`).  Every step is shown to be
one of four kinds (`AsideStep`, `DecideStep`, `LoadStep`, `RecordStep`), and the
invariant is proved per kind of step.  `DriftIsExplained` adds `DriftInv`: every
entry is a pass's or a request's that has decided, a request on its way to the
row has decided, and the API shows what the last request that decides has decided, or
else the status the row began with.  `MadeOnce` rests on `MadeInv`: the
hypotheses added and the workers that have found none and are about to add one
are together no more than the workers; and a process inserts a validation only after its dictionary has one,
which it keeps until a restart.

**`RegistersProofs`**: `TypeCorrect`, `StatusIsThatOfValidations`,
`HistoryTellsStatus`, `EndsAreFinal`, `CountedOnce`.  `RegistersInv` joins the types, `Present` (who
is past its lookup has a record), `StatusTellsValidations`, and `Behind`: when the
last status told differs from the record's, a failed validation is waiting for
its event or lost it, and it remembers the status it found.  Between the
beginning and the end of such a wait others may validate or retire the control;
`Behind` says how far the history may lag.  `CountedOnce` rests on `OnceInv`: a
request has no validation and no entry, or one of each from the moment it is
counted on, and a link leads to a neighbour that is there.

**`MonitoringProofs`**: `TrailsAlwaysTell`, `SettledIsForGood`, `GoodPassesMakeUp`.  No status comes back
because every transition raises a rank (`Rank`), along which a trail is strictly
rising; the escalation that does not ask `validate_transition` raises it too.
`SettledIsForGood` follows because every step tends only active alerts
(`Tended`).  `GoodPassesMakeUp` needs `GoodInv`: while the database holds still,
the assets the pass has left behind have their baselines right and those of the
asset at hand are right as far as the pass has come (`CatchInv`); a finding's
baseline that is not open has its resolution in the log (`ResolvedIsLogged`), which
is why the replay leaves no active alert about it, and what each section of the
alerts has achieved the later ones keep (`AlertInv`).

**Why some results are model-checked only.**

- `QueuedCancelSticks`, `QueuedRunsSettle`: liveness under fairness, which the
  prover does not handle.
- `CancelledNeverResumes` is false of the code, see below.

## What was met while modelling

One disagreement between the code and what the repository says of it has a run,
and is quoted in `PROJECT.json`: *a cancelled run resumes*
(`scanrun_lost_cancel`), because the worker sets `running` on an object it loaded
before the scope was validated, while the frontend takes `cancelled` for
terminal and stops polling.

Other behaviour the models contain, so that no property above denies it:

*Against what the repository says.*

- Two acceptances stay in force.  `accept_risk` means to "revoke any prior
  active/expiring acceptances" (`risk_acceptance_service.py:182`), but each of two
  overlapping requests takes the list of priors before the other's acceptance
  is in it, and two processes never see each other's.
- One asset is inserted twice, or a source is lost.  Discovery looks, waits and
  then inserts, or writes the whole metadata column from its copy, without a unique
  key or a version; `Docs/03_Architecture.md:205` says that workers deduplicate.
- A risk baseline goes back.  A missing governance baseline rebuilds the risk
  baseline too, from a log that may be behind
  (`baseline_state_service.py:122`); `sprint_15_plan.md:43` calls this
  reconstructing the exact state.  It takes two failed passes before a good one.
- A closed incident's row is reopened, and so is a closed hunt's, exercise's,
  posture's or program's: the dictionary is tested and the row written after an
  await.  What is kept is that the histories tell of it and that nothing
  *decided* after a close is recorded.  `sprint_17_plan.md:69` says that a closed
  incident cannot be reopened or mutated.
- A closed incident changes hands: `escalate_to_owner` sets the owner it has looked
  up before the escalation is refused.  `ClosedBeliefsAreFinal` says that this is
  the only way.
- A deprecated component of the graph drifts on every pass: one side of the
  comparison counts it (`graph_drift_service.py:35`), the other does not
  (`graph_snapshot_service.py:31`).
- A validation is recorded and answered with an error: correlation asks a
  detection for a `technique_id` it does not have
  (`control_correlation_service.py:37`).

*Order and staleness.*

- Approval of a plugin is tested on the object in the session's identity map: a
  plugin disabled between two uses in one run may still run.
- A cancellation that loses the race with the last commit of a run overwrites
  the row's `completed` or `failed`; the log keeps the end it had.
- A remediation's row goes back when an update that was decided earlier reads and
  commits later; after a restart the API does not know the acceptances it
  granted.
- An archived decision comes back by a lookup that ends late, and after a
  restart (`security_decision_service.py:128` onwards).
- The API caches an ACTIVE node of the graph when a creation or synchronisation
  overlaps its deprecation.
- Resilience plans and analytics records have no version column: a late commit
  reopens what another closed.
- A DISABLED or DEPRECATED detection and an EXPIRED or REVOKED indicator are each
  called terminal, but each pair may overwrite each other.

*Failures and lost updates.*

- If the broker cannot be reached after the commit at `workflow_service.py:151`,
  the run stays `pending`; a worker killed in a run leaves it `running`.
- Triage ends with a flush (`finding_service.py:504`) in a session that nobody
  commits unless a recommendation is new; `Docs/05_API.md:118` offers the
  acknowledgement of a finding as an analyst's action.
- Two assets with one fingerprint or host make every later lookup raise; the
  sightings of that tool are lost and what was flushed is committed.
- The nested metadata of assets is changed in place and compared with itself, so
  a repeated sighting alone, or tags alone, are not written.
- Restarting the worker rebuilds findings' baselines from an empty log, so the
  first pass reports again what earlier ones did.
- Exercises read back from the table have no techniques until validated again.

*Cold starts.*  The comment at `celery/worker.py:62` calls the reload a recovery,
but no code makes a node of the fabric, so every run reloads.  Hence drift that
arises between two runs is never reported by the services whose snapshots the
bootstrap takes; plans made by the worker are forgotten; and once the graph has
an edge, the second run of the same worker process raises
(`graph_correlation_service.py:26` puts a plain dict where
`graph_bootstrap_service.py:50` calls `set_for_tenant`).  In the running
application there are no edges yet, because no entity the worker links carries
a tenant.

*Drift.*  Services that store the new snapshot first lose what a failed emission
found.  A purple-team exercise created, activated, reviewed or completed, and
the `/summary` endpoints of several services, take snapshots again without a
comparison.  Reports made in API requests are flushed in a session that is not
committed, while the snapshot advances.  Overlapping requests report twice.  A
gap in detection is reported on every pass, before a first snapshot too
(`detection_gap_service.py:26`).  Several
`GET /drift` endpoints read a list of the API process that only workers fill.
Compliance that goes over ACCEPTED_RISK to NON_COMPLIANT is not reported.

*Code nothing calls.*  `expire_risk`, `check_expirations`, `create_asset`,
`update_asset`, `delete_asset`, `update_detection_mapping`; `correlate_iocs` has
nothing to work on in a worker.

## Not modelled

- *Correlation.*  Nothing reaches it in the running application: a unit of work
  dispatches only workflow events still new in the session when it commits, and
  every emitter flushes first, uses a plain session or another class of event.
  The automatic escalation asks for a score of 8.0, where the documented ranges
  give at most 7.2.
- *Cases, evidence, custody.*  A case is a record of one worker's memory which
  nothing moves; the endpoints look in another process.
- *AI copilot.*  Dictionaries changed without an await in between, and text.
- *Cache storages.*  The setting that would choose Redis does not exist.
- *Authentication, external tools, frontend.*  No state shared between actors.
- *Percentages, scores and templates* of the modelled services, except where a
  status depends on them (the effectiveness of controls, the ranking of
  recommendations, the confidence of assets).
- Some hazards have no property, because the code promises nothing there or no
  property can hold; `PROJECT.json` has a note for each.  They are two acceptances
  in force, an asset inserted twice, the counts of
  findings cached before a commit, a remediation and its acceptance left apart by
  a failure, the alert of a finding that is back, an incident that stays
  un-escalated when a commit failed, dictionaries under a rollback or an older
  answer, the bootstrap that raises on a graph with an edge
  (`graph_bootstrap_service.py:50`, in `Records` as `relinked`), the lost report of a
  drift service that renews its snapshot first, and the gap reported again.
- Redelivery of a message by the broker, and a synchronous plugin that goes on in
  its thread after its timeout: the first depends on settings of the deployment,
  the second changes no state of the application.

## What is left to do

1. The type invariants of `Findings`, `Inventory`, `Monitoring` and `Incidents` as
   theorems of their own.
2. Two acceptances of different fingerprints in one request's listing, should the
   service stop filtering by fingerprint.
