------------------------------- MODULE ScanRun -------------------------------
(***************************************************************************)
(* The workflow engine: scan runs started and cancelled through the API,   *)
(* executed step by step by a Celery task, against workflows, scopes and   *)
(* plugins that other requests edit while the task runs.                   *)
(*                                                                         *)
(* One action is one handler up to its next COMMIT (or, where a value is   *)
(* read and acted on only later, up to the read).  The worker's session    *)
(* has expire_on_commit=False and autoflush=False, so what it has loaded   *)
(* goes stale until db.refresh; the API's session likewise.                *)
(***************************************************************************)
EXTENDS Integers, Sequences, FiniteSets

CONSTANTS
    Runs,         \* ids of scan runs, one per request to start a workflow
    Workflows,    \* workflow ids
    Scopes,       \* scope ids
    Plugins,      \* plugin ids; a step names its tools by these
    NoPlugin,     \* the worker holds no plugin object yet
    StepTypes,    \* step types, "vulnerability-scan" among them or not
    Definitions,  \* workflow definitions: sequences of [type, tools]
    Capabilities, \* Capabilities[p]: the step types p's manifest declares
    WorkflowOf,   \* WorkflowOf[r], ScopeOf[r]: what r was started for,
    ScopeOf,      \*   carried by the task message as well as by the row
    OwnerOf       \* OwnerOf[x]: the owner of a workflow or scope

Step == [type: StepTypes, tools: Seq(Plugins)]

ASSUME ConstantsAssumption ==
    /\ NoPlugin \notin Plugins
    /\ Definitions \subseteq Seq(Step)
    /\ Capabilities \in [Plugins -> SUBSET StepTypes]
    /\ WorkflowOf \in [Runs -> Workflows]
    /\ ScopeOf \in [Runs -> Scopes]

VARIABLES
    workflows,    \* the workflow rows that exist
    definition,   \* definition[w]: the steps of w's definition
    scopes,       \* the scopes with deleted_at IS NULL
    pluginState,  \* pluginState[p]: plugins.state; "absent" before p is
                  \*   registered, "deleted" once deleted_at is set
    status,       \* status[r]: scan_runs.status, "none" before the insert
    stamped,      \* stamped[r]: whether end_ts is set
    events,       \* events[r]: workflow_events rows of r, in order
    pluginLog,    \* pluginLog[r]: plugin_events rows of r, in order
    request,      \* request[r]: what the API has in flight for r
    task,         \* task[r]: the Celery task of r and its local state
    mark,         \* history: steps r had started when it was last cancelled
    vetted        \* history: plugins approved at some time during r's task

dbVars  == <<workflows, definition, scopes, pluginState>>
runVars == <<status, stamped, events, pluginLog>>
ghosts  == <<mark, vetted>>
vars    == <<dbVars, runVars, request, task, ghosts>>

PluginStates == {"draft", "approved", "disabled", "deprecated"}
Statuses     == {"pending", "running", "completed", "failed", "cancelled"}
Terminal     == {"completed", "failed", "cancelled"}
EventTypes   == {"workflow.started", "workflow.completed", "workflow.failed",
                 "workflow.cancelled", "step.started", "step.completed"}

\* Where the task is: the statement it will commit (or read) next.
PCs == {"none", "queued", "load", "orphan", "validate", "start", "refresh",
        "cancel", "step", "lookup", "reject", "attach", "exec", "process",
        "endStep", "complete", "fail", "done", "dead"}
Over == {"done", "dead"}
Live == PCs \ ({"none", "queued"} \cup Over)

\* The commits that insert a workflow_events row, whose workflow_id is a
\* foreign key: with the workflow gone they raise instead.
EventPCs == {"start", "cancel", "step", "endStep", "complete", "fail"}

Event == [type: EventTypes, step: Nat]
PluginEvent == [type: {"plugin.started", "plugin.completed", "plugin.failed"},
                plugin: Plugins]

\* loaded: the status the task's ScanRun object holds; steps: the definition
\* it loaded; step, tool: its loop indices; plugin, state: the Plugin object
\* its local variable refers to and the state column that object holds.
Task == [pc: PCs, loaded: Statuses \cup {"none"}, steps: Seq(Step),
         step: Nat, tool: Nat, plugin: Plugins \cup {NoPlugin},
         state: PluginStates]

IdleTask == [pc |-> "none", loaded |-> "none", steps |-> <<>>, step |-> 0,
             tool |-> 0, plugin |-> NoPlugin, state |-> "draft"]

\* Definitions with a suffix _Slip are not part of the specification: each is
\* the definition after it with one plausible slip in the code.
Registered_Slip(p) == pluginState[p] # "absent"  \* deleted_at not filtered
Registered(p) == pluginState[p] \in PluginStates
WorkflowExists(r) == WorkflowOf[r] \in workflows
CurrentStep(r) == task[r].steps[task[r].step]
Tool(r) == CurrentStep(r).tools[task[r].tool]

StepsStarted(r) ==
    Cardinality({i \in 1..Len(events[r]) : events[r][i].type = "step.started"})

TypeOK ==
    /\ workflows \subseteq Workflows
    /\ definition \in [Workflows -> Definitions]
    /\ scopes \subseteq Scopes
    /\ pluginState \in [Plugins -> PluginStates \cup {"absent", "deleted"}]
    /\ status \in [Runs -> Statuses \cup {"none"}]
    /\ stamped \in [Runs -> BOOLEAN]
    /\ events \in [Runs -> Seq(Event)]
    /\ pluginLog \in [Runs -> Seq(PluginEvent)]
    /\ request \in [Runs -> {"idle", "starting", "cancelling"}]
    /\ task \in [Runs -> Task]
    /\ mark \in [Runs -> Int]
    /\ vetted \in [Runs -> SUBSET Plugins]

Init ==
    /\ workflows = Workflows
    /\ definition \in [Workflows -> Definitions]
    /\ scopes = Scopes
    /\ pluginState \in [Plugins -> {"absent", "approved"}]
    /\ status = [r \in Runs |-> "none"]
    /\ stamped = [r \in Runs |-> FALSE]
    /\ events = [r \in Runs |-> <<>>]
    /\ pluginLog = [r \in Runs |-> <<>>]
    /\ request = [r \in Runs |-> "idle"]
    /\ task = [r \in Runs |-> IdleTask]
    /\ mark = [r \in Runs |-> 0]
    /\ vetted = [r \in Runs |-> {}]

-----------------------------------------------------------------------------
(* The API: start and cancel a run.                                         *)

\* The router found the workflow and the scope; the row is committed before
\* the task message is sent.
StartWorkflow(r) ==
    /\ status[r] = "none"
    /\ WorkflowExists(r)
    /\ ScopeOf[r] \in scopes
    /\ status' = [status EXCEPT ![r] = "pending"]
    /\ request' = [request EXCEPT ![r] = "starting"]
    /\ UNCHANGED <<dbVars, stamped, events, pluginLog, task, ghosts>>

\* execute_workflow_task.delay reaches the broker ...
Enqueue(r) ==
    /\ request[r] = "starting"
    /\ request' = [request EXCEPT ![r] = "idle"]
    /\ task' = [task EXCEPT ![r].pc = "queued"]
    /\ UNCHANGED <<dbVars, runVars, ghosts>>

\* ... or raises (or the API process dies): the row stays, nothing is queued.
EnqueueFails(r) ==
    /\ request[r] = "starting"
    /\ request' = [request EXCEPT ![r] = "idle"]
    /\ UNCHANGED <<dbVars, runVars, task, ghosts>>

\* The router's SELECT puts the row in the request's session; the db.get in
\* cancel_scan_run returns that object, and its status is what is tested.
ReadForCancel(r) ==
    /\ request[r] = "idle"
    /\ status[r] \in {"pending", "running"}
    /\ request' = [request EXCEPT ![r] = "cancelling"]
    /\ UNCHANGED <<dbVars, runVars, task, ghosts>>

\* UPDATE scan_runs SET status, end_ts WHERE id: not conditional on status.
CommitCancel(r) ==
    /\ request[r] = "cancelling"
    /\ request' = [request EXCEPT ![r] = "idle"]
    /\ status' = [status EXCEPT ![r] = "cancelled"]
    /\ stamped' = [stamped EXCEPT ![r] = TRUE]
    /\ mark' = [mark EXCEPT ![r] = StepsStarted(r)]
    /\ UNCHANGED <<dbVars, events, pluginLog, task, vetted>>

-----------------------------------------------------------------------------
(* The API: workflows, scopes and plugins edited while runs execute.        *)

\* A step with one tool may name it outside the list that is looked at (the run
\* takes either form), so only the tools of longer lists are sure to be checked.
Attachable(d) ==
    \A k \in 1..Len(d) : Len(d[k].tools) > 1 => \A j \in 1..Len(d[k].tools) :
        pluginState[d[k].tools[j]] # "deprecated"

UpdateWorkflow(w, d) ==
    /\ w \in workflows
    /\ Attachable(d)
    /\ definition' = [definition EXCEPT ![w] = d]
    /\ UNCHANGED <<workflows, scopes, pluginState, runVars, request, task, ghosts>>

\* workflow_events rows go with the workflow; scan_runs rows stay.
DeleteWorkflow(w) ==
    /\ w \in workflows
    /\ workflows' = workflows \ {w}
    /\ events' = [r \in Runs |-> IF WorkflowOf[r] = w THEN <<>> ELSE events[r]]
    /\ UNCHANGED <<definition, scopes, pluginState, status, stamped, pluginLog,
                   request, task, ghosts>>

DeleteScope(s) ==
    /\ s \in scopes
    /\ scopes' = scopes \ {s}
    /\ UNCHANGED <<workflows, definition, pluginState, runVars, request, task, ghosts>>

SetPluginState(p, s) ==
    /\ pluginState' = [pluginState EXCEPT ![p] = s]
    /\ UNCHANGED <<workflows, definition, scopes, runVars, request, task, mark>>

RegisterPlugin(p) ==
    /\ pluginState[p] = "absent"
    /\ SetPluginState(p, "draft")
    /\ UNCHANGED vetted

\* From any state, once validate_plugin has passed (its failure changes
\* nothing but the plugin's own event log).
ApprovePlugin(p) ==
    /\ Registered(p)
    /\ SetPluginState(p, "approved")
    /\ vetted' = [r \in Runs |-> vetted[r] \cup {p}]

DisablePlugin(p) ==
    /\ Registered(p)
    /\ SetPluginState(p, "disabled")
    /\ UNCHANGED vetted

DeprecatePlugin(p) ==
    /\ Registered(p)
    /\ SetPluginState(p, "deprecated")
    /\ UNCHANGED vetted

DeletePlugin(p) ==
    /\ Registered(p)
    /\ SetPluginState(p, "deleted")
    /\ UNCHANGED vetted

-----------------------------------------------------------------------------
(* The worker: _execute_workflow_async, one task per message.               *)

Goto(r, pc) == task' = [task EXCEPT ![r].pc = pc]

\* A commit that inserts a workflow_events row and changes nothing else.
LogEvent(r, type, k) ==
    /\ WorkflowExists(r)
    /\ events' = [events EXCEPT ![r] = Append(@, [type |-> type, step |-> k])]

LogPluginEvent(r, type, p) ==
    pluginLog' = [pluginLog EXCEPT ![r] = Append(@, [type |-> type, plugin |-> p])]

\* Celery acknowledges the message before it runs the task.
Deliver(r) ==
    /\ task[r].pc = "queued"
    /\ Goto(r, "load")
    /\ vetted' = [vetted EXCEPT ![r] = {p \in Plugins : pluginState[p] = "approved"}]
    /\ UNCHANGED <<dbVars, runVars, request, mark>>

\* db.get of the workflow and of the run: both objects live until the end.
Load(r) ==
    /\ task[r].pc = "load"
    /\ task' = [task EXCEPT
         ![r].pc = IF WorkflowExists(r) THEN "validate" ELSE "orphan",
         ![r].loaded = status[r],
         ![r].steps = IF WorkflowExists(r) THEN definition[WorkflowOf[r]] ELSE <<>>]
    /\ UNCHANGED <<dbVars, runVars, request, ghosts>>

\* end_ts forgotten on the early return.
FailOrphan(r) ==
    /\ task[r].pc = "orphan"
    /\ status' = [status EXCEPT ![r] = "failed"]
    /\ stamped' = [stamped EXCEPT ![r] = TRUE]
    /\ Goto(r, "done")
    /\ UNCHANGED <<dbVars, events, pluginLog, request, ghosts>>

\* No test for a run cancelled while it was queued.
Validate_SlipCancelled(r) ==
    /\ task[r].pc = "validate"
    /\ Goto(r, IF \/ ScopeOf[r] \notin scopes
                  \/ OwnerOf[ScopeOf[r]] # OwnerOf[WorkflowOf[r]]
               THEN "fail" ELSE "start")
    /\ UNCHANGED <<dbVars, runVars, request, ghosts>>

\* A bad scope makes the task return and leaves the run as it was.
Validate_SlipScope(r) ==
    /\ task[r].pc = "validate"
    /\ Goto(r, IF \/ ScopeOf[r] \notin scopes
                  \/ OwnerOf[ScopeOf[r]] # OwnerOf[WorkflowOf[r]]
                  \/ task[r].loaded = "cancelled"
               THEN "done" ELSE "start")
    /\ UNCHANGED <<dbVars, runVars, request, ghosts>>

\* The scope is read once, here; a run seen cancelled is looked at only
\* after the scope has been accepted.
Validate(r) ==
    /\ task[r].pc = "validate"
    /\ Goto(r, IF \/ ScopeOf[r] \notin scopes
                  \/ OwnerOf[ScopeOf[r]] # OwnerOf[WorkflowOf[r]]
               THEN "fail"
               ELSE IF task[r].loaded = "cancelled" THEN "done" ELSE "start")
    /\ UNCHANGED <<dbVars, runVars, request, ghosts>>

Start(r) ==
    /\ task[r].pc = "start"
    /\ LogEvent(r, "workflow.started", 0)
    /\ status' = [status EXCEPT ![r] = "running"]
    /\ task' = [task EXCEPT ![r].pc = "refresh", ![r].loaded = "running",
                            ![r].step = 1]
    /\ UNCHANGED <<dbVars, stamped, pluginLog, request, ghosts>>

\* No db.refresh: the status the object already holds decides.
Refresh_SlipStale(r) ==
    /\ task[r].pc = "refresh"
    /\ Goto(r, IF task[r].step > Len(task[r].steps) THEN "complete"
               ELSE IF task[r].loaded = "cancelled" THEN "cancel" ELSE "step")
    /\ UNCHANGED <<dbVars, runVars, request, ghosts>>

\* The loop ends one step early.
Refresh_SlipBound(r) ==
    /\ task[r].pc = "refresh"
    /\ LET more == task[r].step < Len(task[r].steps) IN
       task' = [task EXCEPT
         ![r].loaded = status[r],
         ![r].pc = CASE more /\ status[r] = "cancelled" -> "cancel"
                     [] more /\ status[r] # "cancelled" -> "step"
                     [] ~more /\ status[r] \in {"cancelled", "failed"} -> "done"
                     [] OTHER -> "complete"]
    /\ UNCHANGED <<dbVars, runVars, request, ghosts>>

\* db.refresh before each step, and once more after the last one.
Refresh(r) ==
    /\ task[r].pc = "refresh"
    /\ LET more == task[r].step <= Len(task[r].steps) IN
       task' = [task EXCEPT
         ![r].loaded = status[r],
         ![r].pc = CASE more /\ status[r] = "cancelled" -> "cancel"
                     [] more /\ status[r] # "cancelled" -> "step"
                     [] ~more /\ status[r] \in {"cancelled", "failed"} -> "done"
                     [] OTHER -> "complete"]
    /\ UNCHANGED <<dbVars, runVars, request, ghosts>>

\* The loop goes on after logging the cancellation.
LogCancelled_Slip(r) ==
    /\ task[r].pc = "cancel"
    /\ LogEvent(r, "workflow.cancelled", task[r].step - 1)
    /\ Goto(r, "step")
    /\ UNCHANGED <<dbVars, status, stamped, pluginLog, request, ghosts>>

LogCancelled(r) ==
    /\ task[r].pc = "cancel"
    /\ LogEvent(r, "workflow.cancelled", task[r].step - 1)
    /\ Goto(r, "done")
    /\ UNCHANGED <<dbVars, status, stamped, pluginLog, request, ghosts>>

StartStep(r) ==
    /\ task[r].pc = "step"
    /\ LogEvent(r, "step.started", task[r].step)
    /\ task' = [task EXCEPT
         ![r].tool = 1,
         ![r].pc = IF CurrentStep(r).tools = <<>> THEN "endStep" ELSE "lookup"]
    /\ UNCHANGED <<dbVars, status, stamped, pluginLog, request, ghosts>>

\* Only disabled plugins are turned away.
Lookup_Slip(r) ==
    LET p    == Tool(r)
        seen == IF task[r].plugin = p THEN task[r].state ELSE pluginState[p]
    IN
    /\ task[r].pc = "lookup"
    /\ IF Registered(p)
       THEN task' = [task EXCEPT
              ![r].plugin = p, ![r].state = seen,
              ![r].pc = IF seen # "disabled" THEN "attach" ELSE "reject"]
       ELSE Goto(r, "fail")
    /\ UNCHANGED <<dbVars, runVars, request, ghosts>>

\* SELECT by name among the plugins not deleted.  If the task's variable
\* still refers to that very plugin, the row maps to the object it already
\* has, whose loaded attributes the query does not overwrite.
Lookup(r) ==
    LET p    == Tool(r)
        seen == IF task[r].plugin = p THEN task[r].state ELSE pluginState[p]
    IN
    /\ task[r].pc = "lookup"
    /\ \/ /\ ~Registered(p)
          /\ Goto(r, "fail")
       \/ /\ Registered(p)
          /\ \E ready \in BOOLEAN :  \* the scope has assets, ports, services
             /\ CurrentStep(r).type # "vulnerability-scan" => ready
             /\ task' = [task EXCEPT
                  ![r].plugin = p, ![r].state = seen,
                  ![r].pc = IF /\ seen = "approved"
                               /\ CurrentStep(r).type \in Capabilities[p]
                               /\ ready
                            THEN "attach" ELSE "reject"]
    /\ UNCHANGED <<dbVars, runVars, request, ghosts>>

RejectPlugin(r) ==
    /\ task[r].pc = "reject"
    /\ LogPluginEvent(r, "plugin.failed", task[r].plugin)
    /\ Goto(r, "fail")
    /\ UNCHANGED <<dbVars, status, stamped, events, request, ghosts>>

\* plugin_id is committed, run_plugin logs plugin.started and awaits run().
RunPlugin(r) ==
    /\ task[r].pc = "attach"
    /\ LogPluginEvent(r, "plugin.started", task[r].plugin)
    /\ Goto(r, "exec")
    /\ UNCHANGED <<dbVars, status, stamped, events, request, ghosts>>

PluginReturns(r) ==
    /\ task[r].pc = "exec"
    /\ LogPluginEvent(r, "plugin.completed", task[r].plugin)
    /\ Goto(r, "process")
    /\ UNCHANGED <<dbVars, status, stamped, events, request, ghosts>>

\* An exception or the manifest's timeout: PluginExecutionError either way.
PluginFails(r) ==
    /\ task[r].pc = "exec"
    /\ LogPluginEvent(r, "plugin.failed", task[r].plugin)
    /\ Goto(r, "fail")
    /\ UNCHANGED <<dbVars, status, stamped, events, request, ghosts>>

\* The result is normalised and persisted: on to the next tool, or an error.
Process(r) ==
    /\ task[r].pc = "process"
    /\ \/ /\ task[r].tool < Len(CurrentStep(r).tools)
          /\ task' = [task EXCEPT ![r].pc = "lookup", ![r].tool = task[r].tool + 1]
       \/ /\ task[r].tool = Len(CurrentStep(r).tools)
          /\ Goto(r, "endStep")
       \/ Goto(r, "fail")
    /\ UNCHANGED <<dbVars, runVars, request, ghosts>>

\* Snapshots and intelligence are refreshed, every error swallowed, then:
CompleteStep(r) ==
    /\ task[r].pc = "endStep"
    /\ LogEvent(r, "step.completed", task[r].step)
    /\ task' = [task EXCEPT ![r].pc = "refresh", ![r].step = task[r].step + 1]
    /\ UNCHANGED <<dbVars, status, stamped, pluginLog, request, ghosts>>

Finish(r, type, k, s) ==
    /\ LogEvent(r, type, k)
    /\ status' = [status EXCEPT ![r] = s]
    /\ stamped' = [stamped EXCEPT ![r] = TRUE]
    /\ Goto(r, "done")
    /\ UNCHANGED <<dbVars, pluginLog, request, ghosts>>

CompleteRun(r) ==
    /\ task[r].pc = "complete"
    /\ Finish(r, "workflow.completed", 0, "completed")

\* The failure is logged, the row is not updated with it.
FailRun_Slip(r) ==
    /\ task[r].pc = "fail"
    /\ LogEvent(r, "workflow.failed", task[r].step)
    /\ Goto(r, "done")
    /\ UNCHANGED <<dbVars, status, stamped, pluginLog, request, ghosts>>

\* No refresh first: the object, and the row, become "failed" whatever the
\* row says by now.
FailRun(r) ==
    /\ task[r].pc = "fail"
    /\ Finish(r, "workflow.failed", task[r].step, "failed")

\* The foreign key fails: the exception leaves the task and the unit of work
\* rolls back, the run's row as it was.
Abort(r) ==
    /\ task[r].pc \in EventPCs
    /\ ~WorkflowExists(r)
    /\ Goto(r, "dead")
    /\ UNCHANGED <<dbVars, runVars, request, ghosts>>

\* The worker process is killed, or an exception escapes the task (cold-start
\* bootstrap, a session left unusable by the refresh chain).
Die(r) ==
    /\ task[r].pc \in Live
    /\ Goto(r, "dead")
    /\ UNCHANGED <<dbVars, runVars, request, ghosts>>

Work(r) ==
    \/ Deliver(r) \/ Load(r) \/ FailOrphan(r) \/ Validate(r) \/ Start(r)
    \/ Refresh(r) \/ LogCancelled(r) \/ StartStep(r) \/ Lookup(r)
    \/ RejectPlugin(r) \/ RunPlugin(r) \/ PluginReturns(r) \/ PluginFails(r)
    \/ Process(r) \/ CompleteStep(r) \/ CompleteRun(r) \/ FailRun(r) \/ Abort(r)

Request(r) ==
    \/ StartWorkflow(r) \/ Enqueue(r) \/ EnqueueFails(r)
    \/ ReadForCancel(r) \/ CommitCancel(r)

Edit ==
    \/ \E w \in Workflows : DeleteWorkflow(w)
    \/ \E w \in Workflows, d \in Definitions : UpdateWorkflow(w, d)
    \/ \E s \in Scopes : DeleteScope(s)
    \/ \E p \in Plugins : \/ RegisterPlugin(p) \/ ApprovePlugin(p)
                          \/ DisablePlugin(p) \/ DeprecatePlugin(p)
                          \/ DeletePlugin(p)

Next == Edit \/ \E r \in Runs : Request(r) \/ Work(r) \/ Die(r)

Spec == Init /\ [][Next]_vars

\* A Celery worker that stays up keeps executing what it has; a broker that
\* accepted a message delivers it.  Nothing forces the requests of clients,
\* and nothing forces a crash.
Fairness == \A r \in Runs : WF_vars(Work(r))
FairSpec == Spec /\ Fairness

-----------------------------------------------------------------------------
(* Safety.                                                                  *)

LastType(r) == IF events[r] = <<>> THEN "" ELSE events[r][Len(events[r])].type

\* The row and the log agree although two processes write the status without
\* looking: a closing event is contradicted only by a cancellation that had
\* read the run before it, and a failure or a completion is always on record
\* (workflow_service.cancel_scan_run against the worker's closing commits).
StatusMatchesLog ==
    \A r \in Runs : WorkflowExists(r) =>
        /\ LastType(r) = "workflow.completed" => status[r] \in {"completed", "cancelled"}
        /\ LastType(r) = "workflow.failed"    => status[r] \in {"failed", "cancelled"}
        /\ LastType(r) = "workflow.cancelled" => status[r] = "cancelled"
        /\ status[r] = "completed" => LastType(r) = "workflow.completed"
        /\ status[r] = "failed"    => LastType(r) = "workflow.failed"

\* A run shows "completed" only if every step of the definition its task
\* loaded was started and completed, in order, with no other step in between
\* (the step loop of _execute_workflow_async), even if the workflow was
\* redefined meanwhile.
CompletedRanEveryStep ==
    \A r \in Runs : status[r] = "completed" /\ WorkflowExists(r) =>
        /\ Len(events[r]) = 2 * Len(task[r].steps) + 2
        /\ \A k \in 1..Len(task[r].steps) :
             /\ events[r][2 * k]     = [type |-> "step.started",   step |-> k]
             /\ events[r][2 * k + 1] = [type |-> "step.completed", step |-> k]

\* While a cancellation stands, the task begins at most the one step whose
\* check (db.refresh before each step) it had already passed.
CancelStopsWithinOneStep ==
    \A r \in Runs : status[r] = "cancelled" /\ WorkflowExists(r) =>
        StepsStarted(r) <= mark[r] + 1

\* A plugin that ran for a run had been approved at some moment of that very
\* task (the state check before run_plugin), however often administrators
\* approve, disable or delete it around the check.
ExecutedPluginsWereApproved ==
    \A r \in Runs : \A i \in 1..Len(pluginLog[r]) :
        pluginLog[r][i].type = "plugin.started" => pluginLog[r][i].plugin \in vetted[r]

\* A task that ends without dying leaves its run in a terminal status with
\* an end time, on every one of the handler's return paths.
DoneMeansSettled ==
    \A r \in Runs : task[r].pc = "done" => status[r] \in Terminal /\ stamped[r]

\* The event log of every run is written as RunLog prescribes: each step of
\* the engine is, for each run, a step of the abstract log or none at all.
Log(r) == INSTANCE RunLog WITH log <- events[r], purged <- ~WorkflowExists(r)
ImplementsRunLog ==
    /\ \A r \in Runs : Log(r)!LogInit
    /\ [][\A r \in Runs : Log(r)!LogStep]_vars

\* A cancellation committed before the task is picked up is never undone by
\* it: no plugin runs, and the only other status the run can get is "failed",
\* for a workflow or scope that is gone (worker.py tests the scope before it
\* tests for "cancelled").
QueuedCancelSticks ==
    \A r \in Runs :
        [](task[r].pc = "queued" /\ status[r] = "cancelled" =>
             [](status[r] \in {"cancelled", "failed"} /\ pluginLog[r] = <<>>))

-----------------------------------------------------------------------------
(* Liveness, under FairSpec.                                                *)

\* A run whose message reached the broker ends in a terminal status, unless
\* its task is lost to a crash or to the deletion of its workflow.
QueuedRunsSettle ==
    \A r \in Runs : task[r].pc = "queued" ~> (status[r] \in Terminal \/ task[r].pc = "dead")

-----------------------------------------------------------------------------
(* What the repository says of the engine and the code does not do.         *)

\* frontend useWorkflows.ts: 'cancelled' is one of TERMINAL_STATES, at which
\* the page stops polling the run: it does not go back to work.
CancelledNeverResumes ==
    [][\A r \in Runs : status[r] = "cancelled" => status'[r] # "running"]_vars
=============================================================================
