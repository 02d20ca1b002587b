----------------------------- MODULE ScansProofs -----------------------------
(***************************************************************************)
(* What is proved of a scan, for every value of the constants: of the      *)
(* engine that runs it (ScanRun) in the first part, of the findings that   *)
(* its sessions write and analysts triage (Findings) in the second.  The   *)
(* two specifications share no variable.                                   *)
(*                                                                         *)
(* ScanRun.  The safety properties are about what the task leaves behind,  *)
(* so the inductive invariant ties the task's program counter and loop     *)
(* index to the row (RowInv), to the event log (LogInv) and to the plugin  *)
(* object it holds (PluginInv); IndexInv keeps the loop indices within the *)
(* loaded definition.                                                      *)
(***************************************************************************)
EXTENDS ScanRun, Findings, FiniteSetTheorems, SequenceTheorems, TLAPS

BeforeStart == {"none", "queued", "load", "orphan", "validate", "start"}
BetweenSteps == {"refresh", "cancel", "step", "complete"}
ToolPCs == {"lookup", "reject", "attach", "exec", "process"}
InStepPCs == ToolPCs \cup {"endStep"}

\* The loop indices stay within the definition the task loaded.
IndexInv(r) ==
    /\ task[r].pc \in BeforeStart => task[r].step = 0
    /\ task[r].pc \in BetweenSteps \cup InStepPCs =>
         task[r].step \in 1..(Len(task[r].steps) + 1)
    /\ task[r].pc \in {"cancel", "step"} \cup InStepPCs =>
         task[r].step <= Len(task[r].steps)
    /\ task[r].pc = "complete" => task[r].step = Len(task[r].steps) + 1
    /\ task[r].pc \in ToolPCs => task[r].tool \in 1..Len(CurrentStep(r).tools)
    /\ task[r].pc \in {"reject", "attach", "exec"} => task[r].plugin \in Plugins

\* Which statuses the row can have at each point of the task.
RowInv(r) ==
    /\ status[r] = "none" => task[r].pc = "none" /\ request[r] = "idle"
    /\ request[r] = "starting" => task[r].pc = "none"
    /\ status[r] \in Terminal => stamped[r]
    /\ task[r].pc \in BeforeStart => status[r] \in {"none", "pending", "cancelled"}
    /\ task[r].pc = "validate" /\ task[r].loaded = "cancelled" => status[r] = "cancelled"
    /\ task[r].pc \in BetweenSteps \cup InStepPCs => status[r] \in {"running", "cancelled"}
    /\ task[r].pc = "cancel" => status[r] = "cancelled"
    /\ task[r].pc \in {"fail", "dead"} => status[r] \in {"pending", "running", "cancelled"}
    /\ task[r].pc = "done" => status[r] \in Terminal

\* The log is the run's opening event and the first steps in order, n events.
Ordered(log, n) ==
    /\ Len(log) >= n
    /\ n >= 1 => log[1] = [type |-> "workflow.started", step |-> 0]
    /\ \A k \in 1..Len(log) :
         /\ 2 * k <= n     => log[2 * k]     = [type |-> "step.started",   step |-> k]
         /\ 2 * k + 1 <= n => log[2 * k + 1] = [type |-> "step.completed", step |-> k]

ClosedWith(r, type) == events[r] # <<>> /\ LastType(r) = type

\* Which events the log holds at each point of the task.
LogInv(r) ==
    /\ task[r].pc = "orphan" => ~WorkflowExists(r)
    /\ ~WorkflowExists(r) => events[r] = <<>>
    /\ WorkflowExists(r) =>
         /\ task[r].pc \in BeforeStart => events[r] = <<>>
         /\ task[r].pc \in BetweenSteps =>
              Len(events[r]) = 2 * task[r].step - 1 /\ Ordered(events[r], Len(events[r]))
         /\ task[r].pc \in InStepPCs =>
              Len(events[r]) = 2 * task[r].step /\ Ordered(events[r], Len(events[r]))
         /\ task[r].pc = "fail" =>
              Len(events[r]) = 2 * task[r].step /\ Ordered(events[r], Len(events[r]))
         /\ task[r].pc = "dead" =>
              LastType(r) \notin {"workflow.completed", "workflow.failed", "workflow.cancelled"}
         /\ task[r].pc = "done" =>
              \/ events[r] = <<>> /\ status[r] = "cancelled"
              \/ LastType(r) \in {"step.completed", "workflow.started", "workflow.cancelled"}
                   /\ status[r] = "cancelled"
              \/ ClosedWith(r, "workflow.failed") /\ status[r] \in {"failed", "cancelled"}
              \/ /\ ClosedWith(r, "workflow.completed")
                 /\ status[r] \in {"completed", "cancelled"}
                 /\ Len(events[r]) = 2 * Len(task[r].steps) + 2
                 /\ Ordered(events[r], Len(events[r]) - 1)

\* An object that says "approved" was loaded while the plugin was approved.
PluginInv(r) ==
    /\ task[r].pc \in {"none", "queued"} => pluginLog[r] = <<>> /\ task[r].plugin = NoPlugin
    /\ task[r].pc \notin {"none", "queued"} =>
         \A p \in Plugins : pluginState[p] = "approved" => p \in vetted[r]
    /\ task[r].plugin # NoPlugin /\ task[r].state = "approved" => task[r].plugin \in vetted[r]
    /\ task[r].pc \in {"attach", "exec", "process"} => task[r].state = "approved"
    /\ \A i \in 1..Len(pluginLog[r]) :
         pluginLog[r][i].type = "plugin.started" => pluginLog[r][i].plugin \in vetted[r]

RunInv(r) == IndexInv(r) /\ RowInv(r) /\ LogInv(r) /\ PluginInv(r)

IInv == TypeOK /\ \A r \in Runs : RunInv(r)

-----------------------------------------------------------------------------
(* Type correctness.                                                        *)

\* What the helpers of the worker's actions do to the task and to the logs.
LEMMA GotoType ==
    ASSUME TypeOK, NEW r \in Runs, NEW pc \in PCs, Goto(r, pc)
    PROVE  task' \in [Runs -> Task]
<1>1. task \in [Runs -> Task]
  BY DEF TypeOK
<1>2. [task[r] EXCEPT !.pc = pc] \in Task
  BY <1>1 DEF Task
<1>3. task' = [task EXCEPT ![r] = [task[r] EXCEPT !.pc = pc]]
  BY DEF Goto
<1> QED
  BY <1>1, <1>2, <1>3

LEMMA StepType ==
    ASSUME TypeOK, NEW r \in Runs, IndexInv(r),
           task[r].pc \in {"cancel", "step"} \cup InStepPCs
    PROVE  CurrentStep(r) \in Step
<1>1. task[r] \in Task
  BY DEF TypeOK
<1>2. task[r].step \in Nat /\ task[r].steps \in Seq(Step)
  BY <1>1 DEF Task
<1>3. task[r].step \in 1..Len(task[r].steps)
  BY <1>2 DEF IndexInv, BetweenSteps, InStepPCs, ToolPCs
<1> QED
  BY <1>2, <1>3 DEF CurrentStep

LEMMA ToolType ==
    ASSUME TypeOK, NEW r \in Runs, IndexInv(r), task[r].pc \in ToolPCs
    PROVE  Tool(r) \in Plugins
<1>1. CurrentStep(r) \in Step
  BY StepType DEF InStepPCs
<1>2. task[r].tool \in 1..Len(CurrentStep(r).tools)
  BY DEF IndexInv
<1> QED
  BY <1>1, <1>2 DEF Tool, Step

LEMMA LogEventType ==
    ASSUME TypeOK, NEW r \in Runs, NEW type \in EventTypes, NEW k \in Nat,
           LogEvent(r, type, k)
    PROVE  events' \in [Runs -> Seq(Event)]
<1>1. [type |-> type, step |-> k] \in Event
  BY DEF Event
<1>2. events \in [Runs -> Seq(Event)]
  BY DEF TypeOK
<1>3. Append(events[r], [type |-> type, step |-> k]) \in Seq(Event)
  BY <1>1, <1>2
<1> QED
  BY <1>2, <1>3 DEF LogEvent

LEMMA LogPluginEventType ==
    ASSUME TypeOK, NEW r \in Runs, NEW p \in Plugins,
           NEW type \in {"plugin.started", "plugin.completed", "plugin.failed"},
           LogPluginEvent(r, type, p)
    PROVE  pluginLog' \in [Runs -> Seq(PluginEvent)]
<1>1. [type |-> type, plugin |-> p] \in PluginEvent
  BY DEF PluginEvent
<1>2. pluginLog \in [Runs -> Seq(PluginEvent)]
  BY DEF TypeOK
<1>3. Append(pluginLog[r], [type |-> type, plugin |-> p]) \in Seq(PluginEvent)
  BY <1>1, <1>2
<1> QED
  BY <1>2, <1>3 DEF LogPluginEvent

LEMMA StepsStartedType ==
    ASSUME TypeOK, NEW r \in Runs
    PROVE  StepsStarted(r) \in Nat
<1>1. IsFiniteSet(1..Len(events[r]))
  BY FS_Interval DEF TypeOK
<1>2. IsFiniteSet({i \in 1..Len(events[r]) : events[r][i].type = "step.started"})
  BY <1>1, FS_Subset
<1> QED
  BY <1>2, FS_CardinalityType DEF StepsStarted

LEMMA TypeRequest ==
    ASSUME TypeOK, NEW r \in Runs, Request(r)
    PROVE  TypeOK'
<1>1. CASE StartWorkflow(r)
  BY <1>1 DEF TypeOK, StartWorkflow, dbVars, ghosts, Statuses
<1>2. CASE Enqueue(r)
  <2>1. task' \in [Runs -> Task]
    BY <1>2, GotoType, "queued" \in PCs DEF Enqueue, Goto, PCs
  <2> QED
    BY <1>2, <2>1 DEF TypeOK, Enqueue, dbVars, runVars, ghosts
<1>3. CASE EnqueueFails(r)
  BY <1>3 DEF TypeOK, EnqueueFails, dbVars, runVars, ghosts
<1>4. CASE ReadForCancel(r)
  BY <1>4 DEF TypeOK, ReadForCancel, dbVars, runVars, ghosts
<1>5. CASE CommitCancel(r)
  BY <1>5, StepsStartedType DEF TypeOK, CommitCancel, dbVars, Statuses
<1> QED
  BY <1>1, <1>2, <1>3, <1>4, <1>5 DEF Request

LEMMA TypeEdit ==
    ASSUME TypeOK, Edit
    PROVE  TypeOK'
<1>1. ASSUME NEW w \in Workflows, DeleteWorkflow(w)  PROVE TypeOK'
  <2>1. events' \in [Runs -> Seq(Event)]
    <3>1. <<>> \in Seq(Event)
      OBVIOUS
    <3> QED
      BY <1>1, <3>1 DEF TypeOK, DeleteWorkflow
  <2>2. /\ workflows' \subseteq Workflows
        /\ UNCHANGED <<definition, scopes, pluginState, status, stamped, pluginLog,
                       request, task, mark, vetted>>
    BY <1>1 DEF TypeOK, DeleteWorkflow, ghosts
  <2> QED
    BY <2>1, <2>2 DEF TypeOK
<1>2. ASSUME NEW w \in Workflows, NEW d \in Definitions, UpdateWorkflow(w, d)
      PROVE TypeOK'
  BY <1>2 DEF TypeOK, UpdateWorkflow, runVars, ghosts
<1>3. ASSUME NEW s \in Scopes, DeleteScope(s)  PROVE TypeOK'
  BY <1>3 DEF TypeOK, DeleteScope, runVars, ghosts
<1>4. ASSUME NEW p \in Plugins, RegisterPlugin(p)  PROVE TypeOK'
  BY <1>4 DEF TypeOK, RegisterPlugin, SetPluginState, runVars, PluginStates
<1>5. ASSUME NEW p \in Plugins, ApprovePlugin(p)  PROVE TypeOK'
  BY <1>5 DEF TypeOK, ApprovePlugin, SetPluginState, runVars, PluginStates
<1>6. ASSUME NEW p \in Plugins, DisablePlugin(p)  PROVE TypeOK'
  BY <1>6 DEF TypeOK, DisablePlugin, SetPluginState, runVars, PluginStates
<1>7. ASSUME NEW p \in Plugins, DeprecatePlugin(p)  PROVE TypeOK'
  BY <1>7 DEF TypeOK, DeprecatePlugin, SetPluginState, runVars, PluginStates
<1>8. ASSUME NEW p \in Plugins, DeletePlugin(p)  PROVE TypeOK'
  BY <1>8 DEF TypeOK, DeletePlugin, SetPluginState, runVars, PluginStates
<1> QED
  BY <1>1, <1>2, <1>3, <1>4, <1>5, <1>6, <1>7, <1>8 DEF Edit

LEMMA TypeWork ==
    ASSUME TypeOK, NEW r \in Runs, IndexInv(r), Work(r) \/ Die(r)
    PROVE  TypeOK'
<1>t. task \in [Runs -> Task] /\ task[r] \in Task
  BY DEF TypeOK
<1>n. task[r].step \in Nat /\ task[r].tool \in Nat /\ task[r].steps \in Seq(Step)
  BY <1>t DEF Task
<1>p. \A pc \in PCs : Goto(r, pc) => task' \in [Runs -> Task]
  BY GotoType
<1>d. "done" \in PCs /\ "dead" \in PCs /\ "fail" \in PCs /\ "exec" \in PCs
      /\ "process" \in PCs /\ "endStep" \in PCs /\ "load" \in PCs /\ "start" \in PCs
  BY DEF PCs
<1>1. CASE Deliver(r)
  <2>1. task' \in [Runs -> Task]
    BY <1>1, <1>p, <1>d DEF Deliver
  <2> QED
    BY <1>1, <2>1 DEF TypeOK, Deliver, dbVars, runVars
<1>2. CASE Load(r)
  <2>1. definition[WorkflowOf[r]] \in Seq(Step)
    BY ConstantsAssumption DEF TypeOK
  <2>2. task' \in [Runs -> Task]
    <3> DEFINE pc == IF WorkflowExists(r) THEN "validate" ELSE "orphan"
               st == IF WorkflowExists(r) THEN definition[WorkflowOf[r]] ELSE <<>>
    <3>1. pc \in PCs /\ st \in Seq(Step) /\ status[r] \in Statuses \cup {"none"}
      BY <2>1 DEF PCs, TypeOK
    <3>2. [task[r] EXCEPT !.pc = pc, !.loaded = status[r], !.steps = st] \in Task
      BY <1>t, <3>1 DEF Task
    <3>3. task' = [task EXCEPT ![r] = [task[r] EXCEPT !.pc = pc, !.loaded = status[r],
                                                      !.steps = st]]
      BY <1>2 DEF Load
    <3> QED
      BY <1>t, <3>2, <3>3
  <2> QED
    BY <1>2, <2>2 DEF TypeOK, Load, dbVars, runVars, ghosts
<1>3. CASE FailOrphan(r)
  <2>1. task' \in [Runs -> Task]
    BY <1>3, <1>p, <1>d DEF FailOrphan
  <2> QED
    BY <1>3, <2>1 DEF TypeOK, FailOrphan, dbVars, ghosts, Statuses
<1>4. CASE Validate(r)
  <2>1. task' \in [Runs -> Task]
    BY <1>4, <1>p, <1>d DEF Validate
  <2> QED
    BY <1>4, <2>1 DEF TypeOK, Validate, dbVars, runVars, ghosts
<1>5. CASE Start(r)
  <2>1. task' \in [Runs -> Task]
    <3>1. [task[r] EXCEPT !.pc = "refresh", !.loaded = "running", !.step = 1] \in Task
      BY <1>t DEF Task, PCs, Statuses
    <3> QED
      BY <1>t, <1>5, <3>1 DEF Start
  <2>2. events' \in [Runs -> Seq(Event)]
    BY <1>5, LogEventType DEF Start, EventTypes
  <2> QED
    BY <1>5, <2>1, <2>2 DEF TypeOK, Start, dbVars, ghosts, Statuses
<1>6. CASE Refresh(r)
  <2>1. PICK pc \in PCs : task' = [task EXCEPT ![r].loaded = status[r], ![r].pc = pc]
    BY <1>6 DEF Refresh, PCs
  <2>2. [task[r] EXCEPT !.loaded = status[r], !.pc = pc] \in Task
    BY <1>t DEF Task, TypeOK
  <2>3. task' \in [Runs -> Task]
    BY <1>t, <2>1, <2>2
  <2> QED
    BY <1>6, <2>3 DEF TypeOK, Refresh, dbVars, runVars, ghosts
<1>7. CASE LogCancelled(r)
  <2>1. task' \in [Runs -> Task]
    BY <1>7, <1>p, <1>d DEF LogCancelled
  <2>2. task[r].step - 1 \in Nat
    BY <1>7, <1>n DEF IndexInv, LogCancelled, BetweenSteps
  <2>3. events' \in [Runs -> Seq(Event)]
    BY <1>7, <2>2, LogEventType DEF LogCancelled, EventTypes
  <2> QED
    BY <1>7, <2>1, <2>3 DEF TypeOK, LogCancelled, dbVars, ghosts
<1>8. CASE StartStep(r)
  <2>1. PICK pc \in PCs : task' = [task EXCEPT ![r].tool = 1, ![r].pc = pc]
    BY <1>8 DEF StartStep, PCs
  <2>2. [task[r] EXCEPT !.tool = 1, !.pc = pc] \in Task
    BY <1>t DEF Task
  <2>3. task' \in [Runs -> Task]
    BY <1>t, <2>1, <2>2
  <2>4. events' \in [Runs -> Seq(Event)]
    BY <1>8, <1>n, LogEventType DEF StartStep, EventTypes
  <2> QED
    BY <1>8, <2>3, <2>4 DEF TypeOK, StartStep, dbVars, ghosts
<1>9. CASE Lookup(r)
  <2>1. Tool(r) \in Plugins
    BY <1>9, ToolType DEF Lookup, ToolPCs
  <2>2. CASE Goto(r, "fail")
    BY <1>9, <2>2, <1>p, <1>d DEF TypeOK, Lookup, dbVars, runVars, ghosts
  <2>3. CASE ~Goto(r, "fail")
    <3> DEFINE seen == IF task[r].plugin = Tool(r) THEN task[r].state
                       ELSE pluginState[Tool(r)]
    <3>1. PICK pc \in PCs : /\ Registered(Tool(r))
                            /\ task' = [task EXCEPT ![r].plugin = Tool(r),
                                           ![r].state = seen, ![r].pc = pc]
      BY <1>9, <2>3 DEF Lookup, PCs
    <3>2. seen \in PluginStates
      BY <1>t, <3>1 DEF Task, Registered
    <3>3. [task[r] EXCEPT !.plugin = Tool(r), !.state = seen, !.pc = pc] \in Task
      BY <1>t, <2>1, <3>2 DEF Task
    <3>4. task' \in [Runs -> Task]
      BY <1>t, <3>1, <3>3
    <3> QED
      BY <1>9, <3>4 DEF TypeOK, Lookup, dbVars, runVars, ghosts
  <2> QED
    BY <2>2, <2>3
<1>10. CASE RejectPlugin(r) \/ RunPlugin(r) \/ PluginReturns(r) \/ PluginFails(r)
  <2>1. task[r].plugin \in Plugins
    BY <1>10 DEF IndexInv, RejectPlugin, RunPlugin, PluginReturns, PluginFails
  <2>2. pluginLog' \in [Runs -> Seq(PluginEvent)]
    BY <1>10, <2>1, LogPluginEventType
    DEF RejectPlugin, RunPlugin, PluginReturns, PluginFails
  <2>3. task' \in [Runs -> Task]
    BY <1>10, <1>p, <1>d DEF RejectPlugin, RunPlugin, PluginReturns, PluginFails
  <2> QED
    BY <1>10, <2>2, <2>3
    DEF TypeOK, RejectPlugin, RunPlugin, PluginReturns, PluginFails, dbVars, ghosts
<1>11. CASE Process(r)
  <2>1. CASE task' = [task EXCEPT ![r].pc = "lookup", ![r].tool = task[r].tool + 1]
    <3>0. PICK n \in Nat : n = task[r].tool + 1
      BY <1>n
    <3>1. [task[r] EXCEPT !.pc = "lookup", !.tool = n] \in Task
      BY <1>t DEF Task, PCs
    <3>2. task' = [task EXCEPT ![r].pc = "lookup", ![r].tool = n]
      BY <2>1, <3>0
    <3>3. task' \in [Runs -> Task]
      BY <1>t, <3>1, <3>2
    <3> QED
      BY <1>11, <3>3 DEF TypeOK, Process, dbVars, runVars, ghosts
  <2>2. CASE Goto(r, "endStep") \/ Goto(r, "fail")
    <3>1. task' \in [Runs -> Task]
      BY <2>2, <1>p, <1>d
    <3> QED
      BY <1>11, <3>1 DEF TypeOK, Process, dbVars, runVars, ghosts
  <2> QED
    BY <1>11, <2>1, <2>2 DEF Process
<1>12. CASE CompleteStep(r)
  <2>0. PICK n \in Nat : n = task[r].step + 1
    BY <1>n
  <2>1. [task[r] EXCEPT !.pc = "refresh", !.step = n] \in Task
    BY <1>t DEF Task, PCs
  <2>2. task' = [task EXCEPT ![r].pc = "refresh", ![r].step = n]
    BY <1>12, <2>0 DEF CompleteStep
  <2>t. task' \in [Runs -> Task]
    BY <1>t, <2>1, <2>2
  <2>3. events' \in [Runs -> Seq(Event)]
    BY <1>12, <1>n, LogEventType DEF CompleteStep, EventTypes
  <2> QED
    BY <1>12, <2>t, <2>3 DEF TypeOK, CompleteStep, dbVars, ghosts
<1>13. CASE CompleteRun(r) \/ FailRun(r)
  <2>1. events' \in [Runs -> Seq(Event)]
    BY <1>13, <1>n, LogEventType DEF CompleteRun, FailRun, Finish, EventTypes
  <2>2. task' \in [Runs -> Task]
    BY <1>13, <1>p, <1>d DEF CompleteRun, FailRun, Finish
  <2> QED
    BY <1>13, <2>1, <2>2
    DEF TypeOK, CompleteRun, FailRun, Finish, dbVars, ghosts, Statuses
<1>14. CASE Abort(r) \/ Die(r)
  <2>1. task' \in [Runs -> Task]
    BY <1>14, <1>p, <1>d DEF Abort, Die
  <2> QED
    BY <1>14, <2>1 DEF TypeOK, Abort, Die, dbVars, runVars, ghosts
<1> QED
  BY <1>1, <1>2, <1>3, <1>4, <1>5, <1>6, <1>7, <1>8, <1>9, <1>10, <1>11, <1>12,
     <1>13, <1>14 DEF Work

-----------------------------------------------------------------------------
(* One run's step leaves every other run, and all that is shared, alone.    *)

RunState(q) == <<status[q], stamped[q], events[q], pluginLog[q], request[q],
                 task[q], vetted[q]>>

LEMMA OtherRuns ==
    ASSUME TypeOK, NEW r \in Runs, Request(r) \/ Work(r) \/ Die(r),
           NEW q \in Runs, q # r
    PROVE  UNCHANGED <<RunState(q), dbVars>>
<1>1. CASE Request(r)
  BY <1>1 DEF TypeOK, Request, StartWorkflow, Enqueue, EnqueueFails, ReadForCancel,
     CommitCancel, RunState, dbVars, runVars, ghosts
<1>2. CASE Deliver(r) \/ Load(r) \/ FailOrphan(r) \/ Validate(r) \/ Start(r) \/ Refresh(r)
  BY <1>2 DEF TypeOK, Deliver, Load, FailOrphan, Validate, Start, Refresh, Goto,
     LogEvent, RunState, dbVars, runVars, ghosts
<1>3. CASE LogCancelled(r) \/ StartStep(r) \/ Lookup(r) \/ Process(r) \/ CompleteStep(r)
  BY <1>3 DEF TypeOK, LogCancelled, StartStep, Lookup, Process, CompleteStep, Goto,
     LogEvent, RunState, dbVars, runVars, ghosts
<1>4. CASE RejectPlugin(r) \/ RunPlugin(r) \/ PluginReturns(r) \/ PluginFails(r)
  BY <1>4 DEF TypeOK, RejectPlugin, RunPlugin, PluginReturns, PluginFails, Goto,
     LogPluginEvent, RunState, dbVars, ghosts
<1>5. CASE CompleteRun(r) \/ FailRun(r) \/ Abort(r) \/ Die(r)
  BY <1>5 DEF TypeOK, CompleteRun, FailRun, Abort, Die, Finish, Goto, LogEvent,
     RunState, dbVars, runVars, ghosts
<1> QED
  BY <1>1, <1>2, <1>3, <1>4, <1>5 DEF Work

LEMMA GotoFields ==
    ASSUME TypeOK, NEW r \in Runs, NEW pc, Goto(r, pc)
    PROVE  /\ task'[r].pc = pc
           /\ task'[r].loaded = task[r].loaded
           /\ task'[r].steps = task[r].steps
           /\ task'[r].step = task[r].step
           /\ task'[r].tool = task[r].tool
           /\ task'[r].plugin = task[r].plugin
           /\ task'[r].state = task[r].state
<1>1. task \in [Runs -> Task] /\ task[r] \in Task
  BY DEF TypeOK
<1>2. task'[r] = [task[r] EXCEPT !.pc = pc]
  BY <1>1 DEF Goto
<1> QED
  BY <1>1, <1>2 DEF Task

-----------------------------------------------------------------------------
(* The loop indices.                                                        *)

LEMMA IndexWork ==
    ASSUME TypeOK, NEW r \in Runs, IndexInv(r), Work(r) \/ Die(r)
    PROVE  IndexInv(r)'
<1> USE DEF IndexInv, BeforeStart, BetweenSteps, InStepPCs, ToolPCs, CurrentStep
<1>t. task \in [Runs -> Task] /\ task[r] \in Task
  BY DEF TypeOK
<1>n. task[r].step \in Nat /\ task[r].tool \in Nat /\ task[r].steps \in Seq(Step)
      /\ Len(task[r].steps) \in Nat
  BY <1>t DEF Task
<1>1. CASE Deliver(r) \/ FailOrphan(r) \/ Validate(r) \/ LogCancelled(r)
  BY <1>1, GotoFields DEF Deliver, FailOrphan, Validate, LogCancelled
<1>2. CASE Load(r)
  BY <1>2, <1>t DEF Load, Task
<1>3. CASE Start(r)
  BY <1>3, <1>t, <1>n DEF Start, Task
<1>4. CASE Refresh(r)
  BY <1>4, <1>t, <1>n DEF Refresh, Task
<1>5. CASE StartStep(r)
  <2>1. CurrentStep(r) \in Step
    BY <1>5, StepType DEF StartStep
  <2>2. Len(CurrentStep(r).tools) \in Nat
        /\ (CurrentStep(r).tools # <<>> => Len(CurrentStep(r).tools) >= 1)
    BY <2>1 DEF Step
  <2> QED
    BY <1>5, <1>t, <1>n, <2>2 DEF StartStep, Task
<1>6. CASE Lookup(r)
  <2>1. Tool(r) \in Plugins
    BY <1>6, ToolType DEF Lookup
  <2>2. CASE Goto(r, "fail")
    BY <1>6, <2>2, GotoFields DEF Lookup
  <2>3. CASE ~Goto(r, "fail")
    BY <1>6, <1>t, <1>n, <2>1, <2>3 DEF Lookup, Task
  <2> QED
    BY <2>2, <2>3
<1>7. CASE RejectPlugin(r) \/ RunPlugin(r) \/ PluginReturns(r) \/ PluginFails(r)
  BY <1>7, <1>n, GotoFields DEF RejectPlugin, RunPlugin, PluginReturns, PluginFails
<1>8. CASE Process(r)
  <2>1. CurrentStep(r) \in Step
    BY <1>8, StepType DEF Process
  <2>2. Len(CurrentStep(r).tools) \in Nat
    BY <2>1 DEF Step
  <2>3. CASE Goto(r, "endStep") \/ Goto(r, "fail")
    BY <1>8, <2>3, <1>n, GotoFields DEF Process
  <2>4. CASE ~(Goto(r, "endStep") \/ Goto(r, "fail"))
    BY <1>8, <2>2, <2>4, <1>t, <1>n DEF Process, Task
  <2> QED
    BY <2>3, <2>4
<1>9. CASE CompleteStep(r)
  BY <1>9, <1>t, <1>n DEF CompleteStep, Task
<1>10. CASE CompleteRun(r) \/ FailRun(r) \/ Abort(r) \/ Die(r)
  BY <1>10, GotoFields DEF CompleteRun, FailRun, Finish, Abort, Die
<1> QED
  BY <1>1, <1>2, <1>3, <1>4, <1>5, <1>6, <1>7, <1>8, <1>9, <1>10 DEF Work

-----------------------------------------------------------------------------
(* The row.                                                                 *)

LEMMA RowWork ==
    ASSUME TypeOK, NEW r \in Runs, IndexInv(r), RowInv(r), Work(r) \/ Die(r)
    PROVE  RowInv(r)'
<1> USE DEF RowInv, BeforeStart, BetweenSteps, InStepPCs, ToolPCs, Terminal
<1>t. task \in [Runs -> Task] /\ task[r] \in Task
  BY DEF TypeOK
<1>s. status \in [Runs -> Statuses \cup {"none"}] /\ stamped \in [Runs -> BOOLEAN]
  BY DEF TypeOK
<1>1. CASE Deliver(r) \/ Validate(r) \/ Abort(r) \/ Die(r)
  BY <1>1, <1>s, GotoFields DEF Deliver, Validate, Abort, Die, runVars, EventPCs,
     Live, Over, PCs, Statuses
<1>2. CASE Load(r)
  BY <1>2, <1>t, <1>s DEF Load, Task, runVars
<1>3. CASE Start(r)
  BY <1>3, <1>t, <1>s DEF Start, Task
<1>4. CASE Refresh(r)
  BY <1>4, <1>t, <1>s DEF Refresh, Task, runVars
<1>5. CASE LogCancelled(r) \/ FailOrphan(r) \/ CompleteRun(r) \/ FailRun(r)
  BY <1>5, <1>s, GotoFields DEF LogCancelled, FailOrphan, CompleteRun, FailRun, Finish
<1>6. CASE StartStep(r)
  BY <1>6, <1>t, <1>s DEF StartStep, Task
<1>7. CASE Lookup(r)
  <2>1. CASE Goto(r, "fail")
    BY <1>7, <2>1, <1>s, GotoFields DEF Lookup, runVars
  <2>2. CASE ~Goto(r, "fail")
    BY <1>7, <2>2, <1>t, <1>s DEF Lookup, Task, runVars
  <2> QED
    BY <2>1, <2>2
<1>8. CASE RejectPlugin(r) \/ RunPlugin(r) \/ PluginReturns(r) \/ PluginFails(r)
  BY <1>8, <1>s, GotoFields DEF RejectPlugin, RunPlugin, PluginReturns, PluginFails
<1>9. CASE Process(r)
  <2>1. CASE Goto(r, "endStep") \/ Goto(r, "fail")
    BY <1>9, <2>1, <1>s, GotoFields DEF Process, runVars
  <2>2. CASE ~(Goto(r, "endStep") \/ Goto(r, "fail"))
    BY <1>9, <2>2, <1>t, <1>s DEF Process, Task, runVars
  <2> QED
    BY <2>1, <2>2
<1>10. CASE CompleteStep(r)
  BY <1>10, <1>t, <1>s DEF CompleteStep, Task
<1> QED
  BY <1>1, <1>2, <1>3, <1>4, <1>5, <1>6, <1>7, <1>8, <1>9, <1>10 DEF Work

-----------------------------------------------------------------------------
(* The event log.                                                           *)

LEMMA OrderedLast ==
    ASSUME NEW log \in Seq(Event), NEW k \in Nat, Ordered(log, Len(log)), log # <<>>,
           Len(log) = 2 * k \/ Len(log) = 2 * k + 1
    PROVE  /\ log[Len(log)].type \in {"workflow.started", "step.started", "step.completed"}
           /\ Len(log) = 2 * k => log[Len(log)].type = "step.started"
           /\ Len(log) = 2 * k + 1 => log[Len(log)].type # "step.started"
<1>1. Len(log) \in Nat /\ Len(log) >= 1
  OBVIOUS
<1>2. CASE k = 0
  BY <1>1, <1>2 DEF Ordered
<1>3. CASE k # 0
  <2>1. k \in 1..Len(log) /\ Len(log) >= 2 * k
    BY <1>1, <1>3
  <2>2. CASE Len(log) = 2 * k
    <3>1. log[2 * k] = [type |-> "step.started", step |-> k]
      BY <2>1, <2>2 DEF Ordered
    <3> QED
      BY <2>2, <3>1
  <2>3. CASE Len(log) = 2 * k + 1
    <3>1. log[2 * k + 1] = [type |-> "step.completed", step |-> k]
      BY <2>1, <2>3 DEF Ordered
    <3> QED
      BY <2>3, <3>1
  <2> QED
    BY <2>2, <2>3
<1> QED
  BY <1>2, <1>3

LEMMA OrderedAppend ==
    ASSUME NEW log \in Seq(Event), NEW k \in Nat, k >= 1, NEW e,
           Ordered(log, Len(log)),
           \/ Len(log) = 2 * k - 1 /\ e = [type |-> "step.started", step |-> k]
           \/ Len(log) = 2 * k     /\ e = [type |-> "step.completed", step |-> k]
    PROVE  Ordered(Append(log, e), Len(Append(log, e)))
<1> DEFINE l2 == Append(log, e)
<1>1. e \in Event
  BY DEF Event, EventTypes
<1>2. /\ Len(log) \in Nat
      /\ Len(log) >= 1
      /\ Len(l2) = Len(log) + 1
      /\ l2[Len(log) + 1] = e
      /\ \A i \in 1..Len(log) : l2[i] = log[i]
  BY <1>1
<1>3. l2[1] = [type |-> "workflow.started", step |-> 0]
  BY <1>2 DEF Ordered
<1>4. ASSUME NEW i \in 1..Len(l2), 2 * i <= Len(l2)
      PROVE  l2[2 * i] = [type |-> "step.started", step |-> i]
  <2>1. CASE 2 * i <= Len(log)
    <3>1. i \in 1..Len(log) /\ 2 * i \in 1..Len(log)
      BY <1>2, <2>1
    <3>2. log[2 * i] = [type |-> "step.started", step |-> i]
      BY <2>1, <3>1 DEF Ordered
    <3> QED
      BY <1>2, <3>1, <3>2
  <2>2. CASE 2 * i = Len(log) + 1
    BY <1>2, <2>2
  <2> QED
    BY <1>2, <1>4, <2>1, <2>2
<1>5. ASSUME NEW i \in 1..Len(l2), 2 * i + 1 <= Len(l2)
      PROVE  l2[2 * i + 1] = [type |-> "step.completed", step |-> i]
  <2>1. CASE 2 * i + 1 <= Len(log)
    <3>1. i \in 1..Len(log) /\ 2 * i + 1 \in 1..Len(log)
      BY <1>2, <2>1
    <3>2. log[2 * i + 1] = [type |-> "step.completed", step |-> i]
      BY <2>1, <3>1 DEF Ordered
    <3> QED
      BY <1>2, <3>1, <3>2
  <2>2. CASE 2 * i + 1 = Len(log) + 1
    BY <1>2, <2>2
  <2> QED
    BY <1>2, <1>5, <2>1, <2>2
<1>6. Ordered(l2, Len(l2))
  <2> HIDE DEF l2
  <2>1. Len(l2) >= Len(l2)
    BY <1>2
  <2> QED
    BY <1>3, <1>4, <1>5, <2>1 DEF Ordered
<1> QED
  BY <1>6

\* What a closing event leaves of the order, and where it stands.
LEMMA AppendLast ==
    ASSUME NEW log \in Seq(Event), NEW e \in Event
    PROVE  /\ Append(log, e) # <<>>
           /\ Len(Append(log, e)) = Len(log) + 1
           /\ Append(log, e)[Len(Append(log, e))] = e
           /\ Ordered(log, Len(log)) => Ordered(Append(log, e), Len(Append(log, e)) - 1)
<1> DEFINE l2 == Append(log, e)
<1>1. /\ Len(log) \in Nat
      /\ Len(l2) = Len(log) + 1
      /\ l2[Len(log) + 1] = e
      /\ \A i \in 1..Len(log) : l2[i] = log[i]
  OBVIOUS
<1>2. ASSUME Ordered(log, Len(log))  PROVE Ordered(l2, Len(log))
  <2>1. ASSUME NEW i \in 1..Len(l2), 2 * i <= Len(log)
        PROVE  l2[2 * i] = [type |-> "step.started", step |-> i]
    <3>1. i \in 1..Len(log) /\ 2 * i \in 1..Len(log)
      BY <1>1, <2>1
    <3>2. log[2 * i] = [type |-> "step.started", step |-> i]
      BY <1>2, <2>1, <3>1 DEF Ordered
    <3> QED
      BY <1>1, <3>1, <3>2
  <2>2. ASSUME NEW i \in 1..Len(l2), 2 * i + 1 <= Len(log)
        PROVE  l2[2 * i + 1] = [type |-> "step.completed", step |-> i]
    <3>1. i \in 1..Len(log) /\ 2 * i + 1 \in 1..Len(log)
      BY <1>1, <2>2
    <3>2. log[2 * i + 1] = [type |-> "step.completed", step |-> i]
      BY <1>2, <2>2, <3>1 DEF Ordered
    <3> QED
      BY <1>1, <3>1, <3>2
  <2> QED
    BY <1>1, <1>2, <2>1, <2>2 DEF Ordered
<1> QED
  BY <1>1, <1>2

LEMMA LogEventEffect ==
    ASSUME TypeOK, NEW r \in Runs, NEW type \in EventTypes, NEW k \in Nat,
           LogEvent(r, type, k)
    PROVE  /\ WorkflowExists(r)
           /\ events[r] \in Seq(Event)
           /\ [type |-> type, step |-> k] \in Event
           /\ events'[r] = Append(events[r], [type |-> type, step |-> k])
BY DEF TypeOK, LogEvent, Event

\* While the task lives, the log is open: its last event closes nothing.
LEMMA LastOpen ==
    ASSUME TypeOK, NEW r \in Runs, IndexInv(r), LogInv(r), WorkflowExists(r),
           task[r].pc \in Live
    PROVE  /\ LastType(r) \notin {"workflow.completed", "workflow.failed", "workflow.cancelled"}
           /\ task[r].pc \in BetweenSteps =>
                LastType(r) \in {"workflow.started", "step.completed"}
<1>t. task[r] \in Task /\ events[r] \in Seq(Event)
  BY DEF TypeOK
<1>n. task[r].step \in Nat
  BY <1>t DEF Task
<1>1. CASE task[r].pc \in BeforeStart
  BY <1>1 DEF LogInv, LastType, BeforeStart, BetweenSteps
<1>2. CASE task[r].pc \in BetweenSteps
  <2>1. task[r].step >= 1
    BY <1>2, <1>n DEF IndexInv
  <2>2. PICK k \in Nat : k = task[r].step - 1
    BY <2>1, <1>n
  <2>3. Len(events[r]) = 2 * k + 1 /\ events[r] # <<>> /\ Ordered(events[r], Len(events[r]))
    BY <1>2, <1>n, <1>t, <2>2 DEF LogInv
  <2> QED
    BY <1>t, <2>3, OrderedLast DEF LastType
<1>3. CASE task[r].pc \in InStepPCs \cup {"fail"}
  <2>1. Len(events[r]) = 2 * task[r].step /\ Ordered(events[r], Len(events[r]))
    BY <1>3 DEF LogInv
  <2>2. CASE events[r] = <<>>
    BY <2>2, <1>3 DEF LastType, BetweenSteps, InStepPCs, ToolPCs
  <2>3. CASE events[r] # <<>>
    BY <2>1, <2>3, <1>t, <1>n, <1>3, OrderedLast DEF LastType, BetweenSteps, InStepPCs, ToolPCs
  <2> QED
    BY <2>2, <2>3
<1> QED
  BY <1>1, <1>2, <1>3 DEF Live, PCs, Over, BeforeStart, BetweenSteps, InStepPCs, ToolPCs

LEMMA LogWork ==
    ASSUME TypeOK, NEW r \in Runs, IndexInv(r), RowInv(r), LogInv(r), Work(r) \/ Die(r)
    PROVE  LogInv(r)'
<1> USE DEF BeforeStart, BetweenSteps, InStepPCs, ToolPCs
<1>t. task \in [Runs -> Task] /\ task[r] \in Task /\ events[r] \in Seq(Event)
  BY DEF TypeOK
<1>n. task[r].step \in Nat /\ task[r].tool \in Nat /\ task[r].steps \in Seq(Step)
      /\ Len(task[r].steps) \in Nat
  BY <1>t DEF Task
<1>w. UNCHANGED workflows
  BY DEF Work, Deliver, Load, FailOrphan, Validate, Start, Refresh, LogCancelled,
     StartStep, Lookup, RejectPlugin, RunPlugin, PluginReturns, PluginFails, Process,
     CompleteStep, CompleteRun, FailRun, Abort, Die, Finish, dbVars
<1>x. CASE ~WorkflowExists(r)
  <2>1. events' = events
    BY <1>x DEF Work, Deliver, Load, FailOrphan, Validate, Start, Refresh, LogCancelled,
       StartStep, Lookup, RejectPlugin, RunPlugin, PluginReturns, PluginFails, Process,
       CompleteStep, CompleteRun, FailRun, Abort, Die, Finish, LogEvent, runVars
  <2> QED
    BY <1>x, <1>w, <2>1 DEF LogInv, WorkflowExists
<1>y. CASE WorkflowExists(r)
  <2> USE <1>y
  <2>w. WorkflowExists(r)'
    BY <1>w DEF WorkflowExists
  <2>1. CASE Deliver(r)
    BY <2>1, <2>w, GotoFields DEF LogInv, Deliver, runVars, LastType
  <2>2. CASE Load(r)
    BY <2>2, <2>w, <1>t DEF LogInv, Load, Task, runVars
  <2>3. CASE FailOrphan(r)
    BY <2>3 DEF LogInv, FailOrphan
  <2>4. CASE Validate(r)
    <3>1. events[r] = <<>> /\ events' = events /\ status' = status
      BY <2>4 DEF LogInv, Validate, runVars
    <3>2. Ordered(<<>>, 0)
      BY DEF Ordered
    <3>3. Len(events[r]) = 0 /\ task[r].step = 0
      BY <2>4, <3>1 DEF IndexInv, Validate
    <3>4. \/ task'[r].pc \in {"fail", "start"}
          \/ task'[r].pc = "done" /\ status[r] = "cancelled"
      BY <2>4, GotoFields DEF Validate, RowInv
    <3>5. task'[r].step = 0
      BY <2>4, <3>3, GotoFields DEF Validate
    <3> QED
      BY <2>w, <3>1, <3>2, <3>3, <3>4, <3>5 DEF LogInv
  <2>5. CASE Start(r)
    <3>1. task'[r].pc = "refresh" /\ task'[r].step = 1
      BY <2>5, <1>t DEF Start, Task
    <3>2. events[r] = <<>>
      BY <2>5 DEF LogInv, Start
    <3>3. events'[r] = << [type |-> "workflow.started", step |-> 0] >>
      BY <2>5, <3>2, LogEventEffect DEF Start, EventTypes
    <3>4. Len(events'[r]) = 1 /\ Ordered(events'[r], 1)
      BY <3>3 DEF Ordered
    <3> QED
      BY <2>w, <3>1, <3>4, <3>3 DEF LogInv
  <2>6. CASE Refresh(r)
    <3>1. events' = events /\ status' = status /\ task'[r].step = task[r].step
      BY <2>6, <1>t DEF Refresh, Task, runVars
    <3>2. \/ task'[r].pc \in {"cancel", "step", "complete"}
          \/ task'[r].pc = "done" /\ status[r] = "cancelled"
      BY <2>6, <1>t DEF Refresh, Task, RowInv
    <3>3. LastType(r) \in {"workflow.started", "step.completed"}
      BY <2>6, LastOpen DEF Refresh, Live, PCs, Over
    <3>4. Len(events[r]) = 2 * task[r].step - 1 /\ Ordered(events[r], Len(events[r]))
      BY <2>6 DEF LogInv, Refresh
    <3>5. events[r] # <<>>
      BY <3>4, <1>n, <1>t
    <3> QED
      BY <2>w, <3>1, <3>2, <3>3, <3>4, <3>5 DEF LogInv, LastType
  <2>7. CASE LogCancelled(r)
    <3>1. task'[r].pc = "done" /\ status'[r] = "cancelled"
      BY <2>7, GotoFields DEF LogCancelled, RowInv
    <3>2. PICK k \in Nat : k = task[r].step - 1
      BY <2>7, <1>n DEF LogCancelled, IndexInv
    <3>3. events'[r] = Append(events[r], [type |-> "workflow.cancelled", step |-> k])
      BY <2>7, <3>2, LogEventEffect DEF LogCancelled, EventTypes
    <3>4. [type |-> "workflow.cancelled", step |-> k] \in Event
      BY DEF Event, EventTypes
    <3>5. LastType(r)' = "workflow.cancelled" /\ events'[r] # <<>>
      BY <3>3, <3>4, <1>t, AppendLast DEF LastType
    <3> QED
      BY <2>w, <3>1, <3>5 DEF LogInv
  <2>8. CASE StartStep(r)
    <3> DEFINE e == [type |-> "step.started", step |-> task[r].step]
    <3>1. task'[r].pc \in {"endStep", "lookup"} /\ task'[r].step = task[r].step
      BY <2>8, <1>t DEF StartStep, Task
    <3>2. events'[r] = Append(events[r], e) /\ e \in Event
      BY <2>8, <1>n, LogEventEffect DEF StartStep, EventTypes
    <3>3. /\ Len(events[r]) = 2 * task[r].step - 1
          /\ task[r].step >= 1
          /\ Ordered(events[r], Len(events[r]))
      BY <2>8, <1>n DEF LogInv, StartStep, IndexInv
    <3>4. Ordered(events'[r], Len(events'[r]))
      BY <3>2, <3>3, <1>t, <1>n, OrderedAppend
    <3>5. Len(events'[r]) = Len(events[r]) + 1
      BY <3>2, <1>t, AppendLast
    <3>6. Len(events'[r]) = 2 * task[r].step
      BY <3>3, <3>5, <1>n
    <3> QED
      BY <2>w, <3>1, <3>4, <3>6 DEF LogInv
  <2>9. CASE Lookup(r) \/ Process(r) \/ RejectPlugin(r) \/ RunPlugin(r)
              \/ PluginReturns(r) \/ PluginFails(r)
    <3>1. events' = events /\ task[r].pc \in ToolPCs
      BY <2>9 DEF Lookup, Process, RejectPlugin, RunPlugin, PluginReturns, PluginFails, runVars
    <3>2. task'[r].pc \in InStepPCs \cup {"fail"} /\ task'[r].step = task[r].step
      <4>1. CASE Lookup(r)
        <5>1. CASE Goto(r, "fail")
          BY <5>1, GotoFields
        <5>2. CASE ~Goto(r, "fail")
          BY <4>1, <5>2, <1>t DEF Lookup, Task
        <5> QED
          BY <5>1, <5>2
      <4>2. CASE Process(r)
        <5>1. CASE Goto(r, "endStep") \/ Goto(r, "fail")
          BY <5>1, GotoFields
        <5>2. CASE ~(Goto(r, "endStep") \/ Goto(r, "fail"))
          BY <4>2, <5>2, <1>t DEF Process, Task
        <5> QED
          BY <5>1, <5>2
      <4>3. CASE RejectPlugin(r) \/ RunPlugin(r) \/ PluginReturns(r) \/ PluginFails(r)
        BY <4>3, GotoFields DEF RejectPlugin, RunPlugin, PluginReturns, PluginFails
      <4> QED
        BY <2>9, <4>1, <4>2, <4>3
    <3> QED
      BY <2>w, <3>1, <3>2 DEF LogInv
  <2>10. CASE CompleteStep(r)
    <3> DEFINE e == [type |-> "step.completed", step |-> task[r].step]
    <3>1. task'[r].pc = "refresh" /\ task'[r].step = task[r].step + 1
      BY <2>10, <1>t DEF CompleteStep, Task
    <3>2. events'[r] = Append(events[r], e) /\ e \in Event
      BY <2>10, <1>n, LogEventEffect DEF CompleteStep, EventTypes
    <3>3. /\ Len(events[r]) = 2 * task[r].step
          /\ task[r].step >= 1
          /\ Ordered(events[r], Len(events[r]))
      BY <2>10, <1>n DEF LogInv, CompleteStep, IndexInv
    <3>4. Ordered(events'[r], Len(events'[r]))
      BY <3>2, <3>3, <1>t, <1>n, OrderedAppend
    <3>5. Len(events'[r]) = Len(events[r]) + 1
      BY <3>2, <1>t, AppendLast
    <3>6. Len(events'[r]) = 2 * task'[r].step - 1
      BY <3>1, <3>3, <3>5, <1>n
    <3> QED
      BY <2>w, <3>1, <3>4, <3>6 DEF LogInv
  <2>11. CASE CompleteRun(r)
    <3> DEFINE e == [type |-> "workflow.completed", step |-> 0]
    <3>1. /\ task'[r].pc = "done" /\ task'[r].steps = task[r].steps
          /\ status'[r] = "completed"
      BY <2>11, GotoFields DEF CompleteRun, Finish, TypeOK
    <3>2. events'[r] = Append(events[r], e) /\ e \in Event
      BY <2>11, LogEventEffect DEF CompleteRun, Finish, EventTypes
    <3>3. /\ Len(events[r]) = 2 * task[r].step - 1
          /\ task[r].step = Len(task[r].steps) + 1
          /\ Ordered(events[r], Len(events[r]))
      BY <2>11 DEF LogInv, CompleteRun, IndexInv
    <3>4. /\ Len(events'[r]) = Len(events[r]) + 1
          /\ Ordered(events'[r], Len(events'[r]) - 1)
      <4>1. Ordered(Append(events[r], e), Len(Append(events[r], e)) - 1)
        BY <3>2, <3>3, <1>t, AppendLast
      <4>2. Len(Append(events[r], e)) = Len(events[r]) + 1
        BY <3>2, <1>t, AppendLast
      <4> QED
        BY <3>2, <4>1, <4>2, Zenon
    <3>5. events'[r] # <<>> /\ LastType(r)' = "workflow.completed"
      BY <3>2, <1>t, AppendLast DEF LastType
    <3>6. Len(events[r]) = 2 * (Len(task[r].steps) + 1) - 1
      BY <3>3
    <3>7. Len(events'[r]) = 2 * Len(task[r].steps) + 2
      BY <3>4, <3>6, <1>n
    <3> QED
      BY <2>w, <3>1, <3>4, <3>5, <3>7 DEF LogInv, ClosedWith
  <2>12. CASE FailRun(r)
    <3> DEFINE e == [type |-> "workflow.failed", step |-> task[r].step]
    <3>1. task'[r].pc = "done" /\ status'[r] = "failed"
      BY <2>12, GotoFields DEF FailRun, Finish, TypeOK
    <3>2. events'[r] = Append(events[r], e) /\ e \in Event
      BY <2>12, <1>n, LogEventEffect DEF FailRun, Finish, EventTypes
    <3>3. events'[r] # <<>> /\ LastType(r)' = "workflow.failed"
      BY <3>2, <1>t, AppendLast DEF LastType
    <3> QED
      BY <2>w, <3>1, <3>3 DEF LogInv, ClosedWith
  <2>13. CASE Abort(r) \/ Die(r)
    <3>1. Die(r)
      BY <2>13 DEF Abort
    <3>2. events' = events /\ task'[r].pc = "dead"
      BY <3>1, GotoFields DEF Die, runVars
    <3>3. LastType(r) \notin {"workflow.completed", "workflow.failed", "workflow.cancelled"}
      BY <3>1, LastOpen DEF Die
    <3> QED
      BY <2>w, <3>2, <3>3 DEF LogInv, LastType
  <2> QED
    BY <2>1, <2>2, <2>3, <2>4, <2>5, <2>6, <2>7, <2>8, <2>9, <2>10, <2>11, <2>12,
       <2>13 DEF Work
<1> QED
  BY <1>x, <1>y

-----------------------------------------------------------------------------
(* The plugin object.                                                       *)

LEMMA PluginWork ==
    ASSUME TypeOK, NEW r \in Runs, IndexInv(r), PluginInv(r), Work(r) \/ Die(r)
    PROVE  PluginInv(r)'
<1>t. task \in [Runs -> Task] /\ task[r] \in Task /\ vetted \in [Runs -> SUBSET Plugins]
      /\ pluginLog \in [Runs -> Seq(PluginEvent)]
  BY DEF TypeOK
<1>1. CASE Deliver(r)
  BY <1>1, <1>t, GotoFields DEF Deliver, PluginInv, dbVars, runVars
<1>2. CASE FailOrphan(r) \/ Validate(r) \/ LogCancelled(r) \/ CompleteRun(r)
           \/ FailRun(r) \/ Abort(r) \/ Die(r)
  <2>1. /\ UNCHANGED <<pluginLog, pluginState, vetted>>
        /\ task[r].pc \notin {"none", "queued"}
        /\ task'[r].pc \in {"done", "fail", "start", "dead"}
        /\ task'[r].plugin = task[r].plugin /\ task'[r].state = task[r].state
    BY <1>2, GotoFields DEF FailOrphan, Validate, LogCancelled, CompleteRun, FailRun,
       Abort, Die, Finish, EventPCs, Live, dbVars, runVars, ghosts
  <2> QED
    BY <2>1 DEF PluginInv
<1>3. CASE Load(r) \/ Start(r) \/ Refresh(r) \/ StartStep(r) \/ CompleteStep(r)
  <2>1. /\ UNCHANGED <<pluginLog, pluginState, vetted>>
        /\ task[r].pc \notin {"none", "queued"}
        /\ task'[r].plugin = task[r].plugin /\ task'[r].state = task[r].state
    BY <1>3, <1>t DEF Load, Start, Refresh, StartStep, CompleteStep, Task,
       dbVars, runVars, ghosts
  <2>2. task'[r].pc \notin {"none", "queued", "attach", "exec", "process"}
    BY <1>3, <1>t DEF Load, Start, Refresh, StartStep, CompleteStep, Task
  <2> QED
    BY <2>1, <2>2 DEF PluginInv
<1>4. CASE Lookup(r)
  <2>1. UNCHANGED <<pluginLog, pluginState, vetted>> /\ task[r].pc = "lookup"
    BY <1>4 DEF Lookup, dbVars, runVars, ghosts
  <2>2. CASE Goto(r, "fail")
    BY <2>1, <2>2, GotoFields DEF PluginInv
  <2>3. CASE ~Goto(r, "fail")
    <3>1. Tool(r) \in Plugins
      BY <1>4, ToolType DEF Lookup, ToolPCs
    <3> DEFINE seen == IF task[r].plugin = Tool(r) THEN task[r].state
                       ELSE pluginState[Tool(r)]
    <3>2. /\ task'[r].plugin = Tool(r) /\ task'[r].state = seen
          /\ task'[r].pc \in {"attach", "reject"}
          /\ task'[r].pc = "attach" => seen = "approved"
      BY <1>4, <2>3, <1>t DEF Lookup, Task
    <3>3. seen = "approved" => Tool(r) \in vetted[r]
      BY <2>1, <3>1, ConstantsAssumption DEF PluginInv
    <3> QED
      BY <2>1, <3>2, <3>3 DEF PluginInv
  <2> QED
    BY <2>2, <2>3
<1>5. CASE RejectPlugin(r) \/ RunPlugin(r) \/ PluginReturns(r) \/ PluginFails(r)
  <2>1. /\ UNCHANGED <<pluginState, vetted>>
        /\ task[r].pc \in {"reject", "attach", "exec"}
        /\ task'[r].pc \in {"fail", "exec", "process"}
        /\ task'[r].pc # "fail" => task[r].pc \in {"attach", "exec"}
        /\ task'[r].plugin = task[r].plugin /\ task'[r].state = task[r].state
    BY <1>5, GotoFields DEF RejectPlugin, RunPlugin, PluginReturns, PluginFails,
       dbVars, ghosts
  <2>2. PICK type \in {"plugin.started", "plugin.completed", "plugin.failed"} :
             /\ LogPluginEvent(r, type, task[r].plugin)
             /\ type = "plugin.started" => task[r].pc = "attach"
    BY <1>5 DEF RejectPlugin, RunPlugin, PluginReturns, PluginFails
  <2>3. task[r].plugin \in Plugins /\ task[r].plugin # NoPlugin
    BY <2>1, ConstantsAssumption DEF IndexInv
  <2>4. type = "plugin.started" => task[r].plugin \in vetted[r]
    BY <2>2, <2>3 DEF PluginInv
  <2> DEFINE e == [type |-> type, plugin |-> task[r].plugin]
  <2>5. e \in PluginEvent /\ pluginLog'[r] = Append(pluginLog[r], e)
    BY <1>t, <2>2, <2>3 DEF PluginEvent, LogPluginEvent
  <2>6. ASSUME NEW i \in 1..Len(pluginLog'[r]), pluginLog'[r][i].type = "plugin.started"
        PROVE  pluginLog'[r][i].plugin \in vetted[r]
    <3>1. CASE i = Len(pluginLog[r]) + 1
      BY <1>t, <2>4, <2>5, <2>6, <3>1
    <3>2. CASE i # Len(pluginLog[r]) + 1
      <4>1. i \in 1..Len(pluginLog[r]) /\ pluginLog'[r][i] = pluginLog[r][i]
        BY <1>t, <2>5, <3>2
      <4> QED
        BY <2>6, <4>1 DEF PluginInv
    <3> QED
      BY <3>1, <3>2
  <2> QED
    BY <2>1, <2>6 DEF PluginInv
<1>6. CASE Process(r)
  <2>1. UNCHANGED <<pluginLog, pluginState, vetted>> /\ task[r].pc = "process"
    BY <1>6 DEF Process, dbVars, runVars, ghosts
  <2>2. /\ task'[r].pc \in {"lookup", "endStep", "fail"}
        /\ task'[r].plugin = task[r].plugin /\ task'[r].state = task[r].state
    <3>1. CASE Goto(r, "endStep") \/ Goto(r, "fail")
      BY <3>1, GotoFields
    <3>2. CASE ~(Goto(r, "endStep") \/ Goto(r, "fail"))
      BY <1>6, <3>2, <1>t DEF Process, Task
    <3> QED
      BY <3>1, <3>2
  <2> QED
    BY <2>1, <2>2 DEF PluginInv
<1> QED
  BY <1>1, <1>2, <1>3, <1>4, <1>5, <1>6 DEF Work

-----------------------------------------------------------------------------
(* The inductive invariant.                                                 *)

\* The invariant of a run speaks of nothing but that run and the database.
LEMMA RunFrame ==
    ASSUME NEW q \in Runs, RunInv(q), UNCHANGED <<RunState(q), dbVars>>
    PROVE  RunInv(q)'
<1>1. /\ status'[q] = status[q] /\ stamped'[q] = stamped[q] /\ events'[q] = events[q]
      /\ pluginLog'[q] = pluginLog[q] /\ request'[q] = request[q]
      /\ task'[q] = task[q] /\ vetted'[q] = vetted[q]
      /\ workflows' = workflows /\ pluginState' = pluginState
  BY DEF RunState, dbVars
<1>2. IndexInv(q)'
  BY <1>1 DEF RunInv, IndexInv, CurrentStep
<1>3. RowInv(q)'
  BY <1>1 DEF RunInv, RowInv
<1>4. LogInv(q)'
  BY <1>1 DEF RunInv, LogInv, WorkflowExists, ClosedWith, LastType
<1>5. PluginInv(q)'
  BY <1>1 DEF RunInv, PluginInv
<1> QED
  BY <1>2, <1>3, <1>4, <1>5 DEF RunInv

LEMMA RequestInv ==
    ASSUME TypeOK, NEW r \in Runs, RunInv(r), Request(r)
    PROVE  RunInv(r)'
<1>t. /\ task \in [Runs -> Task] /\ task[r] \in Task
      /\ status \in [Runs -> Statuses \cup {"none"}] /\ stamped \in [Runs -> BOOLEAN]
      /\ request \in [Runs -> {"idle", "starting", "cancelling"}]
  BY DEF TypeOK
<1>f. UNCHANGED <<workflows, pluginState, events, pluginLog, vetted>>
  BY DEF Request, StartWorkflow, Enqueue, EnqueueFails, ReadForCancel, CommitCancel,
     dbVars, runVars, ghosts
<1>1. CASE Enqueue(r)
  <2>1. /\ task[r].pc = "none" /\ status[r] # "none"
        /\ UNCHANGED <<status, stamped>> /\ request'[r] = "idle"
    BY <1>1, <1>t DEF Enqueue, RunInv, RowInv, runVars
  <2>2. /\ task'[r].pc = "queued" /\ task'[r].step = task[r].step
        /\ task'[r].plugin = task[r].plugin
    BY <1>1, <1>t DEF Enqueue, Task
  <2>3. IndexInv(r)'
    BY <2>1, <2>2 DEF RunInv, IndexInv, BeforeStart, BetweenSteps, InStepPCs, ToolPCs
  <2>4. RowInv(r)'
    BY <2>1, <2>2 DEF RunInv, RowInv, BeforeStart, BetweenSteps, InStepPCs, ToolPCs
  <2>5. LogInv(r)'
    BY <1>f, <2>1, <2>2
    DEF RunInv, LogInv, WorkflowExists, BeforeStart, BetweenSteps, InStepPCs, ToolPCs
  <2>6. PluginInv(r)'
    BY <1>f, <2>1, <2>2 DEF RunInv, PluginInv
  <2> QED
    BY <2>3, <2>4, <2>5, <2>6 DEF RunInv
<1>2. CASE ~Enqueue(r)
  <2>1. /\ task' = task
        /\ \/ status'[r] = status[r] /\ stamped'[r] = stamped[r]
           \/ status[r] = "none" /\ status'[r] = "pending" /\ stamped'[r] = stamped[r]
           \/ status[r] # "none" /\ status'[r] = "cancelled" /\ stamped'[r]
    BY <1>2, <1>t DEF Request, StartWorkflow, EnqueueFails, ReadForCancel, CommitCancel,
       RunInv, RowInv, runVars
  <2>2. IndexInv(r)'
    BY <2>1 DEF RunInv, IndexInv, CurrentStep
  <2>3. RowInv(r)'
    BY <1>2, <1>t DEF Request, StartWorkflow, EnqueueFails, ReadForCancel, CommitCancel,
       RunInv, RowInv, runVars, BeforeStart, BetweenSteps, InStepPCs, ToolPCs, Terminal
  <2>4. LogInv(r)'
    BY <1>f, <2>1
    DEF RunInv, RowInv, LogInv, WorkflowExists, ClosedWith, LastType, BeforeStart,
        BetweenSteps, InStepPCs, ToolPCs
  <2>5. PluginInv(r)'
    BY <1>f, <2>1 DEF RunInv, PluginInv
  <2> QED
    BY <2>2, <2>3, <2>4, <2>5 DEF RunInv
<1> QED
  BY <1>1, <1>2

LEMMA EditInv ==
    ASSUME TypeOK, NEW r \in Runs, RunInv(r), Edit
    PROVE  RunInv(r)'
<1>t. events \in [Runs -> Seq(Event)] /\ vetted \in [Runs -> SUBSET Plugins]
      /\ pluginState \in [Plugins -> PluginStates \cup {"absent", "deleted"}]
  BY DEF TypeOK
<1>1. ASSUME NEW w \in Workflows, DeleteWorkflow(w)  PROVE RunInv(r)'
  <2>1. /\ UNCHANGED <<status, stamped, pluginLog, request, task, vetted, pluginState>>
        /\ workflows' = workflows \ {w}
        /\ events'[r] = IF WorkflowOf[r] = w THEN <<>> ELSE events[r]
    BY <1>1 DEF DeleteWorkflow, ghosts
  <2>2. IndexInv(r)' /\ RowInv(r)' /\ PluginInv(r)'
    BY <2>1 DEF RunInv, IndexInv, CurrentStep, RowInv, PluginInv
  <2>3. LogInv(r)'
    <3>1. CASE WorkflowOf[r] = w
      BY <2>1, <3>1 DEF LogInv, WorkflowExists
    <3>2. CASE WorkflowOf[r] # w
      BY <2>1, <3>2 DEF RunInv, LogInv, WorkflowExists, ClosedWith, LastType
    <3> QED
      BY <3>1, <3>2
  <2> QED
    BY <2>2, <2>3 DEF RunInv
<1>2. ASSUME \/ \E w \in Workflows, d \in Definitions : UpdateWorkflow(w, d)
             \/ \E s \in Scopes : DeleteScope(s)
      PROVE  RunInv(r)'
  <2>1. UNCHANGED <<status, stamped, events, pluginLog, request, task, vetted,
                    workflows, pluginState>>
    BY <1>2 DEF UpdateWorkflow, DeleteScope, runVars, ghosts
  <2>2. IndexInv(r)' /\ RowInv(r)' /\ PluginInv(r)'
    BY <2>1 DEF RunInv, IndexInv, CurrentStep, RowInv, PluginInv
  <2>3. LogInv(r)'
    BY <2>1 DEF RunInv, LogInv, WorkflowExists, ClosedWith, LastType
  <2> QED
    BY <2>2, <2>3 DEF RunInv
<1>3. ASSUME NEW p \in Plugins, \/ RegisterPlugin(p) \/ ApprovePlugin(p)
             \/ DisablePlugin(p) \/ DeprecatePlugin(p) \/ DeletePlugin(p)
      PROVE  RunInv(r)'
  <2>1. UNCHANGED <<status, stamped, events, pluginLog, request, task, workflows>>
    BY <1>3 DEF RegisterPlugin, ApprovePlugin, DisablePlugin, DeprecatePlugin,
       DeletePlugin, SetPluginState, runVars
  <2>2. /\ vetted[r] \subseteq vetted'[r]
        /\ \A q \in Plugins : pluginState'[q] = "approved" =>
             pluginState[q] = "approved" \/ q \in vetted'[r]
    BY <1>3, <1>t DEF RegisterPlugin, ApprovePlugin, DisablePlugin, DeprecatePlugin,
       DeletePlugin, SetPluginState
  <2>3. IndexInv(r)' /\ RowInv(r)'
    BY <2>1 DEF RunInv, IndexInv, CurrentStep, RowInv
  <2>4. PluginInv(r)'
    BY <2>1, <2>2 DEF RunInv, PluginInv
  <2>5. LogInv(r)'
    BY <2>1 DEF RunInv, LogInv, WorkflowExists, ClosedWith, LastType
  <2> QED
    BY <2>3, <2>4, <2>5 DEF RunInv
<1> QED
  BY <1>1, <1>2, <1>3 DEF Edit

LEMMA InitInv == Init => IInv
<1> SUFFICES ASSUME Init  PROVE IInv
  OBVIOUS
<1>1. IdleTask \in Task
  BY DEF IdleTask, Task, PCs, PluginStates
<1>2. TypeOK
  BY <1>1 DEF Init, TypeOK, PluginStates, Statuses
<1>3. ASSUME NEW r \in Runs  PROVE RunInv(r)
  BY DEF Init, RunInv, IndexInv, RowInv, LogInv, PluginInv, IdleTask, WorkflowExists,
     BeforeStart, BetweenSteps, InStepPCs, ToolPCs, Terminal
<1> QED
  BY <1>2, <1>3 DEF IInv

LEMMA NextInv == IInv /\ [Next]_vars => IInv'
<1> SUFFICES ASSUME IInv, [Next]_vars  PROVE IInv'
  OBVIOUS
<1>t. TypeOK /\ \A q \in Runs : RunInv(q)
  BY DEF IInv
<1>1. CASE Edit
  BY <1>1, <1>t, TypeEdit, EditInv DEF IInv
<1>2. ASSUME NEW r \in Runs, Request(r) \/ Work(r) \/ Die(r)  PROVE IInv'
  <2>1. TypeOK'
    BY <1>2, <1>t, TypeRequest, TypeWork DEF RunInv
  <2>2. RunInv(r)'
    <3>1. CASE Request(r)
      BY <1>t, <3>1, RequestInv
    <3>2. CASE Work(r) \/ Die(r)
      BY <1>t, <3>2, IndexWork, RowWork, LogWork, PluginWork DEF RunInv
    <3> QED
      BY <1>2, <3>1, <3>2
  <2>3. ASSUME NEW q \in Runs, q # r  PROVE RunInv(q)'
    BY <1>2, <1>t, <2>3, OtherRuns, RunFrame
  <2> QED
    BY <2>1, <2>2, <2>3 DEF IInv
<1>3. CASE UNCHANGED vars
  <2>1. TypeOK'
    BY <1>3, <1>t DEF TypeOK, vars, dbVars, runVars, ghosts
  <2>2. ASSUME NEW q \in Runs  PROVE RunInv(q)'
    BY <1>3, <1>t, RunFrame DEF vars, dbVars, runVars, ghosts, RunState
  <2> QED
    BY <2>1, <2>2 DEF IInv
<1> QED
  BY <1>1, <1>2, <1>3 DEF Next

\* The invariant holds throughout every execution.
THEOREM Invariance == Spec => []IInv
BY InitInv, NextInv, PTL DEF Spec

-----------------------------------------------------------------------------
(* What follows from it.                                                    *)

\* Every variable keeps to its type: in particular the loop indices of the
\* task never run past the definition it loaded (worker.py's two for loops).
THEOREM TypeCorrect == Spec => []TypeOK
<1>1. IInv => TypeOK
  BY DEF IInv
<1> QED
  BY <1>1, Invariance, PTL

\* Whoever writes last, the status column and the event log contradict each
\* other only by a cancellation (StatusMatchesLog).
THEOREM StatusAgreesWithLog == Spec => []StatusMatchesLog
<1>1. ASSUME IInv, NEW r \in Runs, WorkflowExists(r)
      PROVE  /\ LastType(r) = "workflow.completed" => status[r] \in {"completed", "cancelled"}
             /\ LastType(r) = "workflow.failed"    => status[r] \in {"failed", "cancelled"}
             /\ LastType(r) = "workflow.cancelled" => status[r] = "cancelled"
             /\ status[r] = "completed" => LastType(r) = "workflow.completed"
             /\ status[r] = "failed"    => LastType(r) = "workflow.failed"
  <2>1. TypeOK /\ RunInv(r) /\ task[r] \in Task
    BY <1>1 DEF IInv, TypeOK
  <2>2. task[r].pc \in PCs
    BY <2>1 DEF Task
  <2>3. CASE task[r].pc \in {"none", "queued"}
    BY <1>1, <2>1, <2>3 DEF RunInv, RowInv, LogInv, LastType, BeforeStart
  <2>4. CASE task[r].pc \in Live
    <3>1. LastType(r) \notin {"workflow.completed", "workflow.failed", "workflow.cancelled"}
      BY <1>1, <2>1, <2>4, LastOpen DEF RunInv
    <3>2. status[r] \notin {"completed", "failed"}
      BY <2>1, <2>4 DEF RunInv, RowInv, Live, PCs, Over, BeforeStart, BetweenSteps,
         InStepPCs, ToolPCs
    <3> QED
      BY <3>1, <3>2
  <2>5. CASE task[r].pc = "dead"
    BY <1>1, <2>1, <2>5 DEF RunInv, RowInv, LogInv
  <2>6. CASE task[r].pc = "done"
    BY <1>1, <2>1, <2>6 DEF RunInv, LogInv, ClosedWith, LastType
  <2> QED
    BY <2>2, <2>3, <2>4, <2>5, <2>6 DEF Live, Over
<1>2. IInv => StatusMatchesLog
  BY <1>1 DEF StatusMatchesLog
<1> QED
  BY <1>2, Invariance, PTL

\* A run reported "completed" ran every step of the definition it loaded, in
\* order, each one finished before the next began (CompletedRanEveryStep).
THEOREM CompletedIsComplete == Spec => []CompletedRanEveryStep
<1>1. ASSUME IInv, NEW r \in Runs, status[r] = "completed", WorkflowExists(r)
      PROVE  /\ Len(events[r]) = 2 * Len(task[r].steps) + 2
             /\ \A k \in 1..Len(task[r].steps) :
                  /\ events[r][2 * k]     = [type |-> "step.started",   step |-> k]
                  /\ events[r][2 * k + 1] = [type |-> "step.completed", step |-> k]
  <2>1. TypeOK /\ RunInv(r) /\ task[r] \in Task /\ task[r].pc \in PCs
    BY <1>1 DEF IInv, TypeOK, Task
  <2>n. Len(task[r].steps) \in Nat
    BY <2>1 DEF Task
  <2>2. task[r].pc = "done"
    BY <1>1, <2>1 DEF RunInv, RowInv, PCs, BeforeStart, BetweenSteps, InStepPCs, ToolPCs
  <2>3. /\ Len(events[r]) = 2 * Len(task[r].steps) + 2
        /\ Ordered(events[r], Len(events[r]) - 1)
    BY <1>1, <2>1, <2>2 DEF RunInv, LogInv
  <2>4. PICK n \in Nat : n = 2 * Len(task[r].steps) + 1
    BY <2>n
  <2>5. Ordered(events[r], n)
    <3>1. Len(events[r]) - 1 = n
      BY <2>3, <2>4, <2>n
    <3> QED
      BY <2>3, <3>1, Zenon
  <2>6. ASSUME NEW k \in 1..Len(task[r].steps)
        PROVE  /\ events[r][2 * k]     = [type |-> "step.started",   step |-> k]
               /\ events[r][2 * k + 1] = [type |-> "step.completed", step |-> k]
    <3>1. k \in 1..Len(events[r]) /\ 2 * k <= n /\ 2 * k + 1 <= n
      BY <2>3, <2>4, <2>n
    <3> QED
      BY <2>5, <3>1 DEF Ordered
  <2> QED
    BY <2>3, <2>6
<1>2. IInv => CompletedRanEveryStep
  BY <1>1 DEF CompletedRanEveryStep
<1> QED
  BY <1>2, Invariance, PTL

\* No plugin ever runs that was not approved at some moment of that very task
\* (ExecutedPluginsWereApproved), the stale Plugin object notwithstanding.
THEOREM OnlyVettedPluginsRun == Spec => []ExecutedPluginsWereApproved
<1>1. IInv => ExecutedPluginsWereApproved
  BY DEF IInv, RunInv, PluginInv, ExecutedPluginsWereApproved
<1> QED
  BY <1>1, Invariance, PTL

\* Every path on which the task returns leaves the run in a terminal status
\* with an end time (DoneMeansSettled).
THEOREM ReturnsSettled == Spec => []DoneMeansSettled
<1>1. IInv => DoneMeansSettled
  BY DEF IInv, RunInv, RowInv, DoneMeansSettled
<1> QED
  BY <1>1, Invariance, PTL

-----------------------------------------------------------------------------
(* Cancellation.  The task passes its check of the row only while the run   *)
(* is not cancelled, so a cancellation that finds it past the check counts  *)
(* every step started so far: one more start is all that can follow.        *)

CancelInv(r) ==
    /\ mark[r] \in Nat
    /\ status[r] = "cancelled" /\ WorkflowExists(r) =>
         /\ StepsStarted(r) <= mark[r] + 1
         /\ task[r].pc = "step" => StepsStarted(r) <= mark[r]

\* An appended event counts if it opens a step.
LEMMA StartsCounted ==
    ASSUME NEW log \in Seq(Event), NEW e \in Event
    PROVE  LET Starts(l) == {i \in 1..Len(l) : l[i].type = "step.started"}
           IN  Cardinality(Starts(Append(log, e)))
                 = Cardinality(Starts(log)) + (IF e.type = "step.started" THEN 1 ELSE 0)
<1> DEFINE Starts(l) == {i \in 1..Len(l) : l[i].type = "step.started"}
           n == Len(log) + 1
<1> SUFFICES Cardinality(Starts(Append(log, e)))
               = Cardinality(Starts(log)) + (IF e.type = "step.started" THEN 1 ELSE 0)
  OBVIOUS
<1>1. /\ Len(log) \in Nat
      /\ Len(Append(log, e)) = n
      /\ Append(log, e)[n] = e
      /\ \A i \in 1..Len(log) : Append(log, e)[i] = log[i]
  OBVIOUS
<1>2. IsFiniteSet(Starts(log))
  <2>1. IsFiniteSet(1..Len(log))
    BY <1>1, FS_Interval
  <2> QED
    BY <2>1, FS_Subset
<1>3. n \notin Starts(log)
  BY <1>1
<1>4. CASE e.type = "step.started"
  <2>1. Starts(Append(log, e)) = Starts(log) \cup {n}
    BY <1>1, <1>4
  <2> QED
    BY <1>2, <1>3, <1>4, <2>1, FS_AddElement
<1>5. CASE e.type # "step.started"
  <2>1. Starts(Append(log, e)) = Starts(log)
    BY <1>1, <1>5
  <2>2. PICK c \in Nat : c = Cardinality(Starts(log))
    BY <1>2, FS_CardinalityType
  <2>3. Cardinality(Starts(Append(log, e))) = c
    BY <2>1, <2>2, Zenon
  <2> HIDE DEF Starts
  <2> QED
    BY <1>5, <2>2, <2>3
<1> QED
  BY <1>4, <1>5

LEMMA StepsStartedAfter ==
    ASSUME TypeOK, NEW r \in Runs, NEW type \in EventTypes, NEW k \in Nat,
           LogEvent(r, type, k)
    PROVE  StepsStarted(r)' = StepsStarted(r) + (IF type = "step.started" THEN 1 ELSE 0)
<1>1. /\ events[r] \in Seq(Event) /\ [type |-> type, step |-> k] \in Event
      /\ events'[r] = Append(events[r], [type |-> type, step |-> k])
  BY LogEventEffect
<1> QED
  BY <1>1, StartsCounted DEF StepsStarted

\* Of the worker's steps only Refresh makes the task pass its check.
LEMMA CancelWork ==
    ASSUME TypeOK, NEW r \in Runs, RunInv(r), CancelInv(r), Work(r) \/ Die(r)
    PROVE  CancelInv(r)'
<1>t. /\ task \in [Runs -> Task] /\ task[r] \in Task
      /\ status \in [Runs -> Statuses \cup {"none"}]
      /\ StepsStarted(r) \in Nat /\ mark[r] \in Nat
  BY StepsStartedType DEF TypeOK, CancelInv
<1>n. task[r].step \in Nat
  BY <1>t DEF Task
<1>w. mark' = mark /\ (WorkflowExists(r)' <=> WorkflowExists(r))
  BY DEF Work, Deliver, Load, FailOrphan, Validate, Start, Refresh, LogCancelled,
     StartStep, Lookup, RejectPlugin, RunPlugin, PluginReturns, PluginFails, Process,
     CompleteStep, CompleteRun, FailRun, Abort, Die, Finish, dbVars, ghosts, WorkflowExists
<1>1. CASE Deliver(r) \/ Load(r) \/ Validate(r) \/ Lookup(r) \/ Process(r) \/ Abort(r)
           \/ Die(r) \/ RejectPlugin(r) \/ RunPlugin(r) \/ PluginReturns(r) \/ PluginFails(r)
  <2>1. events' = events /\ status' = status
    BY <1>1 DEF Deliver, Load, Validate, Lookup, Process, Abort, Die, RejectPlugin,
       RunPlugin, PluginReturns, PluginFails, runVars
  <2>2. task'[r].pc # "step"
    <3>1. CASE Deliver(r) \/ Validate(r) \/ Abort(r) \/ Die(r) \/ RejectPlugin(r)
               \/ RunPlugin(r) \/ PluginReturns(r) \/ PluginFails(r)
      BY <3>1, GotoFields DEF Deliver, Validate, Abort, Die, RejectPlugin, RunPlugin,
         PluginReturns, PluginFails
    <3>2. CASE Load(r) \/ Lookup(r) \/ Process(r)
      BY <3>2, <1>t DEF Load, Lookup, Process, Goto, Task
    <3> QED
      BY <1>1, <3>1, <3>2
  <2>3. StepsStarted(r)' = StepsStarted(r)
    BY <2>1 DEF StepsStarted
  <2> QED
    BY <1>w, <2>1, <2>2, <2>3 DEF CancelInv
<1>2. CASE FailOrphan(r) \/ Start(r) \/ CompleteRun(r) \/ FailRun(r)
  <2>1. status'[r] # "cancelled"
    BY <1>2, <1>t DEF FailOrphan, Start, CompleteRun, FailRun, Finish
  <2> QED
    BY <1>w, <1>t, <2>1 DEF CancelInv
<1>3. CASE Refresh(r)
  <2>1. /\ events' = events /\ status' = status
        /\ status[r] = "cancelled" => task'[r].pc # "step"
    BY <1>3, <1>t DEF Refresh, Task, runVars
  <2>2. StepsStarted(r)' = StepsStarted(r)
    BY <2>1 DEF StepsStarted
  <2> QED
    BY <1>w, <2>1, <2>2 DEF CancelInv
<1>4. CASE LogCancelled(r)
  <2>1. PICK k \in Nat : k = task[r].step - 1
    BY <1>4, <1>n DEF LogCancelled, RunInv, IndexInv, BetweenSteps
  <2>2. StepsStarted(r)' = StepsStarted(r)
    BY <1>4, <1>t, <2>1, StepsStartedAfter DEF LogCancelled, EventTypes
  <2>3. task'[r].pc = "done" /\ status' = status
    BY <1>4, GotoFields DEF LogCancelled
  <2> QED
    BY <1>w, <2>2, <2>3 DEF CancelInv
<1>5. CASE StartStep(r)
  <2>1. StepsStarted(r)' = StepsStarted(r) + 1
    BY <1>5, <1>n, StepsStartedAfter DEF StartStep, EventTypes
  <2>2. task[r].pc = "step" /\ task'[r].pc # "step" /\ status' = status
    BY <1>5, <1>t DEF StartStep, Task
  <2> QED
    BY <1>w, <1>t, <2>1, <2>2 DEF CancelInv
<1>6. CASE CompleteStep(r)
  <2>1. StepsStarted(r)' = StepsStarted(r)
    BY <1>6, <1>t, <1>n, StepsStartedAfter DEF CompleteStep, EventTypes
  <2>2. task'[r].pc = "refresh" /\ status' = status
    BY <1>6, <1>t DEF CompleteStep, Task
  <2> QED
    BY <1>w, <2>1, <2>2 DEF CancelInv
<1> QED
  BY <1>1, <1>2, <1>3, <1>4, <1>5, <1>6 DEF Work

LEMMA CancelRequest ==
    ASSUME TypeOK, NEW r \in Runs, CancelInv(r), Request(r)
    PROVE  CancelInv(r)'
<1>t. /\ task \in [Runs -> Task] /\ status \in [Runs -> Statuses \cup {"none"}]
      /\ mark \in [Runs -> Int] /\ StepsStarted(r) \in Nat /\ mark[r] \in Nat
  BY StepsStartedType DEF TypeOK, CancelInv
<1>1. events' = events /\ workflows' = workflows
  BY DEF Request, StartWorkflow, Enqueue, EnqueueFails, ReadForCancel, CommitCancel,
     dbVars, runVars
<1>2. StepsStarted(r)' = StepsStarted(r) /\ (WorkflowExists(r)' <=> WorkflowExists(r))
  BY <1>1 DEF StepsStarted, WorkflowExists
<1>3. CASE CommitCancel(r)
  <2>1. mark'[r] = StepsStarted(r)
    BY <1>3, <1>t DEF CommitCancel
  <2> QED
    BY <1>t, <1>2, <2>1 DEF CancelInv
<1>4. CASE StartWorkflow(r)
  BY <1>4, <1>t DEF StartWorkflow, CancelInv, ghosts
<1>5. CASE Enqueue(r) \/ EnqueueFails(r) \/ ReadForCancel(r)
  <2>1. /\ mark' = mark /\ status' = status
        /\ task'[r].pc = "step" => task[r].pc = "step"
    BY <1>5, GotoFields, <1>t DEF Enqueue, EnqueueFails, ReadForCancel, runVars, ghosts, Task
  <2> QED
    BY <1>2, <2>1 DEF CancelInv
<1> QED
  BY <1>3, <1>4, <1>5 DEF Request

LEMMA CancelEdit ==
    ASSUME NEW r \in Runs, CancelInv(r), Edit
    PROVE  CancelInv(r)'
<1>1. ASSUME NEW w \in Workflows, DeleteWorkflow(w)  PROVE CancelInv(r)'
  <2>1. /\ UNCHANGED <<status, task, mark>> /\ workflows' = workflows \ {w}
        /\ events'[r] = IF WorkflowOf[r] = w THEN <<>> ELSE events[r]
    BY <1>1 DEF DeleteWorkflow, ghosts
  <2> QED
    BY <2>1 DEF CancelInv, WorkflowExists, StepsStarted
<1>2. CASE ~\E w \in Workflows : DeleteWorkflow(w)
  <2>1. UNCHANGED <<workflows, events, status, task, mark>>
    BY <1>2 DEF Edit, UpdateWorkflow, DeleteScope, RegisterPlugin, ApprovePlugin,
       DisablePlugin, DeprecatePlugin, DeletePlugin, SetPluginState, runVars, ghosts
  <2> QED
    BY <2>1 DEF CancelInv, WorkflowExists, StepsStarted
<1> QED
  BY <1>1, <1>2

\* While a cancellation stands, the task begins at most one more step: the one
\* whose check it had passed before the cancellation was committed
\* (CancelStopsWithinOneStep).
THEOREM CancelIsHeeded == Spec => []CancelStopsWithinOneStep
<1> DEFINE Inv == \A r \in Runs : CancelInv(r)
<1>1. Init => Inv
  BY DEF Init, CancelInv
<1>2. IInv /\ Inv /\ [Next]_vars => Inv'
  <2> SUFFICES ASSUME IInv, Inv, [Next]_vars, NEW q \in Runs  PROVE CancelInv(q)'
    OBVIOUS
  <2>t. TypeOK /\ RunInv(q) /\ CancelInv(q)
    BY DEF IInv
  <2>1. CASE Edit
    BY <2>1, <2>t, CancelEdit
  <2>2. ASSUME NEW r \in Runs, Request(r) \/ Work(r) \/ Die(r), q # r
        PROVE  CancelInv(q)'
    <3>1. UNCHANGED <<RunState(q), dbVars>>
      BY <2>2, <2>t, OtherRuns
    <3>2. mark'[q] = mark[q]
      BY <2>2, <2>t DEF TypeOK, Request, StartWorkflow, Enqueue, EnqueueFails,
         ReadForCancel, CommitCancel, Work, Deliver, Load, FailOrphan, Validate, Start,
         Refresh, LogCancelled, StartStep, Lookup, RejectPlugin, RunPlugin, PluginReturns,
         PluginFails, Process, CompleteStep, CompleteRun, FailRun, Abort, Die, Finish, ghosts
    <3> QED
      BY <2>t, <3>1, <3>2 DEF CancelInv, RunState, dbVars, WorkflowExists, StepsStarted
  <2>3. CASE Request(q)
    BY <2>3, <2>t, CancelRequest
  <2>4. CASE Work(q) \/ Die(q)
    BY <2>4, <2>t, CancelWork
  <2>5. CASE UNCHANGED vars
    BY <2>5, <2>t DEF vars, dbVars, runVars, ghosts, CancelInv, WorkflowExists, StepsStarted
  <2> QED
    BY <2>1, <2>2, <2>3, <2>4, <2>5 DEF Next
<1>3. IInv /\ Inv => CancelStopsWithinOneStep
  BY DEF CancelStopsWithinOneStep, CancelInv
<1> QED
  BY <1>1, <1>2, <1>3, Invariance, PTL DEF Spec

-----------------------------------------------------------------------------
(* The engine implements the abstract log.                                  *)

LEMMA BeforeLast ==
    ASSUME NEW n \in Nat, NEW next \in Nat, NEW k \in Nat,
           n = 2 * next - 1, k = next - 1, next >= 1, next # 1
    PROVE  n = 2 * k + 1 /\ k \in 1..n
OBVIOUS

\* Between steps the last event names the step before the task's next one.
LEMMA LastBetween ==
    ASSUME TypeOK, NEW r \in Runs, RunInv(r), WorkflowExists(r),
           task[r].pc \in BetweenSteps
    PROVE  /\ events[r] # <<>>
           /\ events[r][Len(events[r])].type \in {"workflow.started", "step.completed"}
           /\ events[r][Len(events[r])].step = task[r].step - 1
<1>t. task[r] \in Task /\ events[r] \in Seq(Event)
  BY DEF TypeOK
<1>n. task[r].step \in Nat /\ Len(events[r]) \in Nat
  BY <1>t DEF Task
<1>1. Len(events[r]) = 2 * task[r].step - 1 /\ Ordered(events[r], Len(events[r]))
  BY DEF RunInv, LogInv
<1>2. task[r].step >= 1
  BY <1>n DEF RunInv, IndexInv
<1>3. CASE task[r].step = 1
  <2>1. Len(events[r]) = 1
    BY <1>1, <1>3
  <2> QED
    BY <1>1, <1>3, <2>1, <1>t DEF Ordered
<1>4. CASE task[r].step # 1
  <2>1. PICK k \in Nat : k = task[r].step - 1
    BY <1>2, <1>n
  <2>2. Len(events[r]) = 2 * k + 1 /\ k \in 1..Len(events[r])
    BY <1>1, <1>2, <1>4, <2>1, <1>n, BeforeLast
  <2>3. events[r][2 * k + 1] = [type |-> "step.completed", step |-> k]
    BY <1>1, <2>2 DEF Ordered
  <2> QED
    BY <2>1, <2>2, <2>3, <1>t
<1> QED
  BY <1>3, <1>4

\* Inside a step, or failing inside one, the last event opened that step.
LEMMA LastInStep ==
    ASSUME TypeOK, NEW r \in Runs, RunInv(r), WorkflowExists(r),
           task[r].pc \in InStepPCs \/ (task[r].pc = "fail" /\ events[r] # <<>>)
    PROVE  /\ events[r] # <<>>
           /\ events[r][Len(events[r])] = [type |-> "step.started", step |-> task[r].step]
<1>t. task[r] \in Task /\ events[r] \in Seq(Event)
  BY DEF TypeOK
<1>n. task[r].step \in Nat /\ Len(events[r]) \in Nat
  BY <1>t DEF Task
<1>1. Len(events[r]) = 2 * task[r].step /\ Ordered(events[r], Len(events[r]))
  BY DEF RunInv, LogInv
<1>2. task[r].step >= 1
  <2>1. CASE task[r].pc \in InStepPCs
    BY <2>1, <1>n DEF RunInv, IndexInv
  <2>2. CASE events[r] # <<>>
    BY <1>1, <2>2, <1>t, <1>n
  <2> QED
    BY <2>1, <2>2
<1>3. task[r].step \in 1..Len(events[r])
  BY <1>1, <1>2, <1>n
<1>4. events[r][2 * task[r].step] = [type |-> "step.started", step |-> task[r].step]
  BY <1>1, <1>3 DEF Ordered
<1> QED
  BY <1>1, <1>3, <1>4, <1>t

\* A step of the worker on run r is a step of r's abstract log, or none.
LEMMA WorkLogs ==
    ASSUME TypeOK, NEW r \in Runs, RunInv(r), Work(r) \/ Die(r)
    PROVE  Log(r)!LogStep
<1> USE DEF Log!LogStep, Log!LogNext, Log!Write, Log!Entry, Log!Open, Log!InStep,
            Log!LastEvent, Log!Closing, Log!logVars
<1>t. task[r] \in Task /\ events[r] \in Seq(Event)
  BY DEF TypeOK
<1>n. task[r].step \in Nat
  BY <1>t DEF Task
<1>w. UNCHANGED workflows
  BY DEF Work, Deliver, Load, FailOrphan, Validate, Start, Refresh, LogCancelled,
     StartStep, Lookup, RejectPlugin, RunPlugin, PluginReturns, PluginFails, Process,
     CompleteStep, CompleteRun, FailRun, Abort, Die, Finish, dbVars
<1>u. UNCHANGED WorkflowExists(r)
  BY <1>w DEF WorkflowExists
<1>1. CASE Deliver(r) \/ Load(r) \/ FailOrphan(r) \/ Validate(r) \/ Refresh(r)
           \/ Lookup(r) \/ Process(r) \/ Abort(r) \/ Die(r)
  <2>1. events' = events
    BY <1>1 DEF Deliver, Load, FailOrphan, Validate, Refresh, Lookup, Process, Abort,
       Die, runVars
  <2> QED
    BY <2>1, <1>u
<1>2. CASE RejectPlugin(r) \/ RunPlugin(r) \/ PluginReturns(r) \/ PluginFails(r)
  <2>1. events' = events
    BY <1>2 DEF RejectPlugin, RunPlugin, PluginReturns, PluginFails
  <2> QED
    BY <2>1, <1>u
<1>3. CASE Start(r)
  <2>1. /\ WorkflowExists(r)
        /\ events'[r] = Append(events[r], [type |-> "workflow.started", step |-> 0])
    BY <1>3, LogEventEffect DEF Start, EventTypes
  <2>2. events[r] = <<>>
    BY <1>3, <2>1 DEF Start, RunInv, LogInv, BeforeStart
  <2> QED
    BY <2>1, <2>2, <1>u DEF Log!Begin
<1>4. CASE LogCancelled(r)
  <2>1. PICK k \in Nat : k = task[r].step - 1
    BY <1>4, <1>n DEF LogCancelled, RunInv, IndexInv, BetweenSteps
  <2>2. /\ WorkflowExists(r)
        /\ events'[r] = Append(events[r], [type |-> "workflow.cancelled", step |-> k])
    BY <1>4, <2>1, LogEventEffect DEF LogCancelled, EventTypes
  <2>3. /\ events[r] # <<>>
        /\ events[r][Len(events[r])].type \in {"workflow.started", "step.completed"}
        /\ events[r][Len(events[r])].step = k
    BY <1>4, <2>1, <2>2, LastBetween DEF LogCancelled, BetweenSteps
  <2> QED
    BY <2>2, <2>3, <1>u DEF Log!CancelRun
<1>5. CASE StartStep(r)
  <2>1. /\ WorkflowExists(r)
        /\ events'[r] = Append(events[r], [type |-> "step.started", step |-> task[r].step])
    BY <1>5, <1>n, LogEventEffect DEF StartStep, EventTypes
  <2>2. /\ events[r] # <<>>
        /\ events[r][Len(events[r])].type \in {"workflow.started", "step.completed"}
        /\ events[r][Len(events[r])].step = task[r].step - 1
    BY <1>5, <2>1, LastBetween DEF StartStep, BetweenSteps
  <2>3. events[r][Len(events[r])].step + 1 = task[r].step
    BY <2>2, <1>n
  <2> QED
    BY <2>1, <2>2, <2>3, <1>u DEF Log!OpenStep
<1>6. CASE CompleteStep(r)
  <2>1. /\ WorkflowExists(r)
        /\ events'[r] = Append(events[r], [type |-> "step.completed", step |-> task[r].step])
    BY <1>6, <1>n, LogEventEffect DEF CompleteStep, EventTypes
  <2>2. task[r].pc \in InStepPCs
    BY <1>6 DEF CompleteStep, InStepPCs
  <2>3. /\ events[r] # <<>>
        /\ events[r][Len(events[r])] = [type |-> "step.started", step |-> task[r].step]
    BY <2>1, <2>2, LastInStep
  <2> QED
    BY <2>1, <2>3, <1>u DEF Log!CloseStep
<1>7. CASE CompleteRun(r)
  <2>1. /\ WorkflowExists(r)
        /\ events'[r] = Append(events[r], [type |-> "workflow.completed", step |-> 0])
    BY <1>7, LogEventEffect DEF CompleteRun, Finish, EventTypes
  <2>2. /\ events[r] # <<>>
        /\ events[r][Len(events[r])].type \in {"workflow.started", "step.completed"}
    BY <1>7, <2>1, LastBetween DEF CompleteRun, BetweenSteps
  <2> QED
    BY <2>1, <2>2, <1>u DEF Log!Complete
<1>8. CASE FailRun(r)
  <2>1. /\ WorkflowExists(r)
        /\ events'[r] = Append(events[r], [type |-> "workflow.failed", step |-> task[r].step])
    BY <1>8, <1>n, LogEventEffect DEF FailRun, Finish, EventTypes
  <2>2. CASE events[r] = <<>>
    <3>1. Len(events[r]) = 2 * task[r].step
      BY <1>8, <2>1 DEF FailRun, RunInv, LogInv
    <3>2. task[r].step = 0
      BY <2>2, <3>1, <1>n
    <3> QED
      BY <2>1, <2>2, <3>2, <1>u DEF Log!Refuse
  <2>3. CASE events[r] # <<>>
    <3>1. events[r][Len(events[r])] = [type |-> "step.started", step |-> task[r].step]
      BY <1>8, <2>1, <2>3, LastInStep DEF FailRun
    <3> QED
      BY <2>1, <2>3, <3>1, <1>u DEF Log!FailRun
  <2> QED
    BY <2>2, <2>3
<1> QED
  BY <1>1, <1>2, <1>3, <1>4, <1>5, <1>6, <1>7, <1>8 DEF Work

\* Deleting the workflow purges the log; every other edit leaves it alone.
LEMMA EditLogs ==
    ASSUME TypeOK, NEW r \in Runs, Edit
    PROVE  Log(r)!LogStep
<1> USE DEF Log!LogStep, Log!LogNext, Log!logVars
<1>1. ASSUME NEW w \in Workflows, DeleteWorkflow(w)  PROVE Log(r)!LogStep
  <2>1. /\ w \in workflows /\ workflows' = workflows \ {w}
        /\ events'[r] = IF WorkflowOf[r] = w THEN <<>> ELSE events[r]
    BY <1>1 DEF DeleteWorkflow
  <2>2. CASE WorkflowOf[r] = w
    BY <2>1, <2>2 DEF WorkflowExists, Log!Purge
  <2>3. CASE WorkflowOf[r] # w
    BY <2>1, <2>3 DEF WorkflowExists
  <2> QED
    BY <2>2, <2>3
<1>2. CASE ~\E w \in Workflows : DeleteWorkflow(w)
  <2>1. UNCHANGED <<workflows, events>>
    BY <1>2 DEF Edit, UpdateWorkflow, DeleteScope, RegisterPlugin, ApprovePlugin,
       DisablePlugin, DeprecatePlugin, DeletePlugin, SetPluginState, runVars
  <2> QED
    BY <2>1 DEF WorkflowExists
<1> QED
  BY <1>1, <1>2

\* The event log of every run is one RunLog allows, whatever requests, edits,
\* failures and crashes the worker goes through (ImplementsRunLog).
THEOREM EngineImplementsRunLog == Spec => ImplementsRunLog
<1>1. Init => \A r \in Runs : Log(r)!LogInit
  BY ConstantsAssumption DEF Init, Log!LogInit, WorkflowExists
<1>2. IInv /\ [Next]_vars => [\A r \in Runs : Log(r)!LogStep]_vars
  <2> SUFFICES ASSUME IInv, [Next]_vars, NEW r \in Runs
               PROVE  Log(r)!LogStep
    OBVIOUS
  <2>t. TypeOK /\ \A q \in Runs : RunInv(q)
    BY DEF IInv
  <2>1. CASE Edit
    BY <2>1, <2>t, EditLogs
  <2>2. ASSUME NEW q \in Runs, Request(q) \/ Work(q) \/ Die(q), q # r
        PROVE  Log(r)!LogStep
    BY <2>2, <2>t, OtherRuns DEF RunState, dbVars, WorkflowExists, Log!LogStep, Log!logVars
  <2>3. CASE Request(r)
    BY <2>3 DEF Request, StartWorkflow, Enqueue, EnqueueFails, ReadForCancel,
       CommitCancel, dbVars, runVars, WorkflowExists, Log!LogStep, Log!logVars
  <2>4. CASE Work(r) \/ Die(r)
    BY <2>4, <2>t, WorkLogs
  <2>5. CASE UNCHANGED vars
    BY <2>5 DEF vars, dbVars, runVars, WorkflowExists, Log!LogStep, Log!logVars
  <2> QED
    BY <2>1, <2>2, <2>3, <2>4, <2>5 DEF Next
<1> QED
  BY <1>1, <1>2, Invariance, PTL DEF Spec, ImplementsRunLog

-----------------------------------------------------------------------------
(***************************************************************************)
(* Findings.  FindingInv says what a session's open transaction may hold:  *)
(* every flushed write carries the log of what it sets (WriteInv), what is *)
(* loaded is a row that is there (LoadInv), a new row's evidence follows   *)
(* it (EvidenceInv), each point of a scan and of a triage has what it      *)
(* needs (ScanInv, TriageInv), no two sessions have flushed the same row   *)
(* (Locked), and the committed row is what its history and its evidence    *)
(* tell (FindingRowInv).  It holds however the sessions interleave.        *)
(*                                                                         *)
(* TurnInv holds as long as no session has begun before another had ended: *)
(* then the history is a chain that ends at the row (Told), a scan sees    *)
(* the committed row or what it has itself made of it, and what it has     *)
(* processed is still as it reported it (ScanTurn).                        *)
(***************************************************************************)

\* The write assigns the column.
Sets(w, column) == w.insert \/ column \in w.columns

\* Every variable of the findings is of its type.
FindingTypes ==
    /\ row \in [Fingerprints -> Rows]
    /\ history \in [Fingerprints -> Seq(Change)]
    /\ evidence \in [Hashes -> Fingerprints \cup {None}]
    /\ pending \in [Sessions -> [Fingerprints -> Write]]
    /\ session \in [Sessions -> Session]
    /\ inTurn \in BOOLEAN

\* A flushed write changes a row that is there or inserts one that is not, and
\* its log tells the status and the closing it sets, and no other.
WriteOK(f, w) ==
    /\ w.new \in Row
    /\ w.insert <=> row[f] = Absent
    /\ IF Sets(w, "status") THEN Tells(w.log, "status", w.new.status)
       ELSE About(w.log, "status") = {}
    /\ IF Sets(w, "meta") THEN w.new.closed => Tells(w.log, "closed", "closed")
       ELSE About(w.log, "closed") = {}
WriteInv(s, f) == Touched(s, f) => WriteOK(f, pending[s][f])

\* What a session holds is a row, committed or its own, and of the status it
\* has set itself.
LoadInv(s, f) ==
    session[s].loaded[f] # Absent =>
        /\ row[f] # Absent \/ pending[s][f].insert
        /\ s \in Scans /\ Sets(pending[s][f], "status") =>
             session[s].loaded[f].status = pending[s][f].new.status

\* Evidence of the finding is stored.
Evidenced(f) ==
    \E report \in Reports : \E k \in 1..Len(report) :
        report[k].finding = f /\ evidence[report[k].hash] # None

\* The evidence of a new finding is stored right after it is flushed.
EvidenceInv(s, f) ==
    pending[s][f].insert =>
        Evidenced(f) \/ (session[s].pc = "evidence" /\ Entered(s).finding = f)

ScanPoints == {"idle", "read", "flush", "evidence", "advise", "reconcile", "close",
               "passed", "done", "failed"}
TriagePoints == {"idle", "triage", "answer", "done", "failed"}
EntryPoints == {"read", "flush", "evidence", "advise"}
Nothing == [f \in Fingerprints |-> Untouched]

\* What a scan holds at each of its points, and where its entries come from.
ScanInv(r) ==
    /\ session[r].pc \in ScanPoints
    /\ ~Busy(r) => session[r].loaded = NoRows /\ session[r].processed = {}
    /\ ~Busy(r) \/ session[r].pc = "passed" => pending[r] = Nothing
    /\ session[r].pc \in EntryPoints => session[r].todo # <<>>
    /\ \A k \in DOMAIN session[r].todo :
         \E report \in Reports : \E j \in 1..Len(report) : report[j] = session[r].todo[k]

\* The one write of a triage, and what the triage holds before and after it.
Decision(q) ==
    LET old == session[q].loaded[TriageOf[q]]
    IN  [columns |-> {"status"}, new |-> [old EXCEPT !.status = session[q].to],
         log |-> <<StatusChange(old.status, session[q].to)>>, insert |-> FALSE]
TriageInv(q) ==
    /\ session[q].pc \in TriagePoints
    /\ session[q].pc \in {"triage", "answer"} => session[q].loaded[TriageOf[q]] \in Row
    /\ pending[q] = IF session[q].pc = "answer"
                    THEN [Nothing EXCEPT ![TriageOf[q]] = Decision(q)] ELSE Nothing

\* A row has the status its history tells, evidence, and is not closed untold.
FindingRowInv(f) ==
    /\ row[f] # Absent => Tells(history[f], "status", row[f].status) /\ Evidenced(f)
    /\ row[f].closed => Tells(history[f], "closed", "closed")

\* No two open transactions have written the same row.
Locked == \A s, t \in Sessions, f \in Fingerprints : Touched(s, f) /\ Touched(t, f) => s = t

FindingInv ==
    /\ FindingTypes
    /\ \A s \in Sessions, f \in Fingerprints :
         WriteInv(s, f) /\ LoadInv(s, f) /\ EvidenceInv(s, f)
    /\ \A r \in Scans : ScanInv(r)
    /\ \A q \in Analysts : TriageInv(q)
    /\ \A f \in Fingerprints : FindingRowInv(f)
    /\ Locked

-----------------------------------------------------------------------------
\* The log is a chain about both columns and ends at what the row holds.
Ends(log, column, value, first) ==
    Tells(log, column, value) \/ (About(log, column) = {} /\ value = first)
Told(log, v) ==
    /\ Chained(log, "status") /\ Ends(log, "status", v.status, "absent")
    /\ Chained(log, "closed") /\ Ends(log, "closed", Flag(v.closed), "found")

\* As the scan leaves a finding it has processed.
Reported(r, v) ==
    v # Absent /\ v.status # "resolved" /\ ~v.closed /\ v.detected = r

ScanTurn(r) ==
    /\ \A f \in Fingerprints : session[r].loaded[f] # Absent => session[r].loaded[f] = View(r, f)
    /\ \A f \in Fingerprints :
         \/ View(r, f).status = row[f].status
         \/ row[f].status \in {"absent", "resolved"} /\ View(r, f).status = "open"
    /\ \A f \in session[r].processed :
         (session[r].pc = "flush" /\ f = Entered(r).finding) \/ Reported(r, View(r, f))
    /\ session[r].pc = "flush" =>
         session[r].loaded[Entered(r).finding] = View(r, Entered(r).finding)
    /\ session[r].pc = "close" =>
         \A f \in Fingerprints : session[r].loaded[f] # Absent <=> f \in Missing(r)
    /\ session[r].pc = "passed" =>
         \A f \in session[r].templates \ session[r].processed :
            View(r, f).status \in Active => View(r, f).closed
    /\ session[r].pc \in {"reconcile", "close", "passed"} /\ session[r].processed # {} =>
         snapshot[ProcessOf[r]] = Counts(r)

OwnTurn(s) ==
    /\ \A f \in Fingerprints : Told(history[f] \o pending[s][f].log, View(s, f))
    /\ s \in Scans => ScanTurn(s)
    /\ s \in Analysts /\ session[s].pc \in {"triage", "answer"} =>
         session[s].loaded[TriageOf[s]] = row[TriageOf[s]]

TurnInv ==
    inTurn =>
      /\ \A s, t \in Sessions : Busy(s) /\ Busy(t) => s = t
      /\ \A f \in Fingerprints : Told(history[f], row[f])
      /\ \A s \in Sessions : OwnTurn(s)

-----------------------------------------------------------------------------
(* Logs. *)

\* The first entry about the column starts from that value.
Starts(log, column, value) ==
    \A k \in About(log, column) :
        (\A i \in About(log, column) : k <= i) => log[k].old = value

LEMMA ConcatFacts ==
    ASSUME NEW a \in Seq(Change), NEW b \in Seq(Change)
    PROVE  /\ a \o b \in Seq(Change)
           /\ Len(a) \in Nat /\ Len(b) \in Nat
           /\ DOMAIN a = 1..Len(a) /\ DOMAIN b = 1..Len(b)
           /\ DOMAIN (a \o b) = 1..(Len(a) + Len(b))
           /\ \A i \in DOMAIN a : i \in DOMAIN (a \o b) /\ (a \o b)[i] = a[i]
           /\ \A i \in DOMAIN b : Len(a) + i \in DOMAIN (a \o b) /\ (a \o b)[Len(a) + i] = b[i]
           /\ \A i \in DOMAIN (a \o b) : i \in DOMAIN a \/ (i > Len(a) /\ i - Len(a) \in DOMAIN b)
<1>1. /\ a \o b \in Seq(Change) /\ Len(a \o b) = Len(a) + Len(b)
      /\ Len(a) \in Nat /\ Len(b) \in Nat
      /\ DOMAIN a = 1..Len(a) /\ DOMAIN b = 1..Len(b)
      /\ DOMAIN (a \o b) = 1..(Len(a) + Len(b))
  OBVIOUS
<1>2. ASSUME NEW i \in DOMAIN a  PROVE i \in DOMAIN (a \o b) /\ (a \o b)[i] = a[i]
  BY <1>1
<1>3. ASSUME NEW i \in DOMAIN b
      PROVE  Len(a) + i \in DOMAIN (a \o b) /\ (a \o b)[Len(a) + i] = b[i]
  BY <1>1
<1> QED
  BY <1>1, <1>2, <1>3

\* Where the entries of a concatenation come from.
LEMMA AboutConcat ==
    ASSUME NEW a \in Seq(Change), NEW b \in Seq(Change), NEW column
    PROVE  /\ \A k : k \in About(a, column) => k \in About(a \o b, column)
           /\ \A k : k \in About(b, column) => Len(a) + k \in About(a \o b, column)
           /\ \A k \in About(a \o b, column) :
                k \in About(a, column) \/ (k > Len(a) /\ k - Len(a) \in About(b, column))
BY ConcatFacts DEF About

LEMMA TellsConcat ==
    ASSUME NEW a \in Seq(Change), NEW b \in Seq(Change), NEW column, NEW value
    PROVE  /\ Tells(b, column, value) => Tells(a \o b, column, value)
           /\ About(b, column) = {} /\ Tells(a, column, value) => Tells(a \o b, column, value)
           /\ About(b, column) = {} /\ About(a, column) = {} => About(a \o b, column) = {}
<1> DEFINE c == a \o b
<1>f. /\ Len(a) \in Nat /\ Len(b) \in Nat
      /\ DOMAIN a = 1..Len(a) /\ DOMAIN b = 1..Len(b)
      /\ \A i \in DOMAIN a : c[i] = a[i]
      /\ \A i \in DOMAIN b : c[Len(a) + i] = b[i]
  BY ConcatFacts
<1>a. /\ \A k : k \in About(a, column) => k \in About(c, column)
      /\ \A k : k \in About(b, column) => Len(a) + k \in About(c, column)
      /\ \A k \in About(c, column) :
           k \in About(a, column) \/ (k > Len(a) /\ k - Len(a) \in About(b, column))
  BY AboutConcat
<1>d. About(a, column) \subseteq DOMAIN a /\ About(b, column) \subseteq DOMAIN b
  BY DEF About
<1> HIDE DEF c
<1>1. ASSUME Tells(b, column, value)  PROVE Tells(c, column, value)
  <2>1. PICK k \in About(b, column) : b[k].new = value /\ \A j \in About(b, column) : j <= k
    BY <1>1 DEF Tells
  <2>2. k \in DOMAIN b /\ k \in Nat /\ k > 0
    BY <2>1, <1>d, <1>f
  <2>3. Len(a) + k \in About(c, column) /\ c[Len(a) + k].new = value
    BY <2>1, <2>2, <1>a, <1>f
  <2>4. ASSUME NEW j \in About(c, column)  PROVE j <= Len(a) + k
    <3>1. CASE j \in About(a, column)
      BY <3>1, <2>2, <1>d, <1>f
    <3>2. CASE j > Len(a) /\ j - Len(a) \in About(b, column)
      <4>1. PICK m \in Nat : m = j - Len(a) /\ m \in About(b, column)
        BY <3>2, <1>d, <1>f
      <4>2. m <= k
        BY <4>1, <2>1
      <4>3. j \in Int
        BY ConcatFacts DEF About, c
      <4> QED
        BY <4>1, <4>2, <4>3, <2>2, <1>f
    <3> QED
      BY <1>a, <3>1, <3>2
  <2> QED
    BY <2>3, <2>4 DEF Tells
<1>2. ASSUME About(b, column) = {}
      PROVE  About(c, column) = About(a, column)
  BY <1>2, <1>a
<1>3. ASSUME About(b, column) = {}, Tells(a, column, value)  PROVE Tells(c, column, value)
  BY <1>2, <1>3, <1>f, <1>d DEF Tells
<1> QED
  BY <1>1, <1>2, <1>3 DEF c

\* Chains follow one another where the first ends with what the second
\* starts from.
LEMMA ChainedConcat ==
    ASSUME NEW a \in Seq(Change), NEW b \in Seq(Change), NEW column, NEW value, NEW first,
           Chained(a, column), Chained(b, column),
           Ends(a, column, value, first), Starts(b, column, value)
    PROVE  Chained(a \o b, column)
<1> DEFINE c == a \o b
<1>f. /\ Len(a) \in Nat /\ Len(b) \in Nat
      /\ DOMAIN a = 1..Len(a) /\ DOMAIN b = 1..Len(b)
      /\ DOMAIN c = 1..(Len(a) + Len(b))
      /\ \A i \in DOMAIN a : c[i] = a[i]
      /\ \A i \in DOMAIN b : c[Len(a) + i] = b[i]
  BY ConcatFacts
<1>a. /\ \A k : k \in About(a, column) => k \in About(c, column)
      /\ \A k : k \in About(b, column) => Len(a) + k \in About(c, column)
      /\ \A k \in About(c, column) :
           k \in About(a, column) \/ (k > Len(a) /\ k - Len(a) \in About(b, column))
  BY AboutConcat
<1>d. /\ About(a, column) \subseteq DOMAIN a /\ About(b, column) \subseteq DOMAIN b
      /\ About(c, column) \subseteq DOMAIN c
  BY DEF About
<1> HIDE DEF c
<1>1. ASSUME NEW j \in About(c, column), NEW k \in About(c, column), j < k,
             \A i \in About(c, column) : i <= j \/ k <= i
      PROVE  c[k].old = c[j].new
  <2>0. j \in Int /\ k \in Int
    BY <1>d, <1>f
  <2>1. CASE k \in About(a, column)
    <3>1. j \in About(a, column)
      BY <1>1, <1>a, <1>d, <1>f, <2>0, <2>1
    <3>2. a[k].old = a[j].new
      BY <1>1, <1>a, <2>1, <3>1 DEF Chained
    <3> QED
      BY <2>1, <3>1, <3>2, <1>d, <1>f
  <2>2. CASE k > Len(a) /\ k - Len(a) \in About(b, column)
    <3>1. PICK m \in Nat : k = Len(a) + m /\ m \in About(b, column)
      <4>1. k - Len(a) \in Nat /\ k = Len(a) + (k - Len(a))
        BY <2>0, <2>2, <1>f
      <4> QED
        BY <4>1, <2>2
    <3>2. c[k] = b[m]
      BY <3>1, <1>d, <1>f
    <3>3. CASE j \in About(a, column)
      <4>1. ASSUME NEW i \in About(a, column)  PROVE i <= j
        <5>1. i \in DOMAIN a /\ i \in About(c, column)
          BY <1>a, <1>d
        <5> QED
          BY <1>1, <2>0, <2>2, <5>1, <1>f
      <4>2. Tells(a, column, value)
        BY <3>3 DEF Ends
      <4>3. PICK l \in About(a, column) : a[l].new = value /\ \A i \in About(a, column) : i <= l
        BY <4>2 DEF Tells
      <4>4. l = j
        <5>1. l <= j /\ j <= l
          BY <3>3, <4>1, <4>3
        <5> QED
          BY <5>1, <2>0, <1>d, <1>f
      <4>5. c[j].new = value
        BY <3>3, <4>3, <4>4, <1>d, <1>f
      <4>6. ASSUME NEW i \in About(b, column)  PROVE m <= i
        <5>1. i \in Nat /\ i > 0 /\ Len(a) + i \in About(c, column)
          BY <1>a, <1>d, <1>f
        <5>2. Len(a) + i <= j \/ k <= Len(a) + i
          BY <1>1, <5>1
        <5>3. j \in 1..Len(a)
          BY <3>3, <1>d, <1>f
        <5> QED
          BY <5>1, <5>2, <5>3, <3>1, <1>f
      <4> QED
        BY <3>1, <3>2, <4>5, <4>6 DEF Starts
    <3>4. CASE j > Len(a) /\ j - Len(a) \in About(b, column)
      <4>1. PICK n \in Nat : j = Len(a) + n /\ n \in About(b, column)
        <5>1. j - Len(a) \in Nat /\ j = Len(a) + (j - Len(a))
          BY <2>0, <3>4, <1>f
        <5> QED
          BY <5>1, <3>4
      <4>2. c[j] = b[n]
        BY <4>1, <1>d, <1>f
      <4>3. n < m
        BY <1>1, <3>1, <4>1, <1>f
      <4>4. ASSUME NEW i \in About(b, column)  PROVE i <= n \/ m <= i
        <5>1. i \in Nat /\ Len(a) + i \in About(c, column)
          BY <1>a, <1>d, <1>f
        <5>2. Len(a) + i <= j \/ k <= Len(a) + i
          BY <1>1, <5>1
        <5> QED
          BY <5>1, <5>2, <3>1, <4>1, <1>f
      <4> QED
        BY <3>1, <3>2, <4>1, <4>2, <4>3, <4>4 DEF Chained
    <3> QED
      BY <1>a, <3>3, <3>4
  <2> QED
    BY <1>a, <2>1, <2>2
<1> QED
  BY <1>1 DEF Chained, c

\* One entry tells its own column and nothing of the other.
LEMMA OneEntry ==
    ASSUME NEW e \in Change, NEW column
    PROVE  /\ <<e>> \in Seq(Change)
           /\ e.column # column => About(<<e>>, column) = {}
           /\ e.column = column => /\ Tells(<<e>>, column, e.new)
                                   /\ Starts(<<e>>, column, e.old)
           /\ Chained(<<e>>, column)
<1>1. DOMAIN <<e>> = {1} /\ <<e>>[1] = e /\ <<e>> \in Seq(Change)
  OBVIOUS
<1>2. About(<<e>>, column) = IF e.column = column THEN {1} ELSE {}
  BY <1>1 DEF About
<1> QED
  BY <1>1, <1>2 DEF Tells, Starts, Chained

LEMMA NoEntry ==
    ASSUME NEW column
    PROVE  /\ <<>> \in Seq(Change) /\ About(<<>>, column) = {}
           /\ \A value : Starts(<<>>, column, value)
           /\ Chained(<<>>, column)
<1>1. DOMAIN <<>> = {} /\ <<>> \in Seq(Change)
  OBVIOUS
<1> QED
  BY <1>1 DEF About, Starts, Chained

\* An entry that goes on from where the log ends.
LEMMA ToldEntry ==
    ASSUME NEW log \in Seq(Change), NEW e \in Change, NEW column, NEW value, NEW first,
           Chained(log, column), Ends(log, column, value, first),
           e.column = column => e.old = value
    PROVE  /\ log \o <<e>> \in Seq(Change)
           /\ Chained(log \o <<e>>, column)
           /\ Ends(log \o <<e>>, column, IF e.column = column THEN e.new ELSE value, first)
<1>1. <<e>> \in Seq(Change) /\ Chained(<<e>>, column)
  BY OneEntry
<1>2. Starts(<<e>>, column, value)
  <2>1. CASE e.column = column
    BY <2>1, OneEntry
  <2>2. CASE e.column # column
    <3>1. About(<<e>>, column) = {}
      BY <2>2, OneEntry
    <3> QED
      BY <3>1 DEF Starts
  <2> QED
    BY <2>1, <2>2
<1>3. Chained(log \o <<e>>, column)
  BY <1>1, <1>2, ChainedConcat
<1>4. log \o <<e>> \in Seq(Change)
  BY <1>1
<1>5. CASE e.column = column
  <2>1. Tells(log \o <<e>>, column, e.new)
    BY <1>1, <1>5, OneEntry, TellsConcat
  <2> QED
    BY <1>3, <1>4, <1>5, <2>1 DEF Ends
<1>6. CASE e.column # column
  <2>1. About(<<e>>, column) = {}
    BY <1>6, OneEntry
  <2> QED
    BY <1>1, <1>3, <1>4, <1>6, <2>1, TellsConcat DEF Ends
<1> QED
  BY <1>5, <1>6

LEMMA Entries ==
    /\ \A old \in FindingStatuses \cup {"absent"}, new \in FindingStatuses :
         /\ StatusChange(old, new) \in Change
         /\ StatusChange(old, new).column = "status"
         /\ StatusChange(old, new).old = old /\ StatusChange(old, new).new = new
    /\ \A old, new \in BOOLEAN :
         /\ ClosedChange(old, new) \in Change
         /\ ClosedChange(old, new).column = "closed"
         /\ ClosedChange(old, new).old = Flag(old) /\ ClosedChange(old, new).new = Flag(new)
BY DEF StatusChange, ClosedChange, Change, Flag

\* The log of a redetection, entry by entry.
LEMMA RedetectionShape ==
    ASSUME NEW old \in Row
    PROVE  LET c == ClosedChange(TRUE, FALSE)
               st == StatusChange("resolved", "open")
           IN  RedetectionLog(old) =
                 IF old.closed THEN IF old.status = "resolved" THEN <<c>> \o <<st>> ELSE <<c>>
                 ELSE IF old.status = "resolved" THEN <<st>> ELSE <<>>
<1> DEFINE c == ClosedChange(TRUE, FALSE)
           st == StatusChange("resolved", "open")
<1>1. /\ <<c>> \in Seq(Change) /\ <<st>> \in Seq(Change)
  <2>1. c \in Change /\ st \in Change
    BY Entries DEF FindingStatuses
  <2> HIDE DEF c, st
  <2> QED
    BY <2>1
<1>2. RedetectionLog(old) = (IF old.closed THEN <<c>> ELSE <<>>)
                            \o (IF old.status = "resolved" THEN <<st>> ELSE <<>>)
  BY Zenon DEF RedetectionLog
<1> HIDE DEF c, st
<1>3. <<c>> \o <<>> = <<c>> /\ <<>> \o <<st>> = <<st>> /\ <<>> \o <<>> = <<>>
  BY <1>1, ConcatEmptySeq
<1>5. CASE old.closed /\ old.status = "resolved"
  BY <1>2, <1>5, Zenon DEF c, st
<1>6. CASE old.closed /\ old.status # "resolved"
  BY <1>2, <1>3, <1>6, Zenon DEF c, st
<1>7. CASE ~old.closed /\ old.status = "resolved"
  BY <1>2, <1>3, <1>7, Zenon DEF c, st
<1>8. CASE ~old.closed /\ old.status # "resolved"
  BY <1>2, <1>3, <1>8, Zenon DEF c, st
<1> QED
  BY <1>5, <1>6, <1>7, <1>8, Zenon DEF c, st

\* A redetection leaves a row that is not closed, and tells the status it
\* reopens and the flag it clears.
LEMMA RedetectionTells ==
    ASSUME NEW old \in Row, NEW r \in Scans, NEW severity \in Severities
    PROVE  LET new == Redetected(r, old, severity)
               log == RedetectionLog(old)
           IN  /\ new \in Row /\ log \in Seq(Change)
               /\ IF new.status # old.status THEN Tells(log, "status", new.status)
                  ELSE About(log, "status") = {}
               /\ ~new.closed
               /\ ~old.closed => About(log, "closed") = {}
<1> DEFINE new == Redetected(r, old, severity)
           log == RedetectionLog(old)
           c == ClosedChange(TRUE, FALSE)
           st == StatusChange("resolved", "open")
<1>1. /\ c \in Change /\ st \in Change /\ st.new = "open"
      /\ st.column = "status" /\ c.column = "closed"
  <2>1. "resolved" \in FindingStatuses \cup {"absent"} /\ "open" \in FindingStatuses
    BY DEF FindingStatuses
  <2> QED
    BY <2>1, Entries, Zenon
<1>2. new \in Row /\ ~new.closed
      /\ (new.status = IF old.status = "resolved" THEN "open" ELSE old.status)
  BY DEF Redetected, SeenBefore, Row, FindingStatuses
<1>3. /\ About(<<c>>, "status") = {} /\ About(<<st>>, "closed") = {}
      /\ Tells(<<st>>, "status", "open")
      /\ <<c>> \in Seq(Change) /\ <<st>> \in Seq(Change) /\ <<>> \in Seq(Change)
      /\ About(<<>>, "status") = {} /\ About(<<>>, "closed") = {}
  BY <1>1, OneEntry, NoEntry
<1>4. Tells(<<c>> \o <<st>>, "status", "open") /\ <<c>> \o <<st>> \in Seq(Change)
  <2> HIDE DEF c, st
  <2>1. <<c>> \o <<st>> \in Seq(Change)
    BY <1>3
  <2> QED
    BY <1>3, <2>1, TellsConcat
<1>5. log = IF old.closed THEN IF old.status = "resolved" THEN <<c>> \o <<st>> ELSE <<c>>
            ELSE IF old.status = "resolved" THEN <<st>> ELSE <<>>
  BY RedetectionShape
<1>6. old.closed \in BOOLEAN
  BY DEF Row
<1> HIDE DEF new, log, c, st
<1>7. CASE old.closed /\ old.status = "resolved"
  BY <1>2, <1>3, <1>4, <1>5, <1>7, Zenon DEF new, log
<1>8. CASE old.closed /\ old.status # "resolved"
  BY <1>2, <1>3, <1>5, <1>8, Zenon DEF new, log
<1>9. CASE ~old.closed /\ old.status = "resolved"
  BY <1>2, <1>3, <1>5, <1>9, Zenon DEF new, log
<1>10. CASE ~old.closed /\ old.status # "resolved"
  BY <1>2, <1>3, <1>5, <1>10, Zenon DEF new, log
<1> QED
  BY <1>7, <1>8, <1>9, <1>10, Zenon DEF new, log

-----------------------------------------------------------------------------
(* Writes and commits.                                                      *)

LEMMA NoRow == Absent \notin Row /\ Untouched.insert = FALSE /\ Untouched.columns = {}
BY DEF Absent, Row, FindingStatuses, Untouched

LEMMA AppliedRow ==
    ASSUME NEW f \in Fingerprints, NEW w \in Write, row[f] \in Rows, WriteOK(f, w)
    PROVE  /\ Applied(w, row[f]) \in Row
           /\ Applied(w, row[f]).status =
                IF Sets(w, "status") THEN w.new.status ELSE row[f].status
           /\ Applied(w, row[f]).closed =
                IF Sets(w, "meta") THEN w.new.closed ELSE row[f].closed
<1>1. w.insert \in BOOLEAN
  BY DEF Write
<1>2. CASE w.insert
  BY <1>2 DEF Applied, WriteOK, Sets
<1>3. CASE ~w.insert
  <2>1. row[f] \in Row /\ w.new \in Row
    BY <1>3 DEF WriteOK, Rows
  <2> QED
    BY <1>3, <2>1 DEF Applied, Sets, Row
<1> QED
  BY <1>1, <1>2, <1>3

\* What a session sees of a finding.
LEMMA ViewTyped ==
    ASSUME FindingTypes, NEW s \in Sessions, NEW f \in Fingerprints, WriteInv(s, f)
    PROVE  /\ View(s, f) \in Rows
           /\ pending[s][f] \in Write /\ row[f] \in Rows
           /\ View(s, f) # Absent => row[f] # Absent \/ pending[s][f].insert
           /\ View(s, f) # Absent /\ Sets(pending[s][f], "status") =>
                View(s, f).status = pending[s][f].new.status
<1>1. pending[s][f] \in Write /\ row[f] \in Rows
  BY DEF FindingTypes
<1>2. CASE Touched(s, f)
  <2>1. WriteOK(f, pending[s][f])
    BY <1>2 DEF WriteInv
  <2> QED
    BY <1>1, <1>2, <2>1, AppliedRow DEF View, Rows, WriteOK
<1>3. CASE ~Touched(s, f)
  BY <1>1, <1>3, NoRow DEF View, Touched, Sets
<1> QED
  BY <1>2, <1>3

LEMMA CommitRow ==
    ASSUME FindingTypes, NEW f \in Fingerprints, FindingRowInv(f),
           NEW w \in Write, WriteOK(f, w),
           w.insert => Evidenced(f)', Evidenced(f) => Evidenced(f)',
           row'[f] = Applied(w, row[f]), history'[f] = history[f] \o w.log
    PROVE  FindingRowInv(f)' /\ row'[f] \in Row
<1>1. /\ row[f] \in Rows /\ history[f] \in Seq(Change) /\ w.log \in Seq(Change)
      /\ w.insert \in BOOLEAN
  BY DEF FindingTypes, Write
<1>2. /\ row'[f] \in Row
      /\ row'[f].status = IF Sets(w, "status") THEN w.new.status ELSE row[f].status
      /\ row'[f].closed = IF Sets(w, "meta") THEN w.new.closed ELSE row[f].closed
  BY <1>1, AppliedRow
<1>3. Tells(history'[f], "status", row'[f].status)
  <2>1. CASE Sets(w, "status")
    <3>1. Tells(w.log, "status", row'[f].status)
      BY <1>2, <2>1 DEF WriteOK
    <3> QED
      BY <1>1, <3>1, TellsConcat
  <2>2. CASE ~Sets(w, "status")
    <3>1. About(w.log, "status") = {} /\ row[f] # Absent
      BY <2>2 DEF WriteOK, Sets
    <3>2. Tells(history[f], "status", row'[f].status)
      BY <1>2, <2>2, <3>1 DEF FindingRowInv
    <3> QED
      BY <1>1, <3>1, <3>2, TellsConcat
  <2> QED
    BY <2>1, <2>2
<1>4. ASSUME row'[f].closed  PROVE Tells(history'[f], "closed", "closed")
  <2>1. CASE Sets(w, "meta")
    <3>1. Tells(w.log, "closed", "closed")
      BY <1>2, <1>4, <2>1 DEF WriteOK
    <3> QED
      BY <1>1, <3>1, TellsConcat
  <2>2. CASE ~Sets(w, "meta")
    <3>1. About(w.log, "closed") = {}
      BY <2>2 DEF WriteOK
    <3>2. Tells(history[f], "closed", "closed")
      BY <1>2, <1>4, <2>2 DEF FindingRowInv
    <3> QED
      BY <1>1, <3>1, <3>2, TellsConcat
  <2> QED
    BY <2>1, <2>2
<1>5. Evidenced(f)'
  BY <1>1 DEF WriteOK, FindingRowInv
<1> QED
  BY <1>2, <1>3, <1>4, <1>5 DEF FindingRowInv

\* Evidence that is stored stays stored.
EvidenceKept == \A h \in Hashes : evidence[h] # None => evidence'[h] # None

LEMMA EvidencedKept ==
    ASSUME EvidenceKept, NEW f \in Fingerprints, Evidenced(f)
    PROVE  Evidenced(f)'
<1>0. PICK report \in Reports : \E k \in 1..Len(report) :
        report[k].finding = f /\ evidence[report[k].hash] # None
  BY DEF Evidenced
<1>1. PICK k \in 1..Len(report) :
        report[k].finding = f /\ evidence[report[k].hash] # None
  BY <1>0
<1>2. report[k].hash \in Hashes
  <2>1. report \in Seq(Entry)
    BY FindingsAssumption
  <2>2. report[k] \in Entry
    BY <2>1
  <2> QED
    BY <2>2 DEF Entry
<1> QED
  BY <1>1, <1>2 DEF Evidenced, EvidenceKept

LEMMA CommitRows ==
    ASSUME FindingTypes, \A f \in Fingerprints : FindingRowInv(f),
           NEW s \in Sessions, NEW writes \in [Fingerprints -> Write],
           Commit(s, writes), EvidenceKept,
           \A f \in Fingerprints : writes[f] # Untouched => WriteOK(f, writes[f]),
           \A f \in Fingerprints : writes[f].insert => Evidenced(f)'
    PROVE  /\ row' \in [Fingerprints -> Rows]
           /\ history' \in [Fingerprints -> Seq(Change)]
           /\ pending' \in [Sessions -> [Fingerprints -> Write]]
           /\ \A f \in Fingerprints :
                /\ FindingRowInv(f)'
                /\ row[f] # Absent \/ writes[f].insert => row'[f] # Absent
                /\ writes[f] = Untouched => row'[f] = row[f]
           /\ pending'[s] = Nothing
           /\ \A t \in Sessions \ {s} : pending'[t] = pending[t]
<1>1. /\ row' = [f \in Fingerprints |->
                   IF writes[f] # Untouched THEN Applied(writes[f], row[f]) ELSE row[f]]
      /\ history' = [f \in Fingerprints |-> history[f] \o writes[f].log]
      /\ pending' = [pending EXCEPT ![s] = Nothing]
  BY DEF Commit, Nothing
<1>2. ASSUME NEW f \in Fingerprints
      PROVE  /\ FindingRowInv(f)' /\ row'[f] \in Rows /\ history'[f] \in Seq(Change)
             /\ row[f] # Absent \/ writes[f].insert => row'[f] # Absent
             /\ writes[f] = Untouched => row'[f] = row[f]
  <2>1. /\ row[f] \in Rows /\ history[f] \in Seq(Change) /\ writes[f] \in Write
        /\ history'[f] = history[f] \o writes[f].log
    BY <1>1 DEF FindingTypes
  <2>2. writes[f].log \in Seq(Change) /\ history'[f] \in Seq(Change)
    BY <2>1 DEF Write
  <2>3. Evidenced(f) => Evidenced(f)'
    BY EvidencedKept
  <2>4. CASE writes[f] = Untouched
    <3>1. row'[f] = row[f] /\ ~writes[f].insert
      BY <1>1, <2>4, NoRow
    <3>2. history'[f] = history[f]
      BY <2>1, <2>4, ConcatEmptySeq DEF Untouched
    <3> QED
      BY <2>1, <2>2, <2>3, <3>1, <3>2 DEF FindingRowInv
  <2>5. CASE writes[f] # Untouched
    <3>1. row'[f] = Applied(writes[f], row[f]) /\ WriteOK(f, writes[f])
      BY <1>1, <2>5
    <3>2. FindingRowInv(f)' /\ row'[f] \in Row
      BY <2>1, <2>3, <3>1, CommitRow
    <3> QED
      BY <2>2, <2>5, <3>2, NoRow DEF Rows
  <2> QED
    BY <2>4, <2>5
<1>3. Nothing \in [Fingerprints -> Write]
  BY EmptySeq DEF Nothing, Untouched, Write, Rows
<1> QED
  BY <1>1, <1>2, <1>3 DEF FindingTypes

\* A flush after an earlier one of the same transaction.
LEMMA FlushedOK ==
    ASSUME FindingTypes, NEW s \in Sessions, NEW f \in Fingerprints, WriteInv(s, f),
           row[f] # Absent \/ pending[s][f].insert,
           NEW columns \in SUBSET Columns, NEW new \in Row, NEW log \in Seq(Change),
           IF "status" \in columns THEN Tells(log, "status", new.status)
           ELSE /\ About(log, "status") = {}
                /\ Sets(pending[s][f], "status") => new.status = pending[s][f].new.status,
           IF "meta" \in columns THEN new.closed => Tells(log, "closed", "closed")
           ELSE About(log, "closed") = {} /\ (Sets(pending[s][f], "meta") => ~new.closed)
    PROVE  /\ Flushed(s, f, columns, new, log) \in Write
           /\ WriteOK(f, Flushed(s, f, columns, new, log))
<1> DEFINE before == pending[s][f]
           w == Flushed(s, f, columns, new, log)
<1>1. before \in Write /\ before.log \in Seq(Change) /\ before.insert \in BOOLEAN
      /\ before.columns \subseteq Columns
  BY DEF FindingTypes, Write
<1>2. /\ w.columns = before.columns \cup columns /\ w.new = new
      /\ w.log = before.log \o log /\ w.insert = before.insert
  BY DEF Flushed
<1>3. w \in Write
  BY <1>1 DEF Flushed, Write, Rows
<1>4. \A c : Sets(w, c) <=> Sets(before, c) \/ c \in columns
  BY <1>2 DEF Sets
<1>5. /\ w.insert <=> row[f] = Absent
      /\ ~Sets(before, "status") => About(before.log, "status") = {}
      /\ ~Sets(before, "meta") => About(before.log, "closed") = {}
      /\ Sets(before, "status") => Tells(before.log, "status", before.new.status)
  <2>1. CASE Touched(s, f)
    BY <1>2, <2>1 DEF WriteInv, WriteOK
  <2>2. CASE ~Touched(s, f)
    <3>1. before.log = <<>> /\ ~before.insert /\ before.columns = {}
      BY <2>2 DEF Touched, Untouched
    <3> QED
      BY <1>2, <3>1, NoEntry DEF Sets
  <2> QED
    BY <2>1, <2>2
<1>c. /\ IF "status" \in columns THEN Tells(log, "status", new.status)
         ELSE /\ About(log, "status") = {}
              /\ Sets(before, "status") => new.status = before.new.status
      /\ IF "meta" \in columns THEN new.closed => Tells(log, "closed", "closed")
         ELSE About(log, "closed") = {} /\ (Sets(before, "meta") => ~new.closed)
  OBVIOUS
<1>t. \A column, value :
        /\ Tells(log, column, value) => Tells(before.log \o log, column, value)
        /\ About(log, column) = {} /\ Tells(before.log, column, value) =>
             Tells(before.log \o log, column, value)
        /\ About(log, column) = {} /\ About(before.log, column) = {} =>
             About(before.log \o log, column) = {}
  BY <1>1, TellsConcat
<1> HIDE DEF before, w
<1>6. IF Sets(w, "status") THEN Tells(w.log, "status", w.new.status)
      ELSE About(w.log, "status") = {}
  BY <1>2, <1>4, <1>5, <1>c, <1>t
<1>7. IF Sets(w, "meta") THEN w.new.closed => Tells(w.log, "closed", "closed")
      ELSE About(w.log, "closed") = {}
  BY <1>2, <1>4, <1>5, <1>c, <1>t
<1> QED
  BY <1>2, <1>3, <1>5, <1>6, <1>7 DEF WriteOK, w

-----------------------------------------------------------------------------
(* Steps of a session.                                                      *)

\* What the invariant says of one session.
OwnInv(s) ==
    /\ \A f \in Fingerprints : WriteInv(s, f) /\ LoadInv(s, f) /\ EvidenceInv(s, f)
    /\ s \in Scans => ScanInv(s)
    /\ s \in Analysts => TriageInv(s)

\* A step of s leaves the other sessions as they are, deletes no row and no
\* evidence, and changes no row another session has flushed.
OthersKept(s) ==
    /\ \A t \in Sessions \ {s} : session'[t] = session[t] /\ pending'[t] = pending[t]
    /\ \A f \in Fingerprints : row[f] # Absent => row'[f] # Absent
    /\ \A f \in Fingerprints, t \in Sessions \ {s} : Touched(t, f) => row'[f] = row[f]
    /\ EvidenceKept

LEMMA EveryOwn == FindingInv => \A s \in Sessions : OwnInv(s)
BY DEF FindingInv, OwnInv, Sessions

LEMMA OthersInv ==
    ASSUME NEW s \in Sessions, OthersKept(s), NEW t \in Sessions \ {s}, OwnInv(t)
    PROVE  OwnInv(t)'
<1>1. /\ session'[t] = session[t] /\ pending'[t] = pending[t]
      /\ \A f \in Fingerprints : row[f] # Absent => row'[f] # Absent
      /\ \A f \in Fingerprints : Touched(t, f) => row'[f] = row[f]
  BY DEF OthersKept
<1>2. ASSUME NEW f \in Fingerprints
      PROVE  WriteInv(t, f)' /\ LoadInv(t, f)' /\ EvidenceInv(t, f)'
  <2>1. WriteInv(t, f) /\ LoadInv(t, f) /\ EvidenceInv(t, f)
    BY DEF OwnInv
  <2>2. WriteInv(t, f)'
    BY <1>1, <2>1 DEF WriteInv, WriteOK, Touched
  <2>3. LoadInv(t, f)'
    BY <1>1, <2>1 DEF LoadInv
  <2>4. EvidenceInv(t, f)'
    BY <1>1, <2>1, EvidencedKept DEF EvidenceInv, OthersKept, Entered
  <2> QED
    BY <2>2, <2>3, <2>4
<1>3. t \in Scans => ScanInv(t)'
  BY <1>1 DEF OwnInv, ScanInv, Busy
<1>4. t \in Analysts => TriageInv(t)'
  BY <1>1 DEF OwnInv, TriageInv, Decision
<1> QED
  BY <1>2, <1>3, <1>4 DEF OwnInv

LEMMA StepInv ==
    ASSUME FindingInv, NEW s \in Sessions, OthersKept(s), FindingTypes', OwnInv(s)',
           \A f \in Fingerprints : FindingRowInv(f)',
           \A f \in Fingerprints : Touched(s, f)' => Touched(s, f) \/ Unlocked(s, f)
    PROVE  FindingInv'
<1>1. ASSUME NEW t \in Sessions  PROVE OwnInv(t)'
  BY EveryOwn, OthersInv
<1>2. Locked'
  <2> SUFFICES ASSUME NEW t \in Sessions, NEW u \in Sessions, NEW f \in Fingerprints,
                      Touched(t, f)', Touched(u, f)'
               PROVE  t = u
    BY DEF Locked
  <2>1. \A v \in Sessions : v # s /\ Touched(v, f)' => Touched(v, f)
    BY DEF OthersKept, Touched
  <2>2. \A v, w \in Sessions : Touched(v, f) /\ Touched(w, f) => v = w
    BY DEF FindingInv, Locked
  <2>3. Touched(s, f) \/ Unlocked(s, f) \/ ~Touched(s, f)'
    OBVIOUS
  <2> QED
    BY <2>1, <2>2, <2>3 DEF Unlocked
<1>3. \A t \in Sessions, f \in Fingerprints :
         WriteInv(t, f)' /\ LoadInv(t, f)' /\ EvidenceInv(t, f)'
  BY <1>1 DEF OwnInv
<1>4. (\A r \in Scans : ScanInv(r)') /\ (\A q \in Analysts : TriageInv(q)')
  BY <1>1 DEF OwnInv, Sessions
<1> QED
  BY <1>2, <1>3, <1>4 DEF FindingInv

\* A step that changes only where the session is and what it holds.
LEMMA QuietKept ==
    ASSUME FindingInv, NEW s \in Sessions, NEW new \in Session,
           session' = [session EXCEPT ![s] = new], NoCommit, UNCHANGED <<evidence, inTurn>>
    PROVE  /\ OthersKept(s) /\ FindingTypes'
           /\ \A f \in Fingerprints :
                FindingRowInv(f)' /\ WriteInv(s, f)' /\ (Touched(s, f)' => Touched(s, f))
           /\ session'[s] = new
<1>1. /\ row' = row /\ history' = history /\ pending' = pending
      /\ evidence' = evidence /\ inTurn' = inTurn
  BY DEF NoCommit
<1>2. FindingTypes' /\ session'[s] = new
      /\ \A t \in Sessions \ {s} : session'[t] = session[t]
  BY <1>1 DEF FindingInv, FindingTypes
<1>3. OthersKept(s)
  BY <1>1, <1>2 DEF OthersKept, EvidenceKept
<1>4. ASSUME NEW f \in Fingerprints
      PROVE  FindingRowInv(f)' /\ WriteInv(s, f)' /\ (Touched(s, f)' => Touched(s, f))
  BY <1>1 DEF FindingInv, FindingRowInv, Evidenced, WriteInv, WriteOK, Touched
<1> QED
  BY <1>2, <1>3, <1>4

\* What a session holds after reading a row, or still holds.
LEMMA ReadOK ==
    ASSUME FindingTypes, NEW s \in Sessions, NEW f \in Fingerprints,
           WriteInv(s, f), LoadInv(s, f), row' = row, pending' = pending,
           session'[s].loaded[f] \in {Absent, session[s].loaded[f], View(s, f)}
    PROVE  LoadInv(s, f)'
BY ViewTyped DEF LoadInv

\* What the proofs about a scan start from.
LEMMA ScanFacts ==
    ASSUME FindingInv, NEW r \in Scans
    PROVE  /\ r \in Sessions /\ r \notin Analysts
           /\ FindingTypes /\ session[r] \in Session /\ ScanInv(r)
           /\ pending[r] \in [Fingerprints -> Write]
           /\ \A f \in Fingerprints : /\ WriteInv(r, f) /\ LoadInv(r, f) /\ EvidenceInv(r, f)
                                      /\ FindingRowInv(f)
           /\ DOMAIN session = Sessions
<1>1. r \in Sessions /\ r \notin Analysts
  BY FindingsAssumption DEF Sessions
<1> QED
  BY <1>1 DEF FindingInv, FindingTypes

\* The entry a scan is at is one a scanner reported.
LEMMA EntryFacts ==
    ASSUME FindingInv, NEW r \in Scans, session[r].pc \in EntryPoints
    PROVE  /\ session[r].todo \in Seq(Entry) /\ session[r].todo # <<>>
           /\ Entered(r) \in Entry /\ Entered(r).finding \in Fingerprints
           /\ Entered(r).hash \in Hashes
           /\ \E report \in Reports : \E k \in 1..Len(report) : report[k] = Entered(r)
<1>1. session[r].todo \in Seq(Entry) /\ session[r].todo # <<>>
  BY ScanFacts DEF Session, ScanInv
<1>2. 1 \in DOMAIN session[r].todo /\ Entered(r) = session[r].todo[1]
  BY <1>1 DEF Entered
<1>3. \E report \in Reports : \E k \in 1..Len(report) : report[k] = Entered(r)
  BY <1>2, ScanFacts DEF ScanInv
<1>4. Entered(r) \in Entry
  BY <1>1, <1>2
<1> QED
  BY <1>1, <1>3, <1>4 DEF Entry

LEMMA QuietScan ==
    ASSUME FindingInv, NEW r \in Scans, NEW new \in Session,
           session' = [session EXCEPT ![r] = new], NoCommit, UNCHANGED <<evidence, inTurn>>,
           \A f \in Fingerprints : LoadInv(r, f)' /\ EvidenceInv(r, f)',
           ScanInv(r)'
    PROVE  FindingInv'
<1>1. r \in Sessions /\ r \notin Analysts
  BY ScanFacts
<1>2. /\ OthersKept(r) /\ FindingTypes'
      /\ \A f \in Fingerprints :
           FindingRowInv(f)' /\ WriteInv(r, f)' /\ (Touched(r, f)' => Touched(r, f))
  BY <1>1, QuietKept
<1>3. OwnInv(r)'
  BY <1>1, <1>2 DEF OwnInv
<1> QED
  BY <1>1, <1>2, <1>3, StepInv

LEMMA IdleSession ==
    /\ NoRows \in [Fingerprints -> Rows] /\ Idle \in Session
    /\ Nothing \in [Fingerprints -> Write]
    /\ \A f \in Fingerprints : NoRows[f] = Absent /\ Nothing[f] = Untouched
<1>1. NoRows \in [Fingerprints -> Rows] /\ Idle \in Session
  BY EmptySeq DEF NoRows, Rows, Idle, Session, Points, FindingStatuses
<1>2. Nothing \in [Fingerprints -> Write]
  BY EmptySeq DEF Nothing, Untouched, Write, Rows
<1> QED
  BY <1>1, <1>2 DEF NoRows, Nothing

LEMMA BeginPassInv ==
    ASSUME FindingInv, NEW r \in Scans, NEW report \in Reports, NEW templates \in TemplateSets,
           BeginPass(r, report, templates)
    PROVE  FindingInv'
<1> DEFINE new == [Idle EXCEPT !.pc = IF report = <<>> THEN "reconcile" ELSE "read",
                               !.pass = session[r].pass + 1, !.todo = report,
                               !.templates = templates]
<1>1. /\ session[r].pc \in {"idle", "passed"}
      /\ session' = [session EXCEPT ![r] = new]
      /\ NoCommit /\ UNCHANGED <<evidence, inTurn>>
  BY DEF BeginPass
<1>2. report \in Seq(Entry) /\ templates \in SUBSET Fingerprints
  BY FindingsAssumption
<1>3. /\ new \in Session
      /\ new.pc = IF report = <<>> THEN "reconcile" ELSE "read"
      /\ new.todo = report /\ new.loaded = NoRows
  <2>1. session[r].pass + 1 \in Nat
    BY ScanFacts DEF Session
  <2> QED
    BY <1>2, <2>1, IdleSession DEF Idle, Session, Points
<1> HIDE DEF new
<1>4. session'[r] = new /\ pending' = pending /\ row' = row
  BY <1>1, ScanFacts DEF NoCommit
<1>5. pending[r] = Nothing
  BY <1>1, ScanFacts DEF ScanInv, Busy
<1>6. ASSUME NEW f \in Fingerprints  PROVE LoadInv(r, f)' /\ EvidenceInv(r, f)'
  BY <1>3, <1>4, <1>5, IdleSession, NoRow DEF LoadInv, EvidenceInv
<1>7. ScanInv(r)'
  <2>1. DOMAIN report = 1..Len(report)
    BY <1>2
  <2> QED
    BY <1>3, <1>4, <2>1 DEF ScanInv, ScanPoints, EntryPoints, Busy
<1> QED
  BY <1>1, <1>3, <1>6, <1>7, QuietScan

LEMMA SelectFindingInv ==
    ASSUME FindingInv, NEW r \in Scans, SelectFinding(r)
    PROVE  FindingInv'
<1> DEFINE f == Entered(r).finding
           object == IF session[r].loaded[f] # Absent THEN session[r].loaded[f] ELSE View(r, f)
           new == [session[r] EXCEPT !.pc = "flush", !.processed = @ \cup {f},
                                     !.loaded = [NoRows EXCEPT ![f] = object]]
<1>1. /\ session[r].pc = "read"
      /\ session' = [session EXCEPT ![r] = new]
      /\ NoCommit /\ UNCHANGED <<evidence, inTurn>>
  BY ScanFacts DEF SelectFinding, Session
<1>2. f \in Fingerprints
  BY <1>1, EntryFacts DEF EntryPoints
<1>3. object \in Rows /\ session[r].loaded \in [Fingerprints -> Rows]
  <2>1. View(r, f) \in Rows
    BY <1>2, ScanFacts, ViewTyped
  <2> QED
    BY <1>2, <2>1, ScanFacts DEF Session
<1> HIDE DEF f, object
<1>4. /\ new \in Session /\ new.pc = "flush" /\ new.todo = session[r].todo
      /\ new.loaded = [NoRows EXCEPT ![f] = object]
  BY <1>2, <1>3, ScanFacts, IdleSession DEF Session, Points
<1> HIDE DEF new
<1>5. session'[r] = new /\ pending' = pending /\ row' = row /\ evidence' = evidence
  BY <1>1, ScanFacts DEF NoCommit
<1>6. ASSUME NEW g \in Fingerprints  PROVE LoadInv(r, g)' /\ EvidenceInv(r, g)'
  <2>1. new.loaded[g] = IF g = f THEN object ELSE Absent
    BY <1>4, IdleSession
  <2>2. new.loaded[g] \in {Absent, session[r].loaded[g], View(r, g)}
    BY <2>1 DEF object, f
  <2>3. LoadInv(r, g)'
    BY <1>5, <2>2, ScanFacts, ReadOK
  <2>4. EvidenceInv(r, g)'
    BY <1>1, <1>5, ScanFacts DEF EvidenceInv, Evidenced
  <2> QED
    BY <2>3, <2>4
<1>7. ScanInv(r)'
  BY <1>1, <1>4, <1>5, ScanFacts DEF ScanInv, ScanPoints, EntryPoints, Busy
<1> QED
  BY <1>1, <1>4, <1>6, <1>7, QuietScan

LEMMA ReadForReconcileInv ==
    ASSUME FindingInv, NEW r \in Scans, ReadForReconcile(r)
    PROVE  FindingInv'
<1> DEFINE read == [f \in Fingerprints |-> IF f \in Missing(r) THEN View(r, f) ELSE Absent]
           new == [session[r] EXCEPT !.pc = "close", !.loaded = read]
<1>1. /\ session[r].pc = "reconcile"
      /\ session' = [session EXCEPT ![r] = new]
      /\ NoCommit /\ UNCHANGED <<evidence, inTurn>>
  BY ScanFacts DEF ReadForReconcile, Session
<1>2. read \in [Fingerprints -> Rows]
  BY ScanFacts, ViewTyped DEF Rows
<1>3. \A f \in Fingerprints : read[f] \in {Absent, View(r, f)}
  OBVIOUS
<1> HIDE DEF read
<1>4. /\ new \in Session /\ new.pc = "close" /\ new.todo = session[r].todo /\ new.loaded = read
  BY <1>2, ScanFacts DEF Session, Points
<1> HIDE DEF new
<1>5. session'[r] = new /\ pending' = pending /\ row' = row /\ evidence' = evidence
  BY <1>1, ScanFacts DEF NoCommit
<1>6. ASSUME NEW g \in Fingerprints  PROVE LoadInv(r, g)' /\ EvidenceInv(r, g)'
  <2>1. LoadInv(r, g)'
    BY <1>3, <1>4, <1>5, ScanFacts, ReadOK
  <2>2. EvidenceInv(r, g)'
    BY <1>1, <1>5, ScanFacts DEF EvidenceInv, Evidenced
  <2> QED
    BY <2>1, <2>2
<1>7. ScanInv(r)'
  BY <1>1, <1>4, <1>5, ScanFacts DEF ScanInv, ScanPoints, EntryPoints, Busy
<1> QED
  BY <1>1, <1>4, <1>6, <1>7, QuietScan

LEMMA EndScanInv ==
    ASSUME FindingInv, NEW r \in Scans, EndScan(r)
    PROVE  FindingInv'
<1> DEFINE new == [Idle EXCEPT !.pc = "done"]
<1>1. /\ session[r].pc = "passed"
      /\ session' = [session EXCEPT ![r] = new]
      /\ NoCommit /\ UNCHANGED <<evidence, inTurn>>
  BY DEF EndScan
<1>2. /\ new \in Session /\ new.pc = "done" /\ new.todo = <<>> /\ new.loaded = NoRows
      /\ new.processed = {}
  BY IdleSession DEF Idle, Session, Points
<1> HIDE DEF new
<1>3. session'[r] = new /\ pending' = pending /\ row' = row
  BY <1>1, ScanFacts DEF NoCommit
<1>4. pending[r] = Nothing
  BY <1>1, ScanFacts DEF ScanInv, Busy
<1>5. ASSUME NEW f \in Fingerprints  PROVE LoadInv(r, f)' /\ EvidenceInv(r, f)'
  BY <1>2, <1>3, <1>4, IdleSession, NoRow DEF LoadInv, EvidenceInv
<1>6. ScanInv(r)'
  BY <1>2, <1>3, <1>4 DEF ScanInv, ScanPoints, EntryPoints, Busy, Nothing
<1> QED
  BY <1>1, <1>2, <1>5, <1>6, QuietScan

\* A flush: one more row is written, and locked until the commit.
LEMMA FlushInv ==
    ASSUME FindingInv, NEW s \in Sessions, NEW new \in Session, NEW f \in Fingerprints,
           NEW w \in Write, WriteOK(f, w), Unlocked(s, f),
           pending' = [pending EXCEPT ![s][f] = w], session' = [session EXCEPT ![s] = new],
           UNCHANGED <<row, history, evidence, inTurn>>,
           \A g \in Fingerprints : LoadInv(s, g)' /\ EvidenceInv(s, g)',
           s \in Scans => ScanInv(s)', s \in Analysts => TriageInv(s)'
    PROVE  FindingInv'
<1>1. FindingTypes /\ Locked
  BY DEF FindingInv
<1>2. /\ \A t \in Sessions \ {s} : session'[t] = session[t] /\ pending'[t] = pending[t]
      /\ pending'[s][f] = w
      /\ \A g \in Fingerprints \ {f} : pending'[s][g] = pending[s][g]
  BY <1>1 DEF FindingTypes
<1>3. FindingTypes'
  BY <1>1 DEF FindingTypes
<1>4. OthersKept(s)
  BY <1>2 DEF OthersKept, EvidenceKept
<1>5. ASSUME NEW g \in Fingerprints
      PROVE  /\ FindingRowInv(g)' /\ WriteInv(s, g)'
             /\ Touched(s, g)' => Touched(s, g) \/ Unlocked(s, g)
  <2>1. FindingRowInv(g) /\ WriteInv(s, g)
    BY DEF FindingInv
  <2>2. FindingRowInv(g)'
    BY <2>1 DEF FindingRowInv, Evidenced
  <2>3. CASE g = f
    BY <1>2, <2>2, <2>3 DEF WriteInv, WriteOK
  <2>4. CASE g # f
    BY <1>2, <2>1, <2>2, <2>4 DEF WriteInv, WriteOK, Touched
  <2> QED
    BY <2>3, <2>4
<1>6. OwnInv(s)'
  BY <1>5 DEF OwnInv
<1> QED
  BY <1>3, <1>4, <1>5, <1>6, StepInv

LEMMA CreateFindingInv ==
    ASSUME FindingInv, NEW r \in Scans, CreateFinding(r)
    PROVE  FindingInv'
<1> DEFINE f == Entered(r).finding
           row0 == [status |-> "open", severity |-> Entered(r).severity,
                    closed |-> FALSE, detected |-> r, again |-> FALSE]
           log == <<StatusChange("absent", "open")>>
           w == [columns |-> Columns, new |-> row0, insert |-> TRUE, log |-> log]
           new == [session[r] EXCEPT !.pc = "evidence", !.loaded[f] = row0, !.made = @ \cup {f}]
<1>1. /\ session[r].pc = "flush"
      /\ Unlocked(r, f) /\ row[f] = Absent
      /\ pending' = [pending EXCEPT ![r][f] = w]
      /\ session' = [session EXCEPT ![r] = new]
      /\ UNCHANGED <<row, history, evidence, inTurn>>
  BY ScanFacts DEF CreateFinding, Session
<1>2. /\ f \in Fingerprints /\ Entered(r) \in Entry
      /\ session[r].loaded \in [Fingerprints -> Rows] /\ session[r] \in Session
  BY <1>1, EntryFacts, ScanFacts DEF EntryPoints, Session
<1>3. row0 \in Row /\ row0.status = "open" /\ ~row0.closed
  BY <1>2 DEF Row, Entry, FindingStatuses
<1>4. /\ log \in Seq(Change) /\ Tells(log, "status", "open")
  <2> DEFINE e == StatusChange("absent", "open")
  <2>1. e \in Change /\ e.column = "status" /\ e.new = "open"
    <3>1. "absent" \in FindingStatuses \cup {"absent"} /\ "open" \in FindingStatuses
      BY DEF FindingStatuses
    <3> QED
      BY <3>1, Entries, Zenon
  <2> HIDE DEF e
  <2>2. <<e>> \in Seq(Change) /\ Tells(<<e>>, "status", "open")
    BY <2>1, OneEntry
  <2> QED
    BY <2>2 DEF e
<1> HIDE DEF f, row0, log
<1>5. /\ w \in Write /\ w.new = row0 /\ w.insert /\ w.log = log
  BY <1>3, <1>4 DEF Write, Rows
<1>6. /\ new \in Session /\ new.pc = "evidence" /\ new.todo = session[r].todo
      /\ new.loaded = [session[r].loaded EXCEPT ![f] = row0]
  BY <1>2, <1>3, ScanFacts DEF Session, Points, Rows
<1> HIDE DEF w, new
<1>7. WriteOK(f, w)
  BY <1>1, <1>3, <1>4, <1>5 DEF WriteOK, Sets
<1>8. /\ session'[r] = new /\ pending'[r][f] = w
      /\ \A g \in Fingerprints \ {f} : pending'[r][g] = pending[r][g]
      /\ row' = row /\ evidence' = evidence
  BY <1>1, <1>2, ScanFacts DEF FindingTypes
<1>9. ASSUME NEW g \in Fingerprints  PROVE LoadInv(r, g)' /\ EvidenceInv(r, g)'
  <2>1. LoadInv(r, g) /\ EvidenceInv(r, g) /\ Entered(r)' = Entered(r)
    BY <1>6, <1>8, ScanFacts DEF Entered
  <2>2. CASE g = f
    <3>1. session'[r].loaded[g] = row0
      BY <1>2, <1>6, <1>8, <2>2
    <3>2. LoadInv(r, g)'
      BY <1>5, <1>8, <2>2, <3>1 DEF LoadInv
    <3>3. EvidenceInv(r, g)'
      BY <1>6, <1>8, <2>1, <2>2 DEF EvidenceInv, f
    <3> QED
      BY <3>2, <3>3
  <2>3. CASE g # f
    <3>1. session'[r].loaded[g] = session[r].loaded[g]
      BY <1>2, <1>6, <1>8, <2>3
    <3>2. LoadInv(r, g)'
      BY <1>8, <2>1, <2>3, <3>1 DEF LoadInv
    <3>3. EvidenceInv(r, g)'
      BY <1>1, <1>8, <2>1, <2>3 DEF EvidenceInv, Evidenced
    <3> QED
      BY <3>2, <3>3
  <2> QED
    BY <2>2, <2>3
<1>10. ScanInv(r)'
  BY <1>1, <1>6, <1>8, ScanFacts DEF ScanInv, ScanPoints, EntryPoints, Busy
<1> QED
  BY <1>1, <1>2, <1>5, <1>6, <1>7, <1>9, <1>10, FlushInv, ScanFacts

\* What a redetection flushes.
LEMMA RedetectionFlush ==
    ASSUME FindingInv, NEW r \in Scans, NEW f \in Fingerprints, NEW severity \in Severities,
           session[r].loaded[f] # Absent
    PROVE  LET old == session[r].loaded[f]
               new == Redetected(r, old, severity)
               w == Flushed(r, f, Differing(old, new) \cup Stamp(new), new, RedetectionLog(old))
           IN  /\ old \in Row /\ new \in Row /\ w \in Write /\ WriteOK(f, w)
               /\ w.new = new /\ w.insert = pending[r][f].insert
<1> DEFINE old == session[r].loaded[f]
           new == Redetected(r, old, severity)
           columns == Differing(old, new) \cup Stamp(new)
           log == RedetectionLog(old)
           w == Flushed(r, f, columns, new, log)
<1>1. old \in Row
  BY ScanFacts DEF Session, Rows
<1>2. /\ new \in Row /\ log \in Seq(Change)
      /\ IF new.status # old.status THEN Tells(log, "status", new.status)
         ELSE About(log, "status") = {}
      /\ ~new.closed
      /\ ~old.closed => About(log, "closed") = {}
  BY <1>1, RedetectionTells
<1>3. /\ columns \in SUBSET Columns
      /\ "status" \in columns <=> new.status # old.status
      /\ "meta" \notin columns => ~old.closed
  <2> HIDE DEF new
  <2>1. new.closed = FALSE /\ old.closed \in BOOLEAN
    BY <1>1, <1>2 DEF Row
  <2> QED
    BY <2>1 DEF Differing, Stamp, Columns
<1>4. /\ row[f] # Absent \/ pending[r][f].insert
      /\ Sets(pending[r][f], "status") => old.status = pending[r][f].new.status
  BY ScanFacts DEF LoadInv
<1>5. w.new = new /\ w.insert = pending[r][f].insert
  BY DEF Flushed
<1> HIDE DEF old, new, columns, log
<1>6. w \in Write /\ WriteOK(f, w)
  BY <1>2, <1>3, <1>4, ScanFacts, FlushedOK
<1> QED
  BY <1>1, <1>2, <1>5, <1>6 DEF old, new, columns, log

LEMMA UpdateFindingInv ==
    ASSUME FindingInv, NEW r \in Scans, UpdateFinding(r)
    PROVE  FindingInv'
<1> DEFINE f == Entered(r).finding
           old == session[r].loaded[f]
           row1 == Redetected(r, old, Entered(r).severity)
           w == Flushed(r, f, Differing(old, row1) \cup Stamp(row1), row1, RedetectionLog(old))
           new == [session[r] EXCEPT !.pc = "evidence", !.loaded[f] = row1]
<1>1. /\ session[r].pc = "flush" /\ old # Absent
      /\ Unlocked(r, f)
      /\ pending' = [pending EXCEPT ![r][f] = w]
      /\ session' = [session EXCEPT ![r] = new]
      /\ UNCHANGED <<row, history, evidence, inTurn>>
  BY ScanFacts DEF UpdateFinding, Session
<1>2. /\ f \in Fingerprints /\ Entered(r).severity \in Severities
      /\ session[r].loaded \in [Fingerprints -> Rows] /\ session[r] \in Session
  BY <1>1, EntryFacts, ScanFacts DEF EntryPoints, Session, Entry
<1>3. /\ row1 \in Row /\ w \in Write /\ WriteOK(f, w)
      /\ w.new = row1 /\ w.insert = pending[r][f].insert
  BY <1>1, <1>2, RedetectionFlush
<1>4. row[f] # Absent \/ pending[r][f].insert
  BY <1>1, <1>2, ScanFacts DEF LoadInv
<1> HIDE DEF f, old, row1, w
<1>6. /\ new \in Session /\ new.pc = "evidence" /\ new.todo = session[r].todo
      /\ new.loaded = [session[r].loaded EXCEPT ![f] = row1]
  BY <1>2, <1>3, ScanFacts DEF Session, Points, Rows
<1> HIDE DEF new
<1>8. /\ session'[r] = new /\ pending'[r][f] = w
      /\ \A g \in Fingerprints \ {f} : pending'[r][g] = pending[r][g]
      /\ row' = row /\ evidence' = evidence
  BY <1>1, <1>2, ScanFacts DEF FindingTypes
<1>9. ASSUME NEW g \in Fingerprints  PROVE LoadInv(r, g)' /\ EvidenceInv(r, g)'
  <2>1. LoadInv(r, g) /\ EvidenceInv(r, g) /\ Entered(r)' = Entered(r)
    BY <1>6, <1>8, ScanFacts DEF Entered
  <2>2. CASE g = f
    <3>1. session'[r].loaded[g] = row1
      BY <1>2, <1>6, <1>8, <2>2
    <3>2. LoadInv(r, g)'
      BY <1>3, <1>4, <1>8, <2>2, <3>1 DEF LoadInv
    <3>3. EvidenceInv(r, g)'
      BY <1>6, <1>8, <2>1, <2>2 DEF EvidenceInv, f
    <3> QED
      BY <3>2, <3>3
  <2>3. CASE g # f
    <3>1. session'[r].loaded[g] = session[r].loaded[g]
      BY <1>2, <1>6, <1>8, <2>3
    <3>2. LoadInv(r, g)'
      BY <1>8, <2>1, <2>3, <3>1 DEF LoadInv
    <3>3. EvidenceInv(r, g)'
      BY <1>1, <1>8, <2>1, <2>3 DEF EvidenceInv, Evidenced
    <3> QED
      BY <3>2, <3>3
  <2> QED
    BY <2>2, <2>3
<1>10. ScanInv(r)'
  BY <1>1, <1>6, <1>8, ScanFacts DEF ScanInv, ScanPoints, EntryPoints, Busy
<1> QED
  BY <1>1, <1>2, <1>3, <1>6, <1>9, <1>10, FlushInv, ScanFacts

\* A commit: what the session has flushed becomes the table's.
CommitOK(s, writes, new) ==
    \A f \in Fingerprints :
       /\ writes[f] # Untouched =>
            WriteOK(f, writes[f]) /\ (Touched(s, f) \/ Unlocked(s, f))
       /\ writes[f].insert => Evidenced(f)'
       /\ pending[s][f].insert => writes[f].insert
       /\ new.loaded[f] \in {Absent, session[s].loaded[f]}

LEMMA CommitInv ==
    ASSUME FindingInv, NEW s \in Sessions, NEW new \in Session,
           NEW writes \in [Fingerprints -> Write],
           Commit(s, writes), session' = [session EXCEPT ![s] = new], inTurn' = inTurn,
           evidence' \in [Hashes -> Fingerprints \cup {None}], EvidenceKept,
           CommitOK(s, writes, new),
           s \in Scans => ScanInv(s)', s \in Analysts => TriageInv(s)'
    PROVE  FindingInv'
<1>1. FindingTypes /\ Locked
      /\ \A f \in Fingerprints : FindingRowInv(f) /\ LoadInv(s, f)
  BY DEF FindingInv
<1>2. /\ row' \in [Fingerprints -> Rows]
      /\ history' \in [Fingerprints -> Seq(Change)]
      /\ pending' \in [Sessions -> [Fingerprints -> Write]]
      /\ \A f \in Fingerprints :
           /\ FindingRowInv(f)'
           /\ row[f] # Absent \/ writes[f].insert => row'[f] # Absent
           /\ writes[f] = Untouched => row'[f] = row[f]
      /\ pending'[s] = Nothing
      /\ \A t \in Sessions \ {s} : pending'[t] = pending[t]
  BY <1>1, CommitRows DEF CommitOK
<1>3. /\ FindingTypes' /\ session'[s] = new
      /\ \A t \in Sessions \ {s} : session'[t] = session[t]
  BY <1>1, <1>2 DEF FindingTypes
<1>4. \A f \in Fingerprints, t \in Sessions \ {s} : Touched(t, f) => row'[f] = row[f]
  BY <1>1, <1>2 DEF Locked, Unlocked, CommitOK
<1>5. OthersKept(s)
  BY <1>2, <1>3, <1>4 DEF OthersKept
<1>6. ASSUME NEW f \in Fingerprints
      PROVE  WriteInv(s, f)' /\ LoadInv(s, f)' /\ EvidenceInv(s, f)' /\ ~Touched(s, f)'
  <2>1. pending'[s][f] = Untouched
    BY <1>2, IdleSession
  <2>2. LoadInv(s, f)'
    BY <1>1, <1>2, <1>3, <2>1, NoRow DEF LoadInv, Sets, CommitOK
  <2> QED
    BY <2>1, <2>2, NoRow DEF WriteInv, EvidenceInv, Touched
<1>7. OwnInv(s)'
  BY <1>6 DEF OwnInv
<1> QED
  BY <1>2, <1>3, <1>5, <1>6, <1>7, StepInv

\* Most commits are of what the session has flushed.
LEMMA PlainCommitInv ==
    ASSUME FindingInv, NEW r \in Scans, NEW new \in Session,
           Commit(r, pending[r]), session' = [session EXCEPT ![r] = new], inTurn' = inTurn,
           evidence' \in [Hashes -> Fingerprints \cup {None}], EvidenceKept,
           \A f \in Fingerprints :
             /\ pending[r][f].insert => Evidenced(f)'
             /\ new.loaded[f] \in {Absent, session[r].loaded[f]},
           ScanInv(r)'
    PROVE  FindingInv'
<1>1. /\ r \in Sessions /\ r \notin Analysts
      /\ pending[r] \in [Fingerprints -> Write]
      /\ \A f \in Fingerprints : WriteInv(r, f)
  BY ScanFacts
<1>2. \A f \in Fingerprints :
        pending[r][f] # Untouched => WriteOK(f, pending[r][f]) /\ Touched(r, f)
  BY <1>1 DEF WriteInv, Touched
<1>3. CommitOK(r, pending[r], new)
  BY <1>2 DEF CommitOK
<1> QED
  BY <1>1, <1>3, CommitInv

LEMMA CreateEvidenceInv ==
    ASSUME FindingInv, NEW r \in Scans, CreateEvidence(r)
    PROVE  FindingInv'
<1> DEFINE new == [session[r] EXCEPT !.pc = "advise"]
<1>0. session[r].pc = "evidence"
  BY DEF CreateEvidence
<1>f. PICK f \in Fingerprints : f = Entered(r).finding
  BY <1>0, EntryFacts DEF EntryPoints
<1>h. PICK h \in Hashes : h = Entered(r).hash
  BY <1>0, EntryFacts DEF EntryPoints
<1>1. /\ session[r].pc = "evidence"
      /\ session' = [session EXCEPT ![r] = new] /\ inTurn' = inTurn
      /\ \/ /\ evidence[h] = None /\ evidence' = [evidence EXCEPT ![h] = f]
            /\ Commit(r, pending[r])
         \/ evidence[h] # None /\ NoCommit /\ evidence' = evidence
  BY <1>f, <1>h, ScanFacts DEF CreateEvidence, Session
<1>2. evidence \in [Hashes -> Fingerprints \cup {None}]
  BY ScanFacts DEF FindingTypes
<1>3. PICK report \in Reports : \E k \in 1..Len(report) : report[k] = Entered(r)
  BY <1>1, EntryFacts DEF EntryPoints
<1>4. PICK k \in 1..Len(report) : report[k].finding = f /\ report[k].hash = h
  BY <1>3, <1>f, <1>h
<1>5. /\ new \in Session /\ new.pc = "advise" /\ new.todo = session[r].todo
      /\ new.loaded = session[r].loaded
  BY ScanFacts DEF Session, Points
<1>6. session'[r] = new
  BY <1>1, ScanFacts
<1> HIDE DEF new
<1>7. /\ evidence' \in [Hashes -> Fingerprints \cup {None}] /\ EvidenceKept
      /\ evidence'[h] # None
  <2>1. None \notin Fingerprints
    BY FindingsAssumption
  <2>2. CASE evidence[h] = None /\ evidence' = [evidence EXCEPT ![h] = f]
    <3>1. evidence'[h] = f /\ \A g \in Hashes \ {h} : evidence'[g] = evidence[g]
      BY <1>2, <2>2
    <3> QED
      BY <1>2, <2>1, <2>2, <3>1 DEF EvidenceKept
  <2>3. CASE evidence[h] # None /\ evidence' = evidence
    BY <1>2, <2>3 DEF EvidenceKept
  <2> QED
    BY <1>1, <2>2, <2>3
<1>8. Evidenced(f)'
  BY <1>4, <1>7 DEF Evidenced
<1>9. ASSUME NEW g \in Fingerprints, pending[r][g].insert  PROVE Evidenced(g)'
  <2>1. Evidenced(g) \/ g = f
    BY <1>9, <1>f, ScanFacts DEF EvidenceInv
  <2> QED
    BY <1>7, <1>8, <2>1, EvidencedKept
<1>10. ScanInv(r)'
  BY <1>1, <1>5, <1>6, ScanFacts DEF ScanInv, ScanPoints, EntryPoints, Busy
<1>11. CASE Commit(r, pending[r])
  BY <1>1, <1>5, <1>7, <1>9, <1>10, <1>11, PlainCommitInv
<1>12. CASE NoCommit /\ evidence' = evidence
  <2>1. ASSUME NEW g \in Fingerprints  PROVE LoadInv(r, g)' /\ EvidenceInv(r, g)'
    <3>1. pending' = pending /\ row' = row
      BY <1>12 DEF NoCommit
    <3>2. LoadInv(r, g)'
      BY <1>5, <1>6, <3>1, ScanFacts, ReadOK
    <3>3. EvidenceInv(r, g)'
      BY <1>9, <3>1 DEF EvidenceInv
    <3> QED
      BY <3>2, <3>3
  <2> QED
    BY <1>1, <1>5, <1>10, <1>12, <2>1, QuietScan
<1> QED
  BY <1>1, <1>11, <1>12

LEMMA AdviseInv ==
    ASSUME FindingInv, NEW r \in Scans, Advise(r)
    PROVE  FindingInv'
<1> DEFINE new == [session[r] EXCEPT
                     !.todo = Tail(@), !.pc = IF Len(session[r].todo) = 1 THEN "reconcile" ELSE "read"]
<1>1. /\ session[r].pc = "advise"
      /\ session' = [session EXCEPT ![r] = new] /\ UNCHANGED <<evidence, inTurn>>
      /\ NoCommit \/ Commit(r, pending[r])
  BY ScanFacts DEF Advise, Recommend, Session
<1>2. session[r].todo \in Seq(Entry) /\ session[r].todo # <<>>
  BY <1>1, EntryFacts DEF EntryPoints
<1>3. /\ new \in Session /\ new.todo = Tail(session[r].todo)
      /\ new.pc = (IF Len(session[r].todo) = 1 THEN "reconcile" ELSE "read")
      /\ new.loaded = session[r].loaded
  <2>1. Tail(session[r].todo) \in Seq(Entry)
    BY <1>2
  <2> QED
    BY <2>1, ScanFacts DEF Session, Points
<1>4. session'[r] = new
  BY <1>1, ScanFacts
<1> HIDE DEF new
<1>5. ScanInv(r)'
  <2> DEFINE todo == session[r].todo
  <2>1. /\ Len(todo) # 1 => Tail(todo) # <<>>
        /\ \A k \in DOMAIN Tail(todo) : k + 1 \in DOMAIN todo /\ Tail(todo)[k] = todo[k + 1]
    <3>1. todo \in Seq(Entry) /\ todo # <<>>
      BY <1>2
    <3> HIDE DEF todo
    <3>2. /\ Tail(todo) \in Seq(Entry) /\ Len(Tail(todo)) = Len(todo) - 1 /\ Len(todo) \in Nat
          /\ \A k \in 1..Len(Tail(todo)) : Tail(todo)[k] = todo[k + 1]
      BY <3>1, HeadTailProperties
    <3>3. DOMAIN Tail(todo) = 1..Len(Tail(todo)) /\ DOMAIN todo = 1..Len(todo)
      BY <3>1, <3>2
    <3> QED
      BY <3>2, <3>3
  <2>2. \A k \in DOMAIN Tail(session[r].todo) :
          \E report \in Reports : \E j \in 1..Len(report) : report[j] = Tail(session[r].todo)[k]
    BY <2>1, ScanFacts DEF ScanInv
  <2> QED
    BY <1>3, <1>4, <2>1, <2>2 DEF ScanInv, ScanPoints, EntryPoints, Busy
<1>6. EvidenceKept /\ evidence' \in [Hashes -> Fingerprints \cup {None}]
  BY <1>1, ScanFacts DEF EvidenceKept, FindingTypes
<1>7. ASSUME NEW g \in Fingerprints, pending[r][g].insert  PROVE Evidenced(g)'
  <2>1. Evidenced(g)
    BY <1>1, <1>7, ScanFacts DEF EvidenceInv
  <2> QED
    BY <1>6, <2>1, EvidencedKept
<1>8. CASE Commit(r, pending[r])
  BY <1>1, <1>3, <1>5, <1>6, <1>7, <1>8, PlainCommitInv
<1>9. CASE NoCommit
  <2>1. ASSUME NEW g \in Fingerprints  PROVE LoadInv(r, g)' /\ EvidenceInv(r, g)'
    <3>1. pending' = pending /\ row' = row
      BY <1>9 DEF NoCommit
    <3>2. LoadInv(r, g)'
      BY <1>3, <1>4, <3>1, ScanFacts, ReadOK
    <3>3. EvidenceInv(r, g)'
      BY <1>7, <3>1 DEF EvidenceInv
    <3> QED
      BY <3>2, <3>3
  <2> QED
    BY <1>1, <1>3, <1>5, <1>9, <2>1, QuietScan
<1> QED
  BY <1>1, <1>8, <1>9

LEMMA AmbiguousHostInv ==
    ASSUME FindingInv, NEW r \in Scans, AmbiguousHost(r)
    PROVE  FindingInv'
<1> DEFINE new == [Idle EXCEPT !.pc = "failed"]
<1>1. /\ session[r].pc = "read" /\ Commit(r, pending[r])
      /\ session' = [session EXCEPT ![r] = new] /\ UNCHANGED <<evidence, inTurn>>
  BY DEF AmbiguousHost
<1>2. /\ new \in Session /\ new.pc = "failed" /\ new.todo = <<>> /\ new.loaded = NoRows
      /\ new.processed = {}
  BY IdleSession DEF Idle, Session, Points
<1> HIDE DEF new
<1>3. session'[r] = new /\ pending'[r] = Nothing
  BY <1>1, ScanFacts DEF Commit, Nothing, FindingTypes
<1>4. ScanInv(r)'
  BY <1>2, <1>3 DEF ScanInv, ScanPoints, EntryPoints, Busy
<1>5. EvidenceKept /\ evidence' \in [Hashes -> Fingerprints \cup {None}]
  BY <1>1, ScanFacts DEF EvidenceKept, FindingTypes
<1>6. \A g \in Fingerprints : pending[r][g].insert => Evidenced(g)'
  BY <1>1, <1>5, ScanFacts, EvidencedKept DEF EvidenceInv
<1>7. \A g \in Fingerprints : new.loaded[g] = Absent
  BY <1>2, IdleSession
<1> QED
  BY <1>1, <1>2, <1>4, <1>5, <1>6, <1>7, PlainCommitInv

\* What the closing of a finding flushes.
LEMMA ClosingFlush ==
    ASSUME FindingInv, NEW r \in Scans, NEW f \in Fingerprints,
           session[r].loaded[f] # Absent
    PROVE  LET old == session[r].loaded[f]
               new == [old EXCEPT !.closed = TRUE]
               w == Flushed(r, f, {"meta"}, new, ClosingLog(old))
           IN  /\ old \in Row /\ new \in Row /\ w \in Write /\ WriteOK(f, w)
               /\ w.new = new /\ w.insert = pending[r][f].insert
<1> DEFINE old == session[r].loaded[f]
           new == [old EXCEPT !.closed = TRUE]
           log == ClosingLog(old)
           e == ClosedChange(old.closed, TRUE)
           w == Flushed(r, f, {"meta"}, new, log)
<1>1. old \in Row
  BY ScanFacts DEF Session, Rows
<1>2. new \in Row /\ new.status = old.status /\ new.closed
  BY <1>1 DEF Row
<1>3. /\ log \in Seq(Change) /\ About(log, "status") = {} /\ Tells(log, "closed", "closed")
  <2>1. e \in Change /\ e.column = "closed" /\ e.new = "closed"
    <3>1. old.closed \in BOOLEAN /\ Flag(TRUE) = "closed"
      BY <1>1 DEF Row, Flag
    <3> QED
      BY <3>1, Entries, Zenon
  <2>2. log = <<e>>
    BY DEF ClosingLog
  <2> HIDE DEF e, log
  <2> QED
    BY <2>1, <2>2, OneEntry
<1>4. /\ row[f] # Absent \/ pending[r][f].insert
      /\ Sets(pending[r][f], "status") => old.status = pending[r][f].new.status
  BY ScanFacts DEF LoadInv
<1>5. w.new = new /\ w.insert = pending[r][f].insert
  BY DEF Flushed
<1> HIDE DEF old, new, log
<1>6. w \in Write /\ WriteOK(f, w)
  <2>1. {"meta"} \in SUBSET Columns /\ "status" \notin {"meta"}
    BY DEF Columns
  <2> QED
    BY <1>2, <1>3, <1>4, <2>1, ScanFacts, FlushedOK
<1> QED
  BY <1>1, <1>2, <1>5, <1>6 DEF old, new, log

LEMMA CommitReconcileInv ==
    ASSUME FindingInv, NEW r \in Scans, CommitReconcile(r)
    PROVE  FindingInv'
<1> DEFINE closing(f) == [session[r].loaded[f] EXCEPT !.closed = TRUE]
           missing == {f \in Fingerprints : session[r].loaded[f] # Absent}
           flush(f) == Flushed(r, f, {"meta"}, closing(f), ClosingLog(session[r].loaded[f]))
           writes == [f \in Fingerprints |-> IF f \in missing THEN flush(f) ELSE pending[r][f]]
           new == [session[r] EXCEPT !.pc = "passed", !.loaded = NoRows]
<1>1. /\ session[r].pc = "close"
      /\ \A f \in missing : Unlocked(r, f)
      /\ Commit(r, writes)
      /\ session' = [session EXCEPT ![r] = new] /\ UNCHANGED <<evidence, inTurn>>
  BY ScanFacts DEF CommitReconcile, Session
<1>2. ASSUME NEW f \in Fingerprints
      PROVE  /\ writes[f] \in Write /\ writes[f].insert = pending[r][f].insert
             /\ writes[f] # Untouched =>
                  WriteOK(f, writes[f]) /\ (Touched(r, f) \/ Unlocked(r, f))
  <2>1. CASE f \in missing
    <3>1. writes[f] = flush(f) /\ session[r].loaded[f] # Absent
      BY <2>1
    <3>2. flush(f) \in Write /\ WriteOK(f, flush(f)) /\ flush(f).insert = pending[r][f].insert
      BY <3>1, ClosingFlush
    <3> HIDE DEF flush, writes
    <3> QED
      BY <1>1, <2>1, <3>1, <3>2
  <2>2. CASE f \notin missing
    BY <2>2, ScanFacts DEF WriteInv, Touched
  <2> QED
    BY <2>1, <2>2
<1>3. PICK all \in [Fingerprints -> Write] : all = writes
  BY <1>2
<1> HIDE DEF missing, writes
<1>4. /\ new \in Session /\ new.pc = "passed" /\ new.todo = session[r].todo /\ new.loaded = NoRows
  BY IdleSession, ScanFacts DEF Session, Points
<1> HIDE DEF new
<1>5. session'[r] = new /\ pending'[r] = Nothing
  BY <1>1, ScanFacts DEF Commit, Nothing, FindingTypes
<1>6. ScanInv(r)'
  BY <1>4, <1>5, ScanFacts DEF ScanInv, ScanPoints, EntryPoints, Busy
<1>7. EvidenceKept /\ evidence' \in [Hashes -> Fingerprints \cup {None}]
  BY <1>1, ScanFacts DEF EvidenceKept, FindingTypes
<1>8. \A g \in Fingerprints : all[g].insert => Evidenced(g)'
  BY <1>1, <1>2, <1>3, <1>7, ScanFacts, EvidencedKept DEF EvidenceInv
<1>9. \A g \in Fingerprints : new.loaded[g] = Absent
  BY <1>4, IdleSession
<1>10. r \in Sessions /\ r \notin Analysts
  BY ScanFacts
<1>11. CommitOK(r, all, new)
  BY <1>2, <1>3, <1>8, <1>9 DEF CommitOK
<1>12. Commit(r, all)
  BY <1>1, <1>3
<1> QED
  BY <1>1, <1>4, <1>6, <1>7, <1>10, <1>11, <1>12, CommitInv

\* What the proofs about a triage start from.
LEMMA TriageFacts ==
    ASSUME FindingInv, NEW q \in Analysts
    PROVE  /\ q \in Sessions /\ q \notin Scans /\ TriageOf[q] \in Fingerprints
           /\ FindingTypes /\ session[q] \in Session /\ TriageInv(q)
           /\ pending[q] \in [Fingerprints -> Write]
           /\ \A f \in Fingerprints : /\ WriteInv(q, f) /\ LoadInv(q, f) /\ EvidenceInv(q, f)
                                      /\ FindingRowInv(f)
           /\ DOMAIN session = Sessions
<1>1. q \in Sessions /\ q \notin Scans /\ TriageOf[q] \in Fingerprints
  BY FindingsAssumption DEF Sessions
<1> QED
  BY <1>1 DEF FindingInv, FindingTypes

LEMMA BeginTriageInv ==
    ASSUME FindingInv, NEW q \in Analysts, NEW to \in FindingStatuses, Triage(q, to)
    PROVE  FindingInv'
<1> DEFINE f == TriageOf[q]
           new == [Idle EXCEPT !.pc = IF row[f].status = to THEN "done" ELSE "triage",
                               !.to = to, !.loaded = [NoRows EXCEPT ![f] = row[f]]]
<1>1. /\ session[q].pc = "idle" /\ row[f] # Absent
      /\ session' = [session EXCEPT ![q] = new]
      /\ NoCommit /\ UNCHANGED <<evidence, inTurn>>
  BY DEF Triage
<1>2. f \in Fingerprints /\ row[f] \in Row
  BY <1>1, TriageFacts DEF FindingTypes, Rows
<1> HIDE DEF f
<1>3. /\ new \in Session /\ new.pc \in {"done", "triage"}
      /\ new.loaded = [NoRows EXCEPT ![f] = row[f]]
  BY <1>2, IdleSession DEF Idle, Session, Points, Rows
<1> HIDE DEF new
<1>4. /\ session'[q] = new /\ pending' = pending /\ row' = row
      /\ \A g \in Fingerprints : new.loaded[g] = IF g = f THEN row[f] ELSE Absent
  BY <1>1, <1>3, TriageFacts, IdleSession DEF NoCommit
<1>5. pending[q] = Nothing
  BY <1>1, TriageFacts DEF TriageInv
<1>6. /\ OthersKept(q) /\ FindingTypes'
      /\ \A g \in Fingerprints :
           FindingRowInv(g)' /\ WriteInv(q, g)' /\ (Touched(q, g)' => Touched(q, g))
  BY <1>1, <1>3, TriageFacts, QuietKept
<1>7. ASSUME NEW g \in Fingerprints  PROVE LoadInv(q, g)' /\ EvidenceInv(q, g)'
  BY <1>1, <1>4, <1>5, IdleSession, NoRow, TriageFacts DEF LoadInv, EvidenceInv
<1>8. TriageInv(q)'
  BY <1>2, <1>3, <1>4, <1>5 DEF TriageInv, TriagePoints, f
<1>9. OwnInv(q)'
  BY <1>6, <1>7, <1>8, TriageFacts DEF OwnInv
<1> QED
  BY <1>6, <1>9, StepInv, TriageFacts

\* What a decision flushes.
LEMMA DecisionFlush ==
    ASSUME FindingInv, NEW q \in Analysts, session[q].pc \in {"triage", "answer"}
    PROVE  LET old == session[q].loaded[TriageOf[q]]
               new == [old EXCEPT !.status = session[q].to]
               e == StatusChange(old.status, session[q].to)
           IN  /\ old \in Row /\ new \in Row /\ e \in Change /\ <<e>> \in Seq(Change)
               /\ Decision(q).new = new /\ Decision(q).log = <<e>> /\ ~Decision(q).insert
               /\ Decision(q).columns = {"status"}
               /\ Decision(q) \in Write /\ WriteOK(TriageOf[q], Decision(q))
               /\ Decision(q) # Untouched
<1> DEFINE f == TriageOf[q]
           old == session[q].loaded[f]
           new == [old EXCEPT !.status = session[q].to]
           e == StatusChange(old.status, session[q].to)
           w == Decision(q)
<1>1. /\ f \in Fingerprints /\ old \in Row /\ session[q].to \in FindingStatuses
      /\ ~pending[q][f].insert
  <2>1. f \in Fingerprints /\ old \in Row /\ session[q].to \in FindingStatuses
    BY TriageFacts DEF TriageInv, Session
  <2>2. ~Nothing[f].insert /\ ~Decision(q).insert
    BY <2>1, IdleSession, NoRow DEF Decision
  <2>3. pending[q] = Nothing \/ pending[q] = [Nothing EXCEPT ![f] = Decision(q)]
    BY TriageFacts DEF TriageInv
  <2> HIDE DEF f
  <2>4. pending[q][f] \in {Nothing[f], Decision(q)}
    BY <2>1, <2>3, IdleSession
  <2> QED
    BY <2>1, <2>2, <2>4
<1>2. row[f] # Absent
  BY <1>1, NoRow, TriageFacts DEF LoadInv
<1>3. new \in Row /\ new.status = session[q].to
  BY <1>1 DEF Row
<1>4. /\ e \in Change /\ e.column = "status" /\ e.new = session[q].to
  <2>1. old.status \in FindingStatuses \cup {"absent"}
    BY <1>1 DEF Row
  <2> QED
    BY <1>1, <2>1, Entries, Zenon
<1>5. /\ w.new = new /\ w.log = <<e>> /\ ~w.insert /\ w.columns = {"status"}
      /\ w = [columns |-> {"status"}, new |-> new, log |-> <<e>>, insert |-> FALSE]
  BY DEF Decision
<1> HIDE DEF f, old, new, e, w
<1>6. /\ <<e>> \in Seq(Change) /\ Tells(<<e>>, "status", new.status)
      /\ About(<<e>>, "closed") = {}
  BY <1>3, <1>4, OneEntry
<1>7. w \in Write /\ w # Untouched
  BY <1>3, <1>5, <1>6 DEF Write, Rows, Columns, Untouched
<1>8. WriteOK(f, w)
  BY <1>2, <1>3, <1>5, <1>6 DEF WriteOK, Sets
<1> QED
  BY <1>1, <1>3, <1>4, <1>5, <1>6, <1>7, <1>8 DEF f, old, new, e, w

LEMMA DecisionFlushed ==
    ASSUME FindingInv, NEW q \in Analysts, FlushTriage(q)
    PROVE  /\ session[q].pc = "triage" /\ pending[q] = Nothing
           /\ pending' = [pending EXCEPT ![q][TriageOf[q]] = Decision(q)]
           /\ session' = [session EXCEPT ![q] = [session[q] EXCEPT !.pc = "answer"]]
           /\ Unlocked(q, TriageOf[q]) /\ UNCHANGED <<row, history, evidence, inTurn>>
<1> DEFINE new == [session[q] EXCEPT !.pc = "answer"]
<1>0. session[q].pc = "triage" /\ session[q] \in Session
  BY TriageFacts DEF FlushTriage
<1>f. PICK f \in Fingerprints : f = TriageOf[q]
  BY TriageFacts
<1>1. /\ pending[q] = Nothing /\ pending[q][f] = Untouched
  BY <1>0, IdleSession, TriageFacts DEF TriageInv
<1>2. Flushed(q, f, {"status"}, Decision(q).new, Decision(q).log) = Decision(q)
  <2>1. Decision(q).log \in Seq(Change)
    BY <1>0, DecisionFlush
  <2>2. {} \cup {"status"} = {"status"} /\ <<>> \o Decision(q).log = Decision(q).log
    BY <2>1, ConcatEmptySeq
  <2>3. Decision(q) = [columns |-> {"status"}, new |-> Decision(q).new,
                       log |-> Decision(q).log, insert |-> FALSE]
    BY DEF Decision
  <2>4. /\ pending[q][f].columns = {} /\ pending[q][f].log = <<>>
        /\ pending[q][f].insert = FALSE
    BY <1>1 DEF Untouched
  <2> QED
    BY <2>2, <2>3, <2>4, Zenon DEF Flushed
<1>3. /\ Unlocked(q, f)
      /\ pending' = [pending EXCEPT ![q][f] = Decision(q)]
      /\ session' = [session EXCEPT ![q] = new]
      /\ UNCHANGED <<row, history, evidence, inTurn>>
  <2>1. /\ Decision(q).new = [session[q].loaded[f] EXCEPT !.status = session[q].to]
        /\ Decision(q).new.status = session[q].to
        /\ Decision(q).log = <<StatusChange(session[q].loaded[f].status, session[q].to)>>
    <3>1. session[q].loaded[f] \in Row
      BY <1>0, <1>f, TriageFacts DEF TriageInv
    <3> QED
      BY <1>f, <3>1 DEF Decision, Row
  <2>2. pending' = [pending EXCEPT ![q][f] =
           Flushed(q, f, {"status"}, Decision(q).new,
                   <<StatusChange(session[q].loaded[f].status, Decision(q).new.status)>>)]
    BY <1>f, <2>1, Zenon DEF FlushTriage
  <2>3. pending' = [pending EXCEPT ![q][f] = Decision(q)]
    BY <1>2, <2>1, <2>2, Zenon
  <2>4. Unlocked(q, f) /\ UNCHANGED <<row, history, evidence, inTurn>>
    BY <1>f DEF FlushTriage
  <2>5. session' = [session EXCEPT ![q] = new]
    BY <1>0, TriageFacts DEF FlushTriage, Session
  <2> QED
    BY <2>3, <2>4, <2>5
<1> QED
  BY <1>0, <1>f, <1>1, <1>3

LEMMA FlushTriageInv ==
    ASSUME FindingInv, NEW q \in Analysts, FlushTriage(q)
    PROVE  FindingInv'
<1> DEFINE new == [session[q] EXCEPT !.pc = "answer"]
<1>f. PICK f \in Fingerprints : f = TriageOf[q]
  BY TriageFacts
<1>3. /\ Unlocked(q, f)
      /\ pending' = [pending EXCEPT ![q][f] = Decision(q)]
      /\ session' = [session EXCEPT ![q] = new]
      /\ UNCHANGED <<row, history, evidence, inTurn>>
  BY <1>f, DecisionFlushed
<1>0. session[q].pc = "triage" /\ session[q] \in Session
  BY DecisionFlushed, TriageFacts
<1>1. /\ pending[q] = Nothing /\ pending[q][f] = Untouched
  BY DecisionFlushed, IdleSession
<1>4. /\ Decision(q) \in Write /\ WriteOK(f, Decision(q)) /\ ~Decision(q).insert
  BY <1>0, <1>f, DecisionFlush
<1>5. /\ new \in Session /\ new.pc = "answer" /\ new.loaded = session[q].loaded
      /\ new.to = session[q].to
  BY <1>0 DEF Session, Points
<1> HIDE DEF new
<1>6. /\ session'[q] = new /\ pending'[q] = [Nothing EXCEPT ![f] = Decision(q)]
      /\ row' = row
  BY <1>1, <1>3, TriageFacts DEF FindingTypes
<1>7. Decision(q)' = Decision(q)
  BY <1>5, <1>6 DEF Decision
<1>8. ASSUME NEW g \in Fingerprints  PROVE LoadInv(q, g)' /\ EvidenceInv(q, g)'
  <2>1. pending'[q][g] \in {Untouched, Decision(q)} /\ pending[q][g] = Untouched
    BY <1>1, <1>6, IdleSession
  <2>2. ~pending'[q][g].insert /\ ~pending[q][g].insert
    BY <1>4, <2>1, NoRow
  <2> QED
    BY <1>5, <1>6, <2>2, TriageFacts DEF LoadInv, EvidenceInv
<1>9. TriageInv(q)'
  <2>1. session[q].loaded[TriageOf[q]] \in Row
    BY <1>0, TriageFacts DEF TriageInv
  <2> QED
    BY <1>f, <1>5, <1>6, <1>7, <2>1 DEF TriageInv, TriagePoints
<1> QED
  BY <1>3, <1>4, <1>5, <1>8, <1>9, FlushInv, TriageFacts

\* A session whose transaction is rolled back.
LEMMA RollbackInv ==
    ASSUME FindingInv, NEW s \in Sessions, NEW new \in Session,
           pending' = [pending EXCEPT ![s] = Nothing], session' = [session EXCEPT ![s] = new],
           UNCHANGED <<row, history, evidence, inTurn>>,
           \A f \in Fingerprints : new.loaded[f] # Absent => row[f] # Absent,
           s \in Scans => ScanInv(s)', s \in Analysts => TriageInv(s)'
    PROVE  FindingInv'
<1>1. FindingTypes
  BY DEF FindingInv
<1>2. /\ FindingTypes' /\ pending'[s] = Nothing /\ session'[s] = new
      /\ \A t \in Sessions \ {s} : session'[t] = session[t] /\ pending'[t] = pending[t]
  BY <1>1, IdleSession DEF FindingTypes
<1>3. OthersKept(s)
  BY <1>2 DEF OthersKept, EvidenceKept
<1>4. ASSUME NEW f \in Fingerprints
      PROVE  /\ WriteInv(s, f)' /\ LoadInv(s, f)' /\ EvidenceInv(s, f)'
             /\ ~Touched(s, f)' /\ FindingRowInv(f)'
  <2>1. pending'[s][f] = Untouched
    BY <1>2, IdleSession
  <2>2. FindingRowInv(f)'
    BY DEF FindingInv, FindingRowInv, Evidenced
  <2> QED
    BY <1>2, <2>1, <2>2, NoRow DEF WriteInv, LoadInv, EvidenceInv, Touched, Sets
<1>5. OwnInv(s)'
  BY <1>4 DEF OwnInv
<1> QED
  BY <1>2, <1>3, <1>4, <1>5, StepInv

LEMMA AnswerTriageInv ==
    ASSUME FindingInv, NEW q \in Analysts, AnswerTriage(q)
    PROVE  FindingInv'
<1> DEFINE new == [session[q] EXCEPT !.pc = "done"]
<1>1. /\ session[q].pc = "answer"
      /\ session' = [session EXCEPT ![q] = new] /\ UNCHANGED <<evidence, inTurn>>
      /\ \/ pending' = [pending EXCEPT ![q] = Nothing] /\ UNCHANGED <<row, history>>
         \/ Commit(q, pending[q])
  BY TriageFacts DEF AnswerTriage, Session, Nothing
<1>2. /\ new \in Session /\ new.pc = "done" /\ new.loaded = session[q].loaded
  BY TriageFacts DEF Session, Points
<1> HIDE DEF new
<1>3. session'[q] = new /\ pending'[q] = Nothing
  BY <1>1, TriageFacts DEF Commit, Nothing, FindingTypes
<1>4. TriageInv(q)'
  BY <1>2, <1>3 DEF TriageInv, TriagePoints
<1>5. ASSUME NEW f \in Fingerprints
      PROVE  pending[q][f] \in {Untouched, Decision(q)} /\ ~pending[q][f].insert
  <2>1. pending[q] = [Nothing EXCEPT ![TriageOf[q]] = Decision(q)]
    BY <1>1, TriageFacts DEF TriageInv
  <2>2. pending[q][f] \in {Untouched, Decision(q)}
    BY <2>1, IdleSession
  <2> QED
    BY <1>1, <2>2, DecisionFlush, NoRow
<1>6. CASE pending' = [pending EXCEPT ![q] = Nothing] /\ UNCHANGED <<row, history>>
  <2>1. \A f \in Fingerprints : new.loaded[f] # Absent => row[f] # Absent
    BY <1>2, <1>5, TriageFacts DEF LoadInv
  <2> QED
    BY <1>1, <1>2, <1>4, <1>6, <2>1, RollbackInv, TriageFacts
<1>7. CASE Commit(q, pending[q])
  <2>1. EvidenceKept /\ evidence' \in [Hashes -> Fingerprints \cup {None}]
    BY <1>1, TriageFacts DEF EvidenceKept, FindingTypes
  <2>2. CommitOK(q, pending[q], new)
    BY <1>2, <1>5, TriageFacts DEF CommitOK, WriteInv, Touched
  <2> QED
    BY <1>1, <1>2, <1>4, <1>7, <2>1, <2>2, CommitInv, TriageFacts
<1> QED
  BY <1>1, <1>6, <1>7

LEMMA FailInv ==
    ASSUME FindingInv, NEW s \in Sessions, Fail(s)
    PROVE  FindingInv'
<1> DEFINE new == [Idle EXCEPT !.pc = "failed"]
<1>1. /\ session' = [session EXCEPT ![s] = new]
      /\ pending' = [pending EXCEPT ![s] = Nothing]
      /\ UNCHANGED <<row, history, evidence, inTurn>>
  BY DEF Fail, Nothing
<1>2. /\ new \in Session /\ new.pc = "failed" /\ new.todo = <<>> /\ new.loaded = NoRows
      /\ new.processed = {}
  BY IdleSession DEF Idle, Session, Points
<1> HIDE DEF new
<1>3. session'[s] = new /\ pending'[s] = Nothing
  BY <1>1 DEF FindingInv, FindingTypes
<1>4. ScanInv(s)' /\ TriageInv(s)'
  BY <1>2, <1>3 DEF ScanInv, TriageInv, ScanPoints, TriagePoints, EntryPoints, Busy
<1>5. \A f \in Fingerprints : new.loaded[f] = Absent
  BY <1>2, IdleSession
<1> QED
  BY <1>1, <1>2, <1>4, <1>5, RollbackInv

LEMMA StillInv ==
    ASSUME FindingInv, UNCHANGED <<row, history, evidence, pending, session, inTurn>>
    PROVE  FindingInv'
<1>1. /\ FindingTypes' /\ Locked'
  BY DEF FindingInv, FindingTypes, Locked, Touched
<1>2. ASSUME NEW s \in Sessions, NEW f \in Fingerprints
      PROVE  WriteInv(s, f)' /\ LoadInv(s, f)' /\ EvidenceInv(s, f)'
  BY DEF FindingInv, WriteInv, WriteOK, LoadInv, EvidenceInv, Evidenced, Entered, Touched
<1>3. ASSUME NEW r \in Scans  PROVE ScanInv(r)'
  BY DEF FindingInv, ScanInv, Busy
<1>4. ASSUME NEW q \in Analysts  PROVE TriageInv(q)'
  BY DEF FindingInv, TriageInv, Decision
<1>5. ASSUME NEW f \in Fingerprints  PROVE FindingRowInv(f)'
  BY DEF FindingInv, FindingRowInv, Evidenced
<1> QED
  BY <1>1, <1>2, <1>3, <1>4, <1>5 DEF FindingInv

LEMMA FindingInit ==
    ASSUME FindingsInit
    PROVE  FindingInv
<1>1. /\ row = NoRows /\ evidence = [h \in Hashes |-> None]
      /\ history = [f \in Fingerprints |-> <<>>]
      /\ pending = [s \in Sessions |-> Nothing]
      /\ session = [s \in Sessions |-> Idle] /\ inTurn \in BOOLEAN
  BY DEF FindingsInit, NoRows, Nothing
<1>2. FindingTypes
  BY <1>1, IdleSession, EmptySeq DEF FindingTypes
<1>3. \A s \in Sessions, f \in Fingerprints :
        /\ row[f] = Absent /\ pending[s][f] = Untouched
        /\ session[s].loaded[f] = Absent
  BY <1>1, IdleSession DEF Idle
<1>4. \A s \in Sessions, f \in Fingerprints :
         WriteInv(s, f) /\ LoadInv(s, f) /\ EvidenceInv(s, f)
  BY <1>3, NoRow DEF WriteInv, LoadInv, EvidenceInv, Touched
<1>5. \A r \in Scans : ScanInv(r)
  BY <1>1 DEF ScanInv, Sessions, Idle, Busy, ScanPoints, EntryPoints
<1>6. \A q \in Analysts : TriageInv(q)
  BY <1>1 DEF TriageInv, Sessions, Idle, TriagePoints
<1>7. \A f \in Fingerprints : FindingRowInv(f)
  BY <1>1, IdleSession DEF FindingRowInv, Absent
<1>8. Locked
  BY <1>3 DEF Locked, Touched
<1> QED
  BY <1>2, <1>4, <1>5, <1>6, <1>7, <1>8 DEF FindingInv

LEMMA FindingStep ==
    ASSUME FindingInv, [FindingsNext]_findingVars
    PROVE  FindingInv'
<1>1. ASSUME NEW r \in Scans, ScanStep(r)  PROVE FindingInv'
  BY <1>1, BeginPassInv, SelectFindingInv, AmbiguousHostInv, CreateFindingInv, UpdateFindingInv,
     CreateEvidenceInv, AdviseInv, ReadForReconcileInv, CommitReconcileInv, EndScanInv
     DEF ScanStep
<1>2. ASSUME NEW q \in Analysts, TriageStep(q)  PROVE FindingInv'
  BY <1>2, BeginTriageInv, FlushTriageInv, AnswerTriageInv DEF TriageStep
<1>3. ASSUME NEW s \in Sessions, Fail(s)  PROVE FindingInv'
  BY <1>3, FailInv
<1>4. ASSUME NEW p \in Processes, RestartProcess(p)  PROVE FindingInv'
  BY <1>4, StillInv DEF RestartProcess
<1>5. CASE UNCHANGED findingVars
  BY <1>5, StillInv DEF findingVars
<1> QED
  BY <1>1, <1>2, <1>3, <1>4, <1>5 DEF FindingsNext

LEMMA FindingInvariance == FindingsSpec => []FindingInv
BY FindingInit, FindingStep, PTL DEF FindingsSpec

\* Rows, history and evidence explain one another whatever the sessions do
\* (process_discovered_findings, reconcile_findings, update_status).
THEOREM RowsAreExplained == FindingsSpec => []HistoryExplainsRow
<1>1. FindingInv => HistoryExplainsRow
  BY DEF FindingInv, FindingRowInv, Evidenced, HistoryExplainsRow, HistoryTellsStatus,
         ClosedIsLogged, RowsAreEvidenced
<1> QED
  BY <1>1, FindingInvariance, PTL

\* An asset is ranked no lower than its active findings.
THEOREM AssetRanksFirst == FindingsSpec => []AssetOutranksFindings
<1>1. ASSUME NEW facts \in AssetFacts, NEW f \in Fingerprints, row[f].status \in Active
      PROVE  FindingPriority(row[f], facts) <= AssetPriority(facts)
  <2> DEFINE active == {row[g] : g \in {h \in Fingerprints : row[h].status \in Active}}
  <2>1. row[f] \in active
    BY <1>1
  <2>2. /\ row[f].severity = "critical" => \E v \in active : v.severity = "critical"
        /\ row[f].again => \E v \in active : v.again
    BY <2>1
  <2>3. PICK n \in Nat : n = FactsScore(facts)
    BY DEF FactsScore, Weight, AssetFacts
  <2>4. Weight("critical_finding") = 30 /\ Weight("rediscovered_finding") = 15
    BY DEF Weight
  <2>5. PICK a \in Nat, b \in Nat, c \in Nat, d \in Nat :
          /\ a = (IF row[f].severity = "critical" THEN Weight("critical_finding") ELSE 0)
          /\ b = (IF row[f].again THEN Weight("rediscovered_finding") ELSE 0)
          /\ c = (IF \E v \in active : v.severity = "critical"
                    THEN Weight("critical_finding") ELSE 0)
          /\ d = (IF \E v \in active : v.again THEN Weight("rediscovered_finding") ELSE 0)
    BY <2>4
  <2>6. a <= c /\ b <= d
    BY <2>2, <2>4, <2>5
  <2>7. FindingPriority(row[f], facts) = n + a + b
    BY <2>3, <2>5 DEF FindingPriority
  <2>8. AssetPriority(facts) = n + (c + d) \/ AssetPriority(facts) = n + c + d
    BY <2>3, <2>5 DEF AssetPriority
  <2> QED
    BY <2>6, <2>7, <2>8
<1>2. AssetOutranksFindings
  BY <1>1 DEF AssetOutranksFindings
<1> QED
  BY <1>2, PTL

-----------------------------------------------------------------------------
(* Sessions that wait for each other.                                       *)

LEMMA LogAssociative ==
    ASSUME NEW a \in Seq(Change), NEW b \in Seq(Change), NEW c \in Seq(Change)
    PROVE  (a \o b) \o c = a \o (b \o c)
BY ConcatAssociative

\* One more entry that starts from what the log tells.
LEMMA ToldBy ==
    ASSUME NEW log \in Seq(Change), NEW e \in Change, NEW v, NEW w, Told(log, v),
           \/ /\ e.column = "status" /\ e.old = v.status /\ e.new = w.status
              /\ w.closed = v.closed
           \/ /\ e.column = "closed" /\ e.old = Flag(v.closed) /\ e.new = Flag(w.closed)
              /\ w.status = v.status
    PROVE  log \o <<e>> \in Seq(Change) /\ Told(log \o <<e>>, w)
<1>1. /\ Chained(log, "status") /\ Ends(log, "status", v.status, "absent")
      /\ Chained(log, "closed") /\ Ends(log, "closed", Flag(v.closed), "found")
  BY DEF Told
<1>2. log \o <<e>> \in Seq(Change)
  OBVIOUS
<1>3. /\ Chained(log \o <<e>>, "status")
      /\ Ends(log \o <<e>>, "status", IF e.column = "status" THEN e.new ELSE v.status, "absent")
  BY <1>1, ToldEntry
<1>4. /\ Chained(log \o <<e>>, "closed")
      /\ Ends(log \o <<e>>, "closed", IF e.column = "closed" THEN e.new ELSE Flag(v.closed), "found")
  BY <1>1, ToldEntry
<1>5. /\ (IF e.column = "status" THEN e.new ELSE v.status) = w.status
      /\ (IF e.column = "closed" THEN e.new ELSE Flag(v.closed)) = Flag(w.closed)
  OBVIOUS
<1> QED
  BY <1>2, <1>3, <1>4, <1>5 DEF Told

LEMMA ToldAgain ==
    ASSUME NEW log \in Seq(Change), NEW old \in Row, NEW r \in Scans, NEW severity \in Severities,
           Told(log, old)
    PROVE  Told(log \o RedetectionLog(old), Redetected(r, old, severity))
<1> DEFINE new == Redetected(r, old, severity)
           c == ClosedChange(TRUE, FALSE)
           st == StatusChange("resolved", "open")
           found == [old EXCEPT !.closed = FALSE]
<1>1. /\ c \in Change /\ c.column = "closed" /\ c.old = Flag(TRUE) /\ c.new = Flag(FALSE)
      /\ st \in Change /\ st.column = "status" /\ st.old = "resolved" /\ st.new = "open"
  <2>1. /\ "resolved" \in FindingStatuses \cup {"absent"} /\ "open" \in FindingStatuses
        /\ TRUE \in BOOLEAN /\ FALSE \in BOOLEAN
    BY DEF FindingStatuses
  <2>2. c \in Change /\ c.column = "closed" /\ c.old = Flag(TRUE) /\ c.new = Flag(FALSE)
    BY <2>1, Entries, Zenon
  <2>3. st \in Change /\ st.column = "status" /\ st.old = "resolved" /\ st.new = "open"
    BY DEF StatusChange, Change, FindingStatuses
  <2> QED
    BY <2>2, <2>3
<1>2. /\ new.status = (IF old.status = "resolved" THEN "open" ELSE old.status)
      /\ new.closed = FALSE /\ old.closed \in BOOLEAN
      /\ found.status = old.status /\ found.closed = FALSE
  BY DEF Redetected, Row
<1>3. RedetectionLog(old) =
        IF old.closed THEN IF old.status = "resolved" THEN <<c>> \o <<st>> ELSE <<c>>
        ELSE IF old.status = "resolved" THEN <<st>> ELSE <<>>
  BY RedetectionShape
<1> HIDE DEF new, c, st, found
<1>4. CASE old.closed /\ old.status = "resolved"
  <2>1. log \o <<c>> \in Seq(Change) /\ Told(log \o <<c>>, found)
    <3>0. old.closed = TRUE
      BY <1>2, <1>4
    <3>1. c.old = Flag(old.closed) /\ c.new = Flag(found.closed)
      BY <1>1, <1>2, <3>0, Zenon
    <3> QED
      BY <1>1, <1>2, <3>1, ToldBy
  <2>2. Told((log \o <<c>>) \o <<st>>, new)
    BY <1>1, <1>2, <1>4, <2>1, ToldBy
  <2>3. (log \o <<c>>) \o <<st>> = log \o (<<c>> \o <<st>>)
    BY <1>1
  <2> QED
    BY <1>3, <1>4, <2>2, <2>3 DEF new
<1>5. CASE old.closed /\ old.status # "resolved"
  <2>1. c.old = Flag(old.closed) /\ c.new = Flag(new.closed)
    BY <1>1, <1>2, <1>5
  <2>2. Told(log \o <<c>>, new)
    BY <1>1, <1>2, <1>5, <2>1, ToldBy
  <2> QED
    BY <1>3, <1>5, <2>2 DEF new
<1>6. CASE ~old.closed /\ old.status = "resolved"
  <2>1. Told(log \o <<st>>, new)
    BY <1>1, <1>2, <1>6, ToldBy
  <2> QED
    BY <1>3, <1>6, <2>1 DEF new
<1>7. CASE ~old.closed /\ old.status # "resolved"
  <2>1. Told(log, new)
    BY <1>2, <1>7 DEF Told
  <2>2. log \o <<>> = log
    BY ConcatEmptySeq
  <2> QED
    BY <1>3, <1>7, <2>1, <2>2 DEF new
<1> QED
  BY <1>4, <1>5, <1>6, <1>7 DEF new

\* A flush of what differs from what the session sees makes it see the object.
LEMMA FlushedView ==
    ASSUME FindingTypes, NEW s \in Sessions, NEW f \in Fingerprints, WriteInv(s, f),
           View(s, f) \in Row, NEW new \in Row, NEW columns, NEW log,
           Differing(View(s, f), new) \subseteq columns
    PROVE  Applied(Flushed(s, f, columns, new, log), row[f]) = new
<1> DEFINE before == pending[s][f]
           w == Flushed(s, f, columns, new, log)
<1>1. before \in Write /\ row[f] \in Rows
  BY DEF FindingTypes
<1>2. w.columns = before.columns \cup columns /\ w.new = new /\ w.insert = before.insert
  BY DEF Flushed
<1>3. CASE before.insert
  BY <1>2, <1>3 DEF Applied
<1>4. CASE ~before.insert
  <2>1. row[f] \in Row
    <3>1. CASE Touched(s, f)
      BY <1>1, <1>4, <3>1 DEF WriteInv, WriteOK, Rows
    <3>2. CASE ~Touched(s, f)
      BY <3>2 DEF View
    <3> QED
      BY <3>1, <3>2
  <2>2. View(s, f) = Applied(before, row[f])
    <3>1. CASE ~Touched(s, f)
      <4>1. before.columns = {} /\ ~before.insert
        BY <3>1, NoRow DEF Touched
      <4>2. Applied(before, row[f]) = row[f]
        BY <2>1, <4>1 DEF Applied, Row
      <4> QED
        BY <3>1, <4>2 DEF View
    <3> QED
      BY <3>1 DEF View
  <2> DEFINE old == View(s, f)
  <2>3. /\ old.status = IF "status" \in before.columns THEN before.new.status ELSE row[f].status
        /\ old.severity = IF "severity" \in before.columns THEN before.new.severity
                          ELSE row[f].severity
        /\ old.closed = IF "meta" \in before.columns THEN before.new.closed ELSE row[f].closed
        /\ old.detected = IF "meta" \in before.columns THEN before.new.detected
                          ELSE row[f].detected
        /\ old.again = IF "again" \in before.columns THEN before.new.again ELSE row[f].again
    BY <1>4, <2>2 DEF Applied
  <2>4. /\ "status" \notin columns => new.status = old.status
        /\ "severity" \notin columns => new.severity = old.severity
        /\ "meta" \notin columns => new.closed = old.closed /\ new.detected = old.detected
        /\ "again" \notin columns => new.again = old.again
    BY DEF Differing, Columns
  <2> HIDE DEF old
  <2>5. Applied(w, row[f]) =
          [status   |-> IF "status" \in w.columns THEN new.status ELSE row[f].status,
           severity |-> IF "severity" \in w.columns THEN new.severity ELSE row[f].severity,
           closed   |-> IF "meta" \in w.columns THEN new.closed ELSE row[f].closed,
           detected |-> IF "meta" \in w.columns THEN new.detected ELSE row[f].detected,
           again    |-> IF "again" \in w.columns THEN new.again ELSE row[f].again]
    BY <1>2, <1>4 DEF Applied
  <2>6. /\ (IF "status" \in w.columns THEN new.status ELSE row[f].status) = new.status
        /\ (IF "severity" \in w.columns THEN new.severity ELSE row[f].severity) = new.severity
        /\ (IF "meta" \in w.columns THEN new.closed ELSE row[f].closed) = new.closed
        /\ (IF "meta" \in w.columns THEN new.detected ELSE row[f].detected) = new.detected
        /\ (IF "again" \in w.columns THEN new.again ELSE row[f].again) = new.again
    <3> HIDE DEF w, before
    <3>1. \A c : c \in w.columns <=> c \in before.columns \/ c \in columns
      BY <1>2
    <3> QED
      BY <2>3, <2>4, <3>1
  <2>7. new = [status |-> new.status, severity |-> new.severity, closed |-> new.closed,
               detected |-> new.detected, again |-> new.again]
    BY DEF Row
  <2> QED
    BY <2>5, <2>6, <2>7, Zenon
<1> QED
  BY <1>1, <1>3, <1>4 DEF Write

LEMMA CountsKept ==
    ASSUME NEW s \in Sessions,
           \A f \in Fingerprints : View(s, f)'.status = View(s, f).status
    PROVE  Counts(s)' = Counts(s)
<1>1. ASSUME NEW st \in FindingStatuses
      PROVE  Cardinality({f \in Fingerprints : View(s, f).status = st})'
             = Cardinality({f \in Fingerprints : View(s, f).status = st})
  <2>1. {f \in Fingerprints : View(s, f)'.status = st}
        = {f \in Fingerprints : View(s, f).status = st}
    OBVIOUS
  <2> QED
    BY <2>1
<1> QED
  BY <1>1 DEF Counts

LEMMA TurnFacts ==
    ASSUME TurnInv, inTurn
    PROVE  /\ \A s \in Sessions : OwnTurn(s) /\ (Busy(s) => \A t \in Sessions \ {s} : ~Busy(t))
           /\ \A s \in Sessions, f \in Fingerprints :
                Told(history[f] \o pending[s][f].log, View(s, f))
           /\ \A f \in Fingerprints : Told(history[f], row[f])
           /\ \A r \in Scans : ScanTurn(r)
           /\ \A q \in Analysts : session[q].pc \in {"triage", "answer"} =>
                session[q].loaded[TriageOf[q]] = row[TriageOf[q]]
BY DEF TurnInv, OwnTurn, Sessions

\* A session that is not at work sees the table.
LEMMA IdleTurn ==
    ASSUME FindingInv', NEW s \in Sessions, ~Busy(s)',
           \A f \in Fingerprints : Told(history[f], row[f])'
    PROVE  OwnTurn(s)'
<1>1. pending'[s] = Nothing
  <2>1. CASE s \in Scans
    BY <2>1 DEF FindingInv, ScanInv
  <2>2. CASE s \in Analysts
    BY <2>2 DEF FindingInv, TriageInv, Busy
  <2> QED
    BY <2>1, <2>2 DEF Sessions
<1>2. ASSUME NEW f \in Fingerprints
      PROVE  /\ View(s, f)' = row'[f]
             /\ history'[f] \o pending'[s][f].log = history'[f]
  <2>1. pending'[s][f] = Untouched
    BY <1>1, IdleSession
  <2>2. history'[f] \in Seq(Change) /\ pending'[s][f].log = <<>>
    BY <2>1 DEF FindingInv, FindingTypes, Untouched
  <2> QED
    BY <2>1, <2>2, ConcatEmptySeq DEF View, Touched
<1>3. ASSUME NEW f \in Fingerprints
      PROVE  Told(history[f] \o pending[s][f].log, View(s, f))'
  BY <1>2
<1>4. ASSUME s \in Scans  PROVE ScanTurn(s)'
  <2>1. /\ session'[s].pc \in {"idle", "done", "failed"}
        /\ session'[s].loaded = NoRows /\ session'[s].processed = {}
    BY <1>4 DEF FindingInv, ScanInv, Busy
  <2>2. \A f \in Fingerprints : session'[s].loaded[f] = Absent
    BY <2>1, IdleSession
  <2> QED
    BY <1>2, <2>1, <2>2 DEF ScanTurn
<1>5. session'[s].pc \notin {"triage", "answer"}
  BY DEF Busy
<1> QED
  BY <1>3, <1>4, <1>5 DEF OwnTurn

\* A step of the one session at work.
LEMMA TurnStep ==
    ASSUME FindingInv', inTurn, NEW s \in Sessions,
           \A t \in Sessions \ {s} : session'[t] = session[t] /\ ~Busy(t),
           \A f \in Fingerprints : Told(history[f], row[f])',
           OwnTurn(s)'
    PROVE  TurnInv'
<1>1. \A t \in Sessions \ {s} : ~Busy(t)'
  BY DEF Busy
<1>2. \A t \in Sessions : OwnTurn(t)'
  BY <1>1, IdleTurn
<1> QED
  BY <1>1, <1>2 DEF TurnInv

LEMMA TurnEnd ==
    ASSUME FindingInv', inTurn, NEW s \in Sessions,
           \A t \in Sessions \ {s} : session'[t] = session[t] /\ ~Busy(t),
           \A f \in Fingerprints : Told(history[f], row[f])',
           ~Busy(s)'
    PROVE  TurnInv'
BY IdleTurn, TurnStep

LEMMA OthersWait ==
    ASSUME FindingInv, TurnInv, inTurn, NEW s \in Sessions, Busy(s) \/ Turn(s),
           NEW new, session' = [session EXCEPT ![s] = new]
    PROVE  /\ \A t \in Sessions \ {s} : session'[t] = session[t] /\ ~Busy(t)
           /\ session'[s] = new
<1>1. DOMAIN session = Sessions
  BY DEF FindingInv, FindingTypes
<1>2. \A t \in Sessions \ {s} : ~Busy(t)
  BY TurnFacts DEF Turn
<1> QED
  BY <1>1, <1>2

LEMMA QuietTurn ==
    ASSUME TurnInv, inTurn, UNCHANGED <<row, history, pending>>
    PROVE  /\ \A s \in Sessions, f \in Fingerprints :
                /\ View(s, f)' = View(s, f)
                /\ Told(history[f] \o pending[s][f].log, View(s, f))'
           /\ \A f \in Fingerprints : Told(history[f], row[f])'
<1>1. \A s \in Sessions, f \in Fingerprints : View(s, f)' = View(s, f)
  BY DEF View, Touched
<1> QED
  BY <1>1, TurnFacts

LEMMA CommitTurn ==
    ASSUME FindingInv, TurnInv, inTurn, NEW s \in Sessions, Commit(s, pending[s])
    PROVE  \A f \in Fingerprints :
             /\ row'[f] = View(s, f) /\ View(s, f)' = View(s, f)
             /\ Told(history[f], row[f])'
             /\ Told(history[f] \o pending[s][f].log, View(s, f))'
<1> SUFFICES ASSUME NEW f \in Fingerprints
             PROVE  /\ row'[f] = View(s, f) /\ View(s, f)' = View(s, f)
                    /\ Told(history[f], row[f])'
                    /\ Told(history[f] \o pending[s][f].log, View(s, f))'
  OBVIOUS
<1>1. /\ row'[f] = View(s, f) /\ history'[f] = history[f] \o pending[s][f].log
      /\ pending'[s][f] = Untouched
  BY DEF Commit, View, Touched, FindingInv, FindingTypes
<1>2. View(s, f)' = row'[f]
  BY <1>1 DEF View, Touched
<1>3. Told(history[f], row[f])'
  BY <1>1, TurnFacts
<1>4. history'[f] \o pending'[s][f].log = history'[f]
  <2>1. history[f] \in Seq(Change) /\ pending[s][f].log \in Seq(Change)
    BY DEF FindingInv, FindingTypes, Write
  <2>2. history'[f] \in Seq(Change) /\ pending'[s][f].log = <<>>
    BY <1>1, <2>1 DEF Untouched
  <2> QED
    BY <2>2, ConcatEmptySeq
<1> QED
  BY <1>1, <1>2, <1>3, <1>4

\* A step of a scan within its turn.
LEMMA ScanTurnStep ==
    ASSUME FindingInv, FindingInv', TurnInv, inTurn, NEW r \in Scans, Busy(r) \/ Turn(r),
           NEW new, session' = [session EXCEPT ![r] = new],
           \A f \in Fingerprints :
             Told(history[f], row[f])' /\ Told(history[f] \o pending[r][f].log, View(r, f))',
           ScanTurn(r)'
    PROVE  TurnInv'
<1>1. r \in Sessions /\ r \notin Analysts
  BY ScanFacts
<1>2. OwnTurn(r)'
  BY <1>1 DEF OwnTurn
<1> QED
  BY <1>1, <1>2, OthersWait, TurnStep

LEMMA BeginPassTurn ==
    ASSUME FindingInv, FindingInv', TurnInv, inTurn,
           NEW r \in Scans, NEW report \in Reports, NEW templates \in TemplateSets,
           BeginPass(r, report, templates)
    PROVE  TurnInv'
<1> DEFINE new == [Idle EXCEPT !.pc = IF report = <<>> THEN "reconcile" ELSE "read",
                               !.pass = session[r].pass + 1, !.todo = report,
                               !.templates = templates]
<1>1. /\ session[r].pc \in {"idle", "passed"} /\ (Busy(r) \/ Turn(r))
      /\ session' = [session EXCEPT ![r] = new] /\ NoCommit
  BY DEF BeginPass, Busy
<1>2. new.pc \in {"reconcile", "read"} /\ new.loaded = NoRows /\ new.processed = {}
  BY DEF Idle
<1> HIDE DEF new
<1>3. session'[r] = new
  BY <1>1, ScanFacts
<1>4. /\ pending[r] = Nothing /\ UNCHANGED <<row, history, pending>>
  BY <1>1, ScanFacts DEF ScanInv, Busy, NoCommit
<1>5. \A f \in Fingerprints : View(r, f)' = row'[f]
  BY <1>4, IdleSession DEF View, Touched
<1>6. ScanTurn(r)'
  BY <1>2, <1>3, <1>5, IdleSession DEF ScanTurn
<1> QED
  BY <1>1, <1>4, <1>6, QuietTurn, ScanTurnStep, ScanFacts

LEMMA SelectFindingTurn ==
    ASSUME FindingInv, FindingInv', TurnInv, inTurn, NEW r \in Scans, SelectFinding(r)
    PROVE  TurnInv'
<1>0. session[r].pc = "read" /\ Busy(r)
  BY DEF SelectFinding, Busy
<1>f. PICK f \in Fingerprints : f = Entered(r).finding
  BY <1>0, EntryFacts DEF EntryPoints
<1>3. ScanTurn(r) /\ r \in Sessions
  BY TurnFacts, ScanFacts
<1> DEFINE object == IF session[r].loaded[f] # Absent THEN session[r].loaded[f] ELSE View(r, f)
           new == [session[r] EXCEPT !.pc = "flush", !.processed = @ \cup {f},
                                     !.loaded = [NoRows EXCEPT ![f] = object]]
<1>1. session' = [session EXCEPT ![r] = new] /\ NoCommit
  BY <1>f, ScanFacts DEF SelectFinding, Session
<1>4. object = View(r, f)
  BY <1>3 DEF ScanTurn
<1>5. /\ new.pc = "flush" /\ new.loaded = [NoRows EXCEPT ![f] = object]
      /\ new.processed = session[r].processed \cup {f} /\ new.todo = session[r].todo
  BY ScanFacts DEF Session
<1> HIDE DEF object, new
<1>6. session'[r] = new /\ UNCHANGED <<row, history, pending>>
  BY <1>1, ScanFacts DEF NoCommit
<1>7. (Entered(r).finding)' = f
  BY <1>f, <1>5, <1>6 DEF Entered
<1>8. \A g \in Fingerprints : View(r, g)' = View(r, g) /\ row'[g] = row[g]
  BY <1>3, <1>6, QuietTurn
<1>9. \A g \in Fingerprints : session'[r].loaded[g] = IF g = f THEN View(r, f) ELSE Absent
  BY <1>4, <1>5, <1>6, IdleSession
<1>10. \A g \in session[r].processed : g \in Fingerprints /\ Reported(r, View(r, g))
  BY <1>0, <1>3, ScanFacts DEF ScanTurn, Session
<1>11. ScanTurn(r)'
  <2>1. ASSUME NEW g \in Fingerprints
        PROVE  /\ session'[r].loaded[g] # Absent => session'[r].loaded[g] = View(r, g)'
               /\ \/ View(r, g)'.status = row'[g].status
                  \/ row'[g].status \in {"absent", "resolved"} /\ View(r, g)'.status = "open"
    BY <1>3, <1>8, <1>9 DEF ScanTurn
  <2>2. ASSUME NEW g \in session'[r].processed
        PROVE  \/ (session[r].pc = "flush" /\ g = Entered(r).finding)'
               \/ Reported(r, View(r, g))'
    <3>1. CASE g = f
      BY <1>5, <1>6, <1>7, <3>1
    <3>2. CASE g # f
      <4>1. g \in Fingerprints /\ Reported(r, View(r, g))
        BY <1>5, <1>6, <1>10, <3>2
      <4> QED
        BY <1>8, <4>1 DEF Reported
    <3> QED
      BY <3>1, <3>2
  <2>3. session'[r].loaded[f] = View(r, f)'
    BY <1>8, <1>9
  <2>4. session'[r].pc = "flush"
    BY <1>5, <1>6
  <2> QED
    BY <1>7, <2>1, <2>2, <2>3, <2>4 DEF ScanTurn
<1> QED
  BY <1>0, <1>1, <1>3, <1>6, <1>11, QuietTurn, ScanTurnStep

LEMMA ReadForReconcileTurn ==
    ASSUME FindingInv, FindingInv', TurnInv, inTurn, NEW r \in Scans, ReadForReconcile(r)
    PROVE  TurnInv'
<1> DEFINE read == [f \in Fingerprints |-> IF f \in Missing(r) THEN View(r, f) ELSE Absent]
           new == [session[r] EXCEPT !.pc = "close", !.loaded = read]
<1>1. /\ session[r].pc = "reconcile" /\ Busy(r)
      /\ session' = [session EXCEPT ![r] = new] /\ NoCommit /\ snapshot' = snapshot
  BY ScanFacts DEF ReadForReconcile, Session, Busy
<1>2. ScanTurn(r) /\ r \in Sessions
  BY TurnFacts, ScanFacts
<1>3. \A f \in Fingerprints : read[f] = IF f \in Missing(r) THEN View(r, f) ELSE Absent
  OBVIOUS
<1> HIDE DEF read
<1>4. /\ new.pc = "close" /\ new.loaded = read /\ new.templates = session[r].templates
      /\ new.processed = session[r].processed
  BY ScanFacts DEF Session
<1> HIDE DEF new
<1>5. session'[r] = new /\ UNCHANGED <<row, history, pending>>
  BY <1>1, ScanFacts DEF NoCommit
<1>6. \A g \in Fingerprints : View(r, g)' = View(r, g) /\ row'[g] = row[g]
  BY <1>2, <1>5, QuietTurn
<1>7. \A g \in Fingerprints : g \in Missing(r)' <=> g \in Missing(r)
  <2>1. session[r].templates \subseteq Fingerprints
    BY ScanFacts DEF Session
  <2> QED
    BY <1>4, <1>5, <1>6, <2>1 DEF Missing
<1>8. \A g \in Missing(r) : View(r, g) # Absent
  BY DEF Missing, Active, Absent
<1>9. Counts(r)' = Counts(r)
  BY <1>2, <1>6, CountsKept
<1>10. ScanTurn(r)'
  <2>1. ASSUME NEW g \in Fingerprints
        PROVE  /\ session'[r].loaded[g] # Absent => session'[r].loaded[g] = View(r, g)'
               /\ session'[r].loaded[g] # Absent <=> g \in Missing(r)'
               /\ \/ View(r, g)'.status = row'[g].status
                  \/ row'[g].status \in {"absent", "resolved"} /\ View(r, g)'.status = "open"
    BY <1>2, <1>3, <1>4, <1>5, <1>6, <1>7, <1>8 DEF ScanTurn
  <2>2. ASSUME NEW g \in session'[r].processed  PROVE Reported(r, View(r, g))'
    <3>1. g \in Fingerprints /\ Reported(r, View(r, g))
      BY <1>1, <1>2, <1>4, <1>5, ScanFacts DEF ScanTurn, Session
    <3> QED
      BY <1>6, <3>1 DEF Reported
  <2>3. session'[r].processed # {} => snapshot'[ProcessOf[r]] = Counts(r)'
    BY <1>1, <1>2, <1>4, <1>5, <1>9 DEF ScanTurn
  <2>4. session'[r].pc = "close"
    BY <1>4, <1>5
  <2> QED
    BY <2>1, <2>2, <2>3, <2>4 DEF ScanTurn
<1> QED
  BY <1>1, <1>2, <1>5, <1>10, QuietTurn, ScanTurnStep

\* A flush within a turn: the log goes on and the session sees the new row.
LEMMA FlushTurn ==
    ASSUME FindingInv, TurnInv, inTurn, NEW s \in Sessions, NEW f \in Fingerprints, NEW w, NEW v,
           pending' = [pending EXCEPT ![s][f] = w], UNCHANGED <<row, history>>,
           w # Untouched, Applied(w, row[f]) = v, Told(history[f] \o w.log, v)
    PROVE  /\ View(s, f)' = v
           /\ \A g \in Fingerprints \ {f} : View(s, g)' = View(s, g)
           /\ \A g \in Fingerprints : /\ Told(history[g], row[g])'
                                      /\ Told(history[g] \o pending[s][g].log, View(s, g))'
<1>1. pending'[s][f] = w /\ \A g \in Fingerprints \ {f} : pending'[s][g] = pending[s][g]
  BY DEF FindingInv, FindingTypes
<1>2. View(s, f)' = v
  BY <1>1 DEF View, Touched
<1>3. \A g \in Fingerprints \ {f} : View(s, g)' = View(s, g)
  BY <1>1 DEF View, Touched
<1>4. ASSUME NEW g \in Fingerprints
      PROVE  Told(history[g], row[g])' /\ Told(history[g] \o pending[s][g].log, View(s, g))'
  <2>1. Told(history[g], row[g])'
    BY TurnFacts
  <2>2. CASE g = f
    BY <1>1, <1>2, <2>1, <2>2
  <2>3. CASE g # f
    <3>1. Told(history[g] \o pending[s][g].log, View(s, g))
      BY TurnFacts
    <3> QED
      BY <1>1, <1>3, <2>1, <2>3, <3>1
  <2> QED
    BY <2>2, <2>3
<1> QED
  BY <1>2, <1>3, <1>4

LEMMA FlushScanTurn ==
    ASSUME NEW r \in Scans, ScanTurn(r), NEW f \in Fingerprints, f = Entered(r).finding,
           session[r] \in Session, session[r].pc = "flush", NEW new, NEW v,
           session'[r] = new, new.pc = "evidence", new.processed = session[r].processed,
           new.loaded = [session[r].loaded EXCEPT ![f] = v],
           View(r, f)' = v, \A g \in Fingerprints \ {f} : View(r, g)' = View(r, g),
           row' = row, Reported(r, v),
           v.status = row[f].status \/ (row[f].status \in {"absent", "resolved"} /\ v.status = "open")
    PROVE  ScanTurn(r)'
<1>1. \A g \in Fingerprints :
        session'[r].loaded[g] = IF g = f THEN v ELSE session[r].loaded[g]
  BY DEF Session
<1>2. ASSUME NEW g \in Fingerprints
      PROVE  /\ session'[r].loaded[g] # Absent => session'[r].loaded[g] = View(r, g)'
             /\ \/ View(r, g)'.status = row'[g].status
                \/ row'[g].status \in {"absent", "resolved"} /\ View(r, g)'.status = "open"
  BY <1>1 DEF ScanTurn
<1>3. ASSUME NEW g \in session'[r].processed  PROVE Reported(r, View(r, g))'
  <2>1. g \in Fingerprints /\ (g # f => Reported(r, View(r, g)))
    BY DEF ScanTurn, Session
  <2> QED
    BY <2>1 DEF Reported
<1> QED
  BY <1>2, <1>3 DEF ScanTurn

LEMMA CreateFindingTurn ==
    ASSUME FindingInv, FindingInv', TurnInv, inTurn, NEW r \in Scans, CreateFinding(r)
    PROVE  TurnInv'
<1>0. session[r].pc = "flush" /\ Busy(r)
  BY DEF CreateFinding, Busy
<1>f. PICK f \in Fingerprints : f = Entered(r).finding
  BY <1>0, EntryFacts DEF EntryPoints
<1>1. ScanTurn(r) /\ r \in Sessions
  BY TurnFacts, ScanFacts
<1> DEFINE v == [status |-> "open", severity |-> Entered(r).severity,
                 closed |-> FALSE, detected |-> r, again |-> FALSE]
           e == StatusChange("absent", "open")
           w == [columns |-> Columns, new |-> v, insert |-> TRUE, log |-> <<e>>]
           new == [session[r] EXCEPT !.pc = "evidence", !.loaded[f] = v, !.made = @ \cup {f}]
<1>2. /\ row[f] = Absent /\ session[r].loaded[f] = Absent
      /\ pending' = [pending EXCEPT ![r][f] = w]
      /\ session' = [session EXCEPT ![r] = new] /\ UNCHANGED <<row, history>>
  BY <1>f, ScanFacts DEF CreateFinding, Session
<1>3. /\ v.status = "open" /\ ~v.closed /\ v.closed = FALSE /\ v.detected = r /\ v # Absent
  BY DEF Absent
<1>4. e \in Change /\ e.column = "status" /\ e.old = "absent" /\ e.new = "open"
  BY DEF StatusChange, Change, FindingStatuses
<1>5. /\ w # Untouched /\ Applied(w, row[f]) = v /\ w.log = <<e>>
  BY NoRow DEF Applied
<1>6. /\ new.pc = "evidence" /\ new.loaded = [session[r].loaded EXCEPT ![f] = v]
      /\ new.processed = session[r].processed
  BY ScanFacts DEF Session
<1>7. Told(history[f] \o w.log, v)
  <2>1. history[f] \in Seq(Change) /\ Told(history[f], row[f])
    BY ScanFacts, TurnFacts DEF FindingTypes
  <2>2. row[f].status = "absent" /\ row[f].closed = FALSE
    BY <1>2 DEF Absent
  <2> HIDE DEF e, v, w, new
  <2> QED
    BY <1>3, <1>4, <1>5, <2>1, <2>2, ToldBy
<1>8. Reported(r, v)
  BY <1>3 DEF Reported
<1> HIDE DEF e, v, w, new
<1>9. session'[r] = new
  BY <1>2, ScanFacts
<1>10. /\ View(r, f)' = v
       /\ \A g \in Fingerprints \ {f} : View(r, g)' = View(r, g)
       /\ \A g \in Fingerprints : /\ Told(history[g], row[g])'
                                  /\ Told(history[g] \o pending[r][g].log, View(r, g))'
  BY <1>1, <1>2, <1>5, <1>7, FlushTurn
<1>11. ScanTurn(r)'
  <2>1. row[f].status = "absent"
    BY <1>2 DEF Absent
  <2> QED
    BY <1>0, <1>f, <1>1, <1>2, <1>3, <1>6, <1>8, <1>9, <1>10, <2>1, FlushScanTurn, ScanFacts
<1> QED
  BY <1>0, <1>2, <1>10, <1>11, ScanTurnStep

LEMMA UpdateFindingTurn ==
    ASSUME FindingInv, FindingInv', TurnInv, inTurn, NEW r \in Scans, UpdateFinding(r)
    PROVE  TurnInv'
<1>0. session[r].pc = "flush" /\ Busy(r)
  BY DEF UpdateFinding, Busy
<1>f. PICK f \in Fingerprints : f = Entered(r).finding
  BY <1>0, EntryFacts DEF EntryPoints
<1>1. ScanTurn(r) /\ r \in Sessions
  BY TurnFacts, ScanFacts
<1> DEFINE old == session[r].loaded[f]
           v == Redetected(r, old, Entered(r).severity)
           log == RedetectionLog(old)
           columns == Differing(old, v) \cup Stamp(v)
           w == Flushed(r, f, columns, v, log)
           new == [session[r] EXCEPT !.pc = "evidence", !.loaded[f] = v]
<1>2. /\ old # Absent
      /\ pending' = [pending EXCEPT ![r][f] = w]
      /\ session' = [session EXCEPT ![r] = new] /\ UNCHANGED <<row, history>>
  BY <1>f, ScanFacts DEF UpdateFinding, Session
<1>3. /\ old = View(r, f) /\ old \in Row /\ Entered(r).severity \in Severities
  BY <1>0, <1>1, <1>2, EntryFacts, ScanFacts
     DEF ScanTurn, Session, Rows, EntryPoints, Entry
<1>4. /\ v \in Row /\ v.status = (IF old.status = "resolved" THEN "open" ELSE old.status)
      /\ ~v.closed /\ v.detected = r /\ v.status # "resolved"
  <2>1. v \in Row
    BY <1>3, RedetectionTells
  <2> QED
    BY <2>1, <1>3 DEF Redetected
<1>5. w \in Write /\ WriteOK(f, w)
  BY <1>2, <1>3, RedetectionFlush
<1>6. /\ new.pc = "evidence" /\ new.loaded = [session[r].loaded EXCEPT ![f] = v]
      /\ new.processed = session[r].processed
  BY ScanFacts DEF Session
<1>7. w.log = pending[r][f].log \o log
  BY DEF Flushed
<1>8. Told(history[f] \o w.log, v)
  <2>1. /\ history[f] \in Seq(Change) /\ pending[r][f].log \in Seq(Change)
        /\ Told(history[f] \o pending[r][f].log, old)
    BY <1>1, <1>3, ScanFacts, TurnFacts DEF FindingTypes, Write
  <2>2. history[f] \o pending[r][f].log \in Seq(Change) /\ log \in Seq(Change)
    BY <1>3, <2>1, RedetectionTells
  <2>3. Told((history[f] \o pending[r][f].log) \o log, v)
    BY <1>3, <2>1, <2>2, ToldAgain
  <2> HIDE DEF log, v, old, w
  <2>4. (history[f] \o pending[r][f].log) \o log = history[f] \o (pending[r][f].log \o log)
    BY <2>1, <2>2, LogAssociative
  <2> QED
    BY <1>7, <2>3, <2>4
<1>9. Applied(w, row[f]) = v
  <2>1. Differing(View(r, f), v) \subseteq columns
    BY <1>3
  <2> HIDE DEF v, columns
  <2> QED
    BY <1>1, <1>3, <1>4, <2>1, FlushedView, ScanFacts
<1>10. v.status = row[f].status \/ (row[f].status \in {"absent", "resolved"} /\ v.status = "open")
  BY <1>1, <1>3, <1>4 DEF ScanTurn
<1>11. w # Untouched
  <2> HIDE DEF w
  <2> QED
    BY <1>5, NoRow DEF WriteOK, Untouched
<1>12. Reported(r, v)
  BY <1>4, NoRow DEF Reported
<1> HIDE DEF old, v, log, columns, w, new
<1>13. session'[r] = new
  BY <1>2, ScanFacts
<1>14. /\ View(r, f)' = v
       /\ \A g \in Fingerprints \ {f} : View(r, g)' = View(r, g)
       /\ \A g \in Fingerprints : /\ Told(history[g], row[g])'
                                  /\ Told(history[g] \o pending[r][g].log, View(r, g))'
  BY <1>1, <1>2, <1>8, <1>9, <1>11, FlushTurn
<1>15. ScanTurn(r)'
  BY <1>0, <1>f, <1>1, <1>2, <1>6, <1>10, <1>12, <1>13, <1>14, FlushScanTurn, ScanFacts
<1> QED
  BY <1>0, <1>2, <1>14, <1>15, ScanTurnStep

LEMMA ScanTurnOn ==
    ASSUME FindingInv, NEW r \in Scans, ScanTurn(r), session[r].pc \in {"evidence", "advise"},
           NEW new, session'[r] = new, new.loaded = session[r].loaded,
           new.processed = session[r].processed, new.pc \in {"advise", "read", "reconcile"},
           \A f \in Fingerprints :
             View(r, f)' = View(r, f) /\ row'[f] \in {row[f], View(r, f)},
           new.pc = "reconcile" => snapshot'[ProcessOf[r]] = Counts(r)'
    PROVE  ScanTurn(r)'
<1>1. ASSUME NEW f \in Fingerprints
      PROVE  /\ session'[r].loaded[f] # Absent => session'[r].loaded[f] = View(r, f)'
             /\ \/ View(r, f)'.status = row'[f].status
                \/ row'[f].status \in {"absent", "resolved"} /\ View(r, f)'.status = "open"
  BY DEF ScanTurn
<1>2. ASSUME NEW f \in session'[r].processed  PROVE Reported(r, View(r, f))'
  <2>1. f \in Fingerprints /\ Reported(r, View(r, f))
    BY ScanFacts DEF ScanTurn, Session
  <2> QED
    BY <2>1 DEF Reported
<1> QED
  BY <1>1, <1>2 DEF ScanTurn

\* What a session sees, and its log, after a step that may have committed.
LEMMA MaybeCommitTurn ==
    ASSUME FindingInv, TurnInv, inTurn, NEW r \in Scans,
           NoCommit \/ Commit(r, pending[r])
    PROVE  \A f \in Fingerprints :
             /\ View(r, f)' = View(r, f) /\ row'[f] \in {row[f], View(r, f)}
             /\ Told(history[f], row[f])' /\ Told(history[f] \o pending[r][f].log, View(r, f))'
<1>1. CASE NoCommit
  BY <1>1, QuietTurn, ScanFacts DEF NoCommit
<1>2. CASE Commit(r, pending[r])
  BY <1>2, CommitTurn, ScanFacts
<1> QED
  BY <1>1, <1>2

LEMMA CreateEvidenceTurn ==
    ASSUME FindingInv, FindingInv', TurnInv, inTurn, NEW r \in Scans, CreateEvidence(r)
    PROVE  TurnInv'
<1> DEFINE new == [session[r] EXCEPT !.pc = "advise"]
<1>1. /\ session[r].pc = "evidence" /\ Busy(r)
      /\ session' = [session EXCEPT ![r] = new]
      /\ NoCommit \/ Commit(r, pending[r])
  BY ScanFacts DEF CreateEvidence, Session, Busy
<1>2. /\ new.pc = "advise" /\ new.loaded = session[r].loaded
      /\ new.processed = session[r].processed
  BY ScanFacts DEF Session
<1> HIDE DEF new
<1>3. session'[r] = new /\ ScanTurn(r)
  BY <1>1, ScanFacts, TurnFacts
<1>4. \A f \in Fingerprints :
         /\ View(r, f)' = View(r, f) /\ row'[f] \in {row[f], View(r, f)}
         /\ Told(history[f], row[f])' /\ Told(history[f] \o pending[r][f].log, View(r, f))'
  BY <1>1, MaybeCommitTurn
<1>5. ScanTurn(r)'
  BY <1>1, <1>2, <1>3, <1>4, ScanTurnOn
<1> QED
  BY <1>1, <1>4, <1>5, ScanTurnStep

LEMMA AdviseTurn ==
    ASSUME FindingInv, FindingInv', TurnInv, inTurn, DOMAIN snapshot = Processes,
           NEW r \in Scans, Advise(r)
    PROVE  TurnInv'
<1> DEFINE new == [session[r] EXCEPT
                     !.todo = Tail(@), !.pc = IF Len(session[r].todo) = 1 THEN "reconcile" ELSE "read"]
<1>1. /\ session[r].pc = "advise" /\ Busy(r)
      /\ session' = [session EXCEPT ![r] = new]
      /\ snapshot' = [snapshot EXCEPT ![ProcessOf[r]] = Counts(r)]
      /\ NoCommit \/ Commit(r, pending[r])
  BY ScanFacts DEF Advise, Recommend, Session, Busy
<1>2. /\ new.pc \in {"read", "reconcile"} /\ new.loaded = session[r].loaded
      /\ new.processed = session[r].processed
  BY ScanFacts DEF Session
<1> HIDE DEF new
<1>3. session'[r] = new /\ ScanTurn(r)
  BY <1>1, ScanFacts, TurnFacts
<1>4. \A f \in Fingerprints :
         /\ View(r, f)' = View(r, f) /\ row'[f] \in {row[f], View(r, f)}
         /\ Told(history[f], row[f])' /\ Told(history[f] \o pending[r][f].log, View(r, f))'
  BY <1>1, MaybeCommitTurn
<1>5. snapshot'[ProcessOf[r]] = Counts(r)'
  <2>1. ProcessOf[r] \in Processes
    BY FindingsAssumption, ScanFacts
  <2>2. Counts(r)' = Counts(r)
    BY <1>4, CountsKept, ScanFacts
  <2> QED
    BY <1>1, <2>1, <2>2
<1>6. ScanTurn(r)'
  BY <1>1, <1>2, <1>3, <1>4, <1>5, ScanTurnOn
<1> QED
  BY <1>1, <1>4, <1>6, ScanTurnStep

LEMMA ScanEndTurn ==
    ASSUME FindingInv, FindingInv', TurnInv, inTurn, NEW r \in Scans,
           AmbiguousHost(r) \/ EndScan(r)
    PROVE  TurnInv'
<1>1. /\ NoCommit \/ Commit(r, pending[r])
      /\ \/ session' = [session EXCEPT ![r] = [Idle EXCEPT !.pc = "done"]]
         \/ session' = [session EXCEPT ![r] = [Idle EXCEPT !.pc = "failed"]]
  BY DEF AmbiguousHost, EndScan
<1>2. PICK new \in Session :
        session' = [session EXCEPT ![r] = new] /\ new.pc \in {"done", "failed"}
  <2>1. ASSUME NEW pc \in {"done", "failed"}
        PROVE  [Idle EXCEPT !.pc = pc] \in Session /\ [Idle EXCEPT !.pc = pc].pc = pc
    BY IdleSession DEF Session, Points
  <2> QED
    BY <1>1, <2>1
<1>3. r \in Sessions /\ session'[r] = new
  BY <1>2, ScanFacts
<1>4. Busy(r) /\ ~Busy(r)'
  <2>1. Busy(r)
    BY DEF AmbiguousHost, EndScan, Busy
  <2> QED
    BY <1>2, <1>3, <2>1 DEF Busy
<1>5. \A f \in Fingerprints : Told(history[f], row[f])'
  BY <1>1, MaybeCommitTurn
<1> QED
  BY <1>2, <1>3, <1>4, <1>5, OthersWait, TurnEnd

LEMMA ClosingTurn ==
    ASSUME FindingInv, TurnInv, inTurn, NEW r \in Scans, CommitReconcile(r)
    PROVE  \A f \in Fingerprints :
             /\ IF session[r].loaded[f] # Absent
                THEN row'[f].status = View(r, f).status /\ row'[f].closed
                ELSE row'[f] = View(r, f)
             /\ Told(history[f], row[f])'
<1> DEFINE held == session[r].loaded
           closing(f) == [held[f] EXCEPT !.closed = TRUE]
           flush(f) == Flushed(r, f, {"meta"}, closing(f), ClosingLog(held[f]))
           missing == {f \in Fingerprints : held[f] # Absent}
           writes == [f \in Fingerprints |-> IF f \in missing THEN flush(f) ELSE pending[r][f]]
<1>1. session[r].pc = "close" /\ Commit(r, writes)
  BY DEF CommitReconcile
<1>2. ScanTurn(r) /\ r \in Sessions
  BY TurnFacts, ScanFacts
<1>4. ASSUME NEW f \in Fingerprints, f \in missing
      PROVE  /\ row'[f].status = View(r, f).status /\ row'[f].closed
             /\ Told(history[f], row[f])'
  <2> DEFINE old == held[f]
             v == closing(f)
             w == flush(f)
             e == ClosedChange(old.closed, TRUE)
  <2>1. old = View(r, f) /\ old \in Row /\ v \in Row /\ w \in Write /\ WriteOK(f, w)
    BY <1>2, <1>4, ClosingFlush DEF ScanTurn
  <2>2. /\ v.status = old.status /\ v.closed = TRUE /\ old.closed \in BOOLEAN
        /\ v.severity = old.severity /\ v.detected = old.detected /\ v.again = old.again
    BY <2>1 DEF Row
  <2>3. Applied(w, row[f]) = v
    <3>1. Differing(View(r, f), v) \subseteq {"meta"}
      BY <2>1, <2>2 DEF Differing, Columns
    <3>2. PICK x \in Row : x = v
      BY <2>1
    <3>3. View(r, f) \in Row /\ Differing(View(r, f), x) \subseteq {"meta"}
      BY <2>1, <3>1, <3>2
    <3>4. FindingTypes /\ r \in Sessions /\ WriteInv(r, f)
      BY ScanFacts
    <3>5. \A log : Applied(Flushed(r, f, {"meta"}, x, log), row[f]) = x
      BY <3>3, <3>4, FlushedView
    <3> QED
      BY <3>2, <3>5
  <2>4. w # Untouched
    <3> HIDE DEF w
    <3> QED
      BY <2>1, NoRow DEF WriteOK, Untouched
  <2>5. writes[f] = w /\ w.log = pending[r][f].log \o <<e>>
    BY <1>4 DEF Flushed, ClosingLog
  <2>6. e \in Change /\ e.column = "closed" /\ e.old = Flag(old.closed) /\ e.new = Flag(v.closed)
    <3>1. old.closed \in BOOLEAN /\ TRUE \in BOOLEAN /\ v.closed = TRUE
      BY <2>2
    <3> HIDE DEF old, v
    <3> QED
      BY <3>1, Entries, Zenon
  <2> HIDE DEF old, v, w, e, writes
  <2>7. Told(history[f] \o w.log, v)
    <3>1. /\ history[f] \in Seq(Change) /\ pending[r][f].log \in Seq(Change)
          /\ Told(history[f] \o pending[r][f].log, old)
      BY <1>2, <2>1, ScanFacts, TurnFacts DEF FindingTypes, Write
    <3>2. history[f] \o pending[r][f].log \in Seq(Change) /\ <<e>> \in Seq(Change)
      BY <2>6, <3>1
    <3>3. Told((history[f] \o pending[r][f].log) \o <<e>>, v)
      BY <2>2, <2>6, <3>1, <3>2, ToldBy
    <3>4. (history[f] \o pending[r][f].log) \o <<e>> = history[f] \o (pending[r][f].log \o <<e>>)
      BY <3>1, <3>2, LogAssociative
    <3> QED
      BY <2>5, <3>3, <3>4
  <2>8. row'[f] = v /\ history'[f] = history[f] \o w.log
    BY <1>1, <2>3, <2>4, <2>5 DEF Commit
  <2> QED
    BY <2>1, <2>2, <2>7, <2>8
<1>5. ASSUME NEW f \in Fingerprints, f \notin missing
      PROVE  row'[f] = View(r, f) /\ Told(history[f], row[f])'
  <2>1. writes[f] = pending[r][f]
    BY <1>5
  <2> HIDE DEF writes
  <2>2. row'[f] = View(r, f) /\ history'[f] = history[f] \o pending[r][f].log
    BY <1>1, <2>1 DEF Commit, View, Touched
  <2> QED
    BY <1>2, <2>2, TurnFacts
<1> QED
  BY <1>4, <1>5

LEMMA CommitReconcileTurn ==
    ASSUME FindingInv, FindingInv', TurnInv, inTurn, DOMAIN snapshot = Processes,
           NEW r \in Scans, CommitReconcile(r)
    PROVE  TurnInv'
<1> DEFINE missing == {f \in Fingerprints : session[r].loaded[f] # Absent}
           new == [session[r] EXCEPT !.pc = "passed", !.loaded = NoRows]
<1>1. /\ session[r].pc = "close" /\ Busy(r)
      /\ session' = [session EXCEPT ![r] = new]
      /\ pending' = [pending EXCEPT ![r] = Nothing]
      /\ snapshot' = IF missing = {} THEN snapshot
                     ELSE [snapshot EXCEPT ![ProcessOf[r]] = Counts(r)]
  BY ScanFacts DEF CommitReconcile, Session, Busy, Commit, Nothing
<1>2. ScanTurn(r) /\ r \in Sessions
  BY TurnFacts, ScanFacts
<1>3. \A f \in Fingerprints : f \in missing <=> f \in Missing(r)
  BY <1>1, <1>2 DEF ScanTurn
<1>4. \A f \in missing : row'[f].status = View(r, f).status /\ row'[f].closed
  BY ClosingTurn
<1>5. \A f \in Fingerprints : f \notin missing => row'[f] = View(r, f)
  BY ClosingTurn
<1>6. \A f \in Fingerprints : Told(history[f], row[f])'
  BY ClosingTurn
<1>7. /\ new.pc = "passed" /\ new.loaded = NoRows /\ new.templates = session[r].templates
      /\ new.processed = session[r].processed
  BY ScanFacts DEF Session
<1> HIDE DEF missing, new
<1>8. session'[r] = new /\ pending'[r] = Nothing
  BY <1>1, ScanFacts DEF FindingTypes
<1>9. ASSUME NEW f \in Fingerprints
      PROVE  /\ View(r, f)' = row'[f]
             /\ Told(history[f] \o pending[r][f].log, View(r, f))'
  <2>1. pending'[r][f] = Untouched
    BY <1>8, IdleSession
  <2>2. View(r, f)' = row'[f]
    BY <2>1 DEF View, Touched
  <2>3. history'[f] \in Seq(Change) /\ pending'[r][f].log = <<>>
    BY <2>1 DEF FindingInv, FindingTypes, Untouched
  <2> QED
    BY <1>6, <2>2, <2>3, ConcatEmptySeq
<1>10. Counts(r)' = Counts(r)
  <2>1. \A f \in Fingerprints : View(r, f)'.status = View(r, f).status
    BY <1>4, <1>5, <1>9
  <2> QED
    BY <1>2, <2>1, CountsKept
<1>11. ScanTurn(r)'
  <2>1. ASSUME NEW f \in Fingerprints
        PROVE  session'[r].loaded[f] = Absent /\ View(r, f)'.status = row'[f].status
    BY <1>7, <1>8, <1>9, IdleSession
  <2>2. ASSUME NEW f \in session'[r].processed  PROVE Reported(r, View(r, f))'
    <3>1. f \in Fingerprints /\ Reported(r, View(r, f)) /\ f \notin missing
      BY <1>1, <1>2, <1>3, <1>7, <1>8, ScanFacts DEF ScanTurn, Session, Missing
    <3> QED
      BY <1>5, <1>9, <3>1 DEF Reported
  <2>3. ASSUME NEW f \in session'[r].templates \ session'[r].processed,
               View(r, f)'.status \in Active
        PROVE  View(r, f)'.closed
    <3>1. f \in Fingerprints
      BY <1>7, <1>8, ScanFacts DEF Session
    <3>2. CASE f \in missing
      BY <1>4, <1>9, <3>1, <3>2
    <3>3. CASE f \notin missing
      BY <1>3, <1>5, <1>7, <1>8, <1>9, <2>3, <3>1, <3>3 DEF Missing
    <3> QED
      BY <3>2, <3>3
  <2>4. session'[r].processed # {} => snapshot'[ProcessOf[r]] = Counts(r)'
    <3>1. ProcessOf[r] \in Processes
      BY <1>2, FindingsAssumption
    <3> QED
      BY <1>1, <1>2, <1>7, <1>8, <1>10, <3>1 DEF ScanTurn
  <2>5. session'[r].pc = "passed"
    BY <1>7, <1>8
  <2> QED
    BY <2>1, <2>2, <2>3, <2>4, <2>5 DEF ScanTurn
<1> QED
  BY <1>1, <1>6, <1>9, <1>11, ScanTurnStep

LEMMA TriageTurn ==
    ASSUME FindingInv, FindingInv', TurnInv, inTurn, NEW q \in Analysts,
           NEW to \in FindingStatuses, Triage(q, to)
    PROVE  TurnInv'
<1>f. PICK f \in Fingerprints : f = TriageOf[q]
  BY TriageFacts
<1> DEFINE new == [Idle EXCEPT !.pc = IF row[f].status = to THEN "done" ELSE "triage",
                               !.to = to, !.loaded = [NoRows EXCEPT ![f] = row[f]]]
<1>1. /\ Turn(q) /\ session' = [session EXCEPT ![q] = new]
      /\ UNCHANGED <<row, history, pending>>
  BY <1>f DEF Triage, NoCommit
<1>2. new.loaded[f] = row[f]
  BY IdleSession DEF Idle
<1> HIDE DEF new
<1>3. session'[q] = new
  BY <1>1, TriageFacts
<1>4. \A g \in Fingerprints :
        Told(history[g], row[g])' /\ Told(history[g] \o pending[q][g].log, View(q, g))'
  BY <1>1, QuietTurn, TriageFacts
<1>5. OwnTurn(q)'
  BY <1>f, <1>1, <1>2, <1>3, <1>4, TriageFacts DEF OwnTurn
<1> QED
  BY <1>1, <1>4, <1>5, OthersWait, TurnStep, TriageFacts

LEMMA FlushTriageTurn ==
    ASSUME FindingInv, FindingInv', TurnInv, inTurn, NEW q \in Analysts, FlushTriage(q)
    PROVE  TurnInv'
<1>f. PICK f \in Fingerprints : f = TriageOf[q]
  BY TriageFacts
<1> DEFINE old == session[q].loaded[f]
           v == [old EXCEPT !.status = session[q].to]
           e == StatusChange(old.status, session[q].to)
           w == Decision(q)
           new == [session[q] EXCEPT !.pc = "answer"]
<1>1. /\ session[q].pc = "triage" /\ Busy(q)
      /\ pending' = [pending EXCEPT ![q][f] = w]
      /\ session' = [session EXCEPT ![q] = new] /\ UNCHANGED <<row, history>>
  BY <1>f, DecisionFlushed DEF Busy
<1>2. old = row[f]
  BY <1>f, <1>1, TurnFacts
<1>3. /\ old \in Row /\ w # Untouched /\ w.new = v /\ w.log = <<e>> /\ ~w.insert
      /\ w.columns = {"status"} /\ e \in Change
  BY <1>f, <1>1, DecisionFlush
<1>4. /\ v.status = session[q].to /\ v.closed = old.closed /\ v.severity = old.severity
      /\ v.detected = old.detected /\ v.again = old.again /\ v \in Row
      /\ e.column = "status" /\ e.old = old.status /\ e.new = session[q].to
  <2>1. session[q].to \in FindingStatuses
    BY TriageFacts DEF Session
  <2> QED
    BY <1>3, <2>1 DEF Row, StatusChange
<1>5. Applied(w, row[f]) = v
  <2>1. v = [status |-> v.status, severity |-> v.severity, closed |-> v.closed,
             detected |-> v.detected, again |-> v.again]
    BY <1>4 DEF Row
  <2> HIDE DEF v, w, old
  <2>2. Applied(w, row[f]) = [status |-> v.status, severity |-> old.severity,
                              closed |-> old.closed, detected |-> old.detected,
                              again |-> old.again]
    BY <1>2, <1>3 DEF Applied
  <2> QED
    BY <1>4, <2>1, <2>2
<1>6. new.pc = "answer" /\ new.loaded = session[q].loaded
  BY TriageFacts DEF Session
<1> HIDE DEF old, v, e, w, new
<1>7. Told(history[f] \o w.log, v)
  <2>1. history[f] \in Seq(Change) /\ Told(history[f], old)
    BY <1>2, TriageFacts, TurnFacts DEF FindingTypes
  <2> QED
    BY <1>3, <1>4, <2>1, ToldBy
<1>8. \A g \in Fingerprints :
        Told(history[g], row[g])' /\ Told(history[g] \o pending[q][g].log, View(q, g))'
  BY <1>1, <1>3, <1>5, <1>7, FlushTurn, TriageFacts
<1>9. session'[q] = new
  BY <1>1, TriageFacts
<1>10. OwnTurn(q)'
  BY <1>f, <1>1, <1>2, <1>6, <1>8, <1>9, TriageFacts DEF OwnTurn, old
<1> QED
  BY <1>1, <1>8, <1>10, OthersWait, TurnStep, TriageFacts

LEMMA AnswerTriageTurn ==
    ASSUME FindingInv, FindingInv', TurnInv, inTurn, NEW q \in Analysts, AnswerTriage(q)
    PROVE  TurnInv'
<1> DEFINE new == [session[q] EXCEPT !.pc = "done"]
<1>1. /\ Busy(q) /\ session' = [session EXCEPT ![q] = new]
      /\ UNCHANGED <<row, history>> \/ Commit(q, pending[q])
  BY TriageFacts DEF AnswerTriage, Session, Busy
<1>2. \A f \in Fingerprints : Told(history[f], row[f])'
  BY <1>1, CommitTurn, TurnFacts, TriageFacts
<1>3. ~Busy(q)'
  BY <1>1, TriageFacts DEF Busy, Session
<1> QED
  BY <1>1, <1>2, <1>3, OthersWait, TurnEnd, TriageFacts

LEMMA FailTurn ==
    ASSUME FindingInv, FindingInv', TurnInv, inTurn, NEW s \in Sessions, Fail(s)
    PROVE  TurnInv'
<1> DEFINE new == [Idle EXCEPT !.pc = "failed"]
<1>1. Busy(s) /\ session' = [session EXCEPT ![s] = new] /\ UNCHANGED <<row, history>>
  BY DEF Fail
<1>2. \A f \in Fingerprints : Told(history[f], row[f])'
  BY <1>1, TurnFacts
<1>3. ~Busy(s)'
  BY <1>1 DEF Busy, Idle, FindingInv, FindingTypes
<1> QED
  BY <1>1, <1>2, <1>3, OthersWait, TurnEnd

\* A restart takes the counts of a process none of whose sessions is at work.
LEMMA StillTurn ==
    ASSUME FindingInv, TurnInv, inTurn, UNCHANGED <<row, history, pending, session, inTurn>>,
           \A r \in Scans : Busy(r) => snapshot'[ProcessOf[r]] = snapshot[ProcessOf[r]]
    PROVE  TurnInv'
<1>1. \A s \in Sessions, f \in Fingerprints :
         View(s, f)' = View(s, f) /\ Told(history[f] \o pending[s][f].log, View(s, f))'
  BY QuietTurn
<1>2. ASSUME NEW r \in Scans  PROVE ScanTurn(r)'
  <2>1. ScanTurn(r) /\ r \in Sessions /\ session[r] \in Session
    BY TurnFacts, ScanFacts
  <2>2. Counts(r)' = Counts(r)
    BY <1>1, <2>1, CountsKept
  <2>3. \A f \in Fingerprints : View(r, f)' = View(r, f)
    BY <1>1, <2>1
  <2>4. ASSUME NEW f \in session'[r].processed
        PROVE  (session[r].pc = "flush" /\ f = Entered(r).finding)' \/ Reported(r, View(r, f))'
    <3>1. f \in Fingerprints
      BY <2>1 DEF Session
    <3> QED
      BY <2>1, <2>3, <3>1 DEF ScanTurn, Entered, Reported
  <2>5. session[r].pc = "flush" =>
          session'[r].loaded[(Entered(r).finding)'] = View(r, Entered(r).finding)'
    <3> SUFFICES ASSUME session[r].pc = "flush"
                 PROVE  session'[r].loaded[(Entered(r).finding)'] = View(r, Entered(r).finding)'
      OBVIOUS
    <3>1. PICK f \in Fingerprints : f = Entered(r).finding
      BY EntryFacts DEF EntryPoints
    <3>2. (Entered(r).finding)' = f
      BY <3>1 DEF Entered
    <3>3. View(r, f)' = session[r].loaded[f]
      BY <2>1, <2>3, <3>1 DEF ScanTurn
    <3> QED
      BY <3>2, <3>3
  <2>6. \A f \in Fingerprints : f \in Missing(r)' <=> f \in Missing(r)
    BY <2>1, <2>3 DEF Missing, Session
  <2>7. session[r].pc \in {"reconcile", "close", "passed"} /\ session[r].processed # {} =>
          snapshot'[ProcessOf[r]] = Counts(r)'
    BY <2>1, <2>2 DEF ScanTurn, Busy
  <2>8. ASSUME NEW f \in session[r].templates \ session[r].processed, session[r].pc = "passed",
               View(r, f)'.status \in Active
        PROVE  View(r, f)'.closed
    <3>1. f \in Fingerprints
      BY <2>1 DEF Session
    <3> QED
      BY <2>1, <2>3, <2>8, <3>1 DEF ScanTurn
  <2>9. ASSUME NEW f \in Fingerprints
        PROVE  /\ session[r].loaded[f] # Absent => session[r].loaded[f] = View(r, f)'
               /\ session[r].pc = "close" => (session[r].loaded[f] # Absent <=> f \in Missing(r)')
               /\ \/ View(r, f)'.status = row[f].status
                  \/ row[f].status \in {"absent", "resolved"} /\ View(r, f)'.status = "open"
    BY <2>1, <2>3, <2>6 DEF ScanTurn
  <2> QED
    BY <2>4, <2>5, <2>7, <2>8, <2>9 DEF ScanTurn
<1>3. \A s \in Sessions : OwnTurn(s)'
  BY <1>1, <1>2, TurnFacts DEF OwnTurn
<1> QED
  BY <1>3, TurnFacts DEF TurnInv, Busy

LEMMA RestartTurn ==
    ASSUME FindingInv, TurnInv, inTurn, NEW p \in Processes, RestartProcess(p)
    PROVE  TurnInv'
<1>1. ASSUME NEW r \in Scans, Busy(r)
      PROVE  snapshot'[ProcessOf[r]] = snapshot[ProcessOf[r]]
  BY <1>1, ScanFacts DEF RestartProcess
<1> QED
  BY <1>1, StillTurn DEF RestartProcess

LEMMA SnapshotsStay ==
    ASSUME DOMAIN snapshot = Processes, [FindingsNext]_findingVars
    PROVE  (DOMAIN snapshot = Processes)'
BY DEF FindingsNext, findingVars, ScanStep, TriageStep, BeginPass, SelectFinding, CreateFinding,
       UpdateFinding, CreateEvidence, Advise, ReadForReconcile, CommitReconcile, AmbiguousHost,
       EndScan, Triage, FlushTriage, AnswerTriage, Fail, RestartProcess

LEMMA TurnInit ==
    ASSUME FindingsInit
    PROVE  TurnInv /\ DOMAIN snapshot = Processes
<1>1. /\ \A f \in Fingerprints : row[f] = Absent /\ history[f] = <<>>
      /\ \A s \in Sessions : session[s] = Idle /\ pending[s] = Nothing
  BY DEF FindingsInit, Nothing
<1>2. ASSUME NEW f \in Fingerprints  PROVE Told(history[f], row[f])
  <2>1. row[f].status = "absent" /\ row[f].closed = FALSE
    BY <1>1 DEF Absent
  <2>2. Flag(row[f].closed) = "found"
    BY <2>1 DEF Flag
  <2> QED
    BY <1>1, <2>1, <2>2, NoEntry DEF Told, Ends
<1>3. ASSUME NEW s \in Sessions, NEW f \in Fingerprints
      PROVE  /\ View(s, f) = row[f] /\ session[s].loaded[f] = Absent
             /\ history[f] \o pending[s][f].log = history[f]
  <2>1. pending[s][f] = Untouched
    BY <1>1, IdleSession
  <2>2. pending[s][f].log = <<>> /\ history[f] = <<>>
    BY <1>1, <2>1 DEF Untouched
  <2>3. <<>> \o <<>> = <<>>
    BY ConcatEmptySeq, NoEntry
  <2> QED
    BY <1>1, <2>1, <2>2, <2>3, IdleSession DEF View, Touched, Idle
<1>4. \A s \in Sessions : ~Busy(s) /\ session[s].pc = "idle" /\ session[s].processed = {}
  BY <1>1 DEF Busy, Idle
<1>5. \A r \in Scans : ScanTurn(r)
  BY <1>3, <1>4 DEF ScanTurn, Sessions
<1>6. \A s \in Sessions : OwnTurn(s)
  BY <1>2, <1>3, <1>4, <1>5 DEF OwnTurn
<1> QED
  BY <1>2, <1>4, <1>6 DEF TurnInv, FindingsInit

LEMMA InTurnStays ==
    ASSUME [FindingsNext]_findingVars
    PROVE  inTurn' = inTurn
BY DEF FindingsNext, findingVars, ScanStep, TriageStep, BeginPass, SelectFinding, CreateFinding,
       UpdateFinding, CreateEvidence, Advise, ReadForReconcile, CommitReconcile, AmbiguousHost,
       EndScan, Triage, FlushTriage, AnswerTriage, Fail, RestartProcess

LEMMA TurnNext ==
    ASSUME FindingInv, FindingInv', TurnInv, DOMAIN snapshot = Processes,
           [FindingsNext]_findingVars
    PROVE  TurnInv'
<1> SUFFICES ASSUME inTurn  PROVE TurnInv'
  BY InTurnStays DEF TurnInv
<1>1. ASSUME NEW r \in Scans, ScanStep(r)  PROVE TurnInv'
  BY <1>1, BeginPassTurn, SelectFindingTurn, CreateFindingTurn, UpdateFindingTurn,
     CreateEvidenceTurn, AdviseTurn, ReadForReconcileTurn, CommitReconcileTurn, ScanEndTurn
     DEF ScanStep
<1>2. ASSUME NEW q \in Analysts, TriageStep(q)  PROVE TurnInv'
  BY <1>2, TriageTurn, FlushTriageTurn, AnswerTriageTurn DEF TriageStep
<1>3. ASSUME NEW s \in Sessions, Fail(s)  PROVE TurnInv'
  BY <1>3, FailTurn
<1>4. ASSUME NEW p \in Processes, RestartProcess(p)  PROVE TurnInv'
  BY <1>4, RestartTurn
<1>5. CASE UNCHANGED findingVars
  BY <1>5, StillTurn DEF findingVars
<1> QED
  BY <1>1, <1>2, <1>3, <1>4, <1>5 DEF FindingsNext

LEMMA TurnInvariance == FindingsSpec => [](FindingInv /\ TurnInv)
<1>1. FindingsInit => FindingInv /\ TurnInv /\ DOMAIN snapshot = Processes
  BY FindingInit, TurnInit
<1>2. FindingInv /\ TurnInv /\ DOMAIN snapshot = Processes /\ [FindingsNext]_findingVars
      => (FindingInv /\ TurnInv /\ DOMAIN snapshot = Processes)'
  BY FindingStep, TurnNext, SnapshotsStay
<1> QED
  BY <1>1, <1>2, PTL DEF FindingsSpec

\* Sessions that wait for each other leave a history that is a chain, a table
\* the pass has reconciled and the counts of that table
\* (process_discovered_findings, reconcile_findings,
\* generate_finding_snapshot).
THEOREM PassesReconcile == FindingsSpec => []PassesInTurnReconcile
<1>1. ASSUME FindingInv, TurnInv  PROVE PassesInTurnReconcile
  <2>1. HistoryIsAChain
    BY <1>1, TurnFacts DEF HistoryIsAChain, Told
  <2>2. ASSUME inTurn, NEW r \in Scans, session[r].pc = "passed"
        PROVE  \A f \in Fingerprints : View(r, f) = row[f]
    <3>1. pending[r] = Nothing
      BY <1>1, <2>2, ScanFacts DEF ScanInv
    <3> QED
      BY <3>1, IdleSession DEF View, Touched
  <2>3. PassIsReconciled
    <3> SUFFICES ASSUME inTurn, NEW r \in Scans, session[r].pc = "passed"
                 PROVE  /\ \A f \in session[r].processed : Reported(r, row[f])
                        /\ \A f \in session[r].templates \ session[r].processed :
                             row[f].status \in Active => row[f].closed
      BY DEF PassIsReconciled, Reported
    <3>1. ScanTurn(r) /\ session[r] \in Session
      BY <1>1, ScanFacts, TurnFacts
    <3> QED
      BY <2>2, <3>1 DEF ScanTurn, Session
  <2>4. SnapshotAfterPass
    BY <1>1, TurnFacts DEF SnapshotAfterPass, ScanTurn
  <2> QED
    BY <2>1, <2>3, <2>4 DEF PassesInTurnReconcile
<1> QED
  BY <1>1, TurnInvariance, PTL

\* In turn, a scan sets no status but that of a finding it inserts or reopens
\* (process_discovered_findings, update_status).
THEOREM TriageIsRespected == FindingsSpec => ScansRespectTriage
<1> DEFINE Respected(f) ==
             row'[f].status # row[f].status =>
               \/ row[f].status \in {"absent", "resolved"} /\ row'[f].status = "open"
               \/ \E q \in Analysts : /\ TriageOf[q] = f
                                      /\ session[q].pc = "answer"
                                      /\ row'[f].status = session[q].to
           Respects == inTurn => \A f \in Fingerprints : Respected(f)
<1>1. ASSUME FindingInv, TurnInv, FindingsNext  PROVE Respects
  <2> SUFFICES ASSUME inTurn, NEW f \in Fingerprints  PROVE Respected(f)
    OBVIOUS
  <2>1. ASSUME row'[f] = row[f]  PROVE Respected(f)
    BY <2>1
  <2>2. ASSUME NEW r \in Scans, row'[f].status = View(r, f).status  PROVE Respected(f)
    <3>1. ScanTurn(r)
      BY <1>1, TurnFacts
    <3> QED
      BY <2>2, <3>1 DEF ScanTurn
  <2>3. ASSUME NEW r \in Scans, NoCommit \/ Commit(r, pending[r])  PROVE Respected(f)
    <3>1. row'[f] \in {row[f], View(r, f)}
      BY <1>1, <2>3, MaybeCommitTurn
    <3> HIDE DEF Respected
    <3> QED
      BY <2>1, <2>2, <3>1
  <2>4. ASSUME NEW r \in Scans, CommitReconcile(r)  PROVE Respected(f)
    <3>1. row'[f].status = View(r, f).status
      BY <1>1, <2>4, ClosingTurn
    <3> HIDE DEF Respected
    <3> QED
      BY <2>2, <3>1
  <2>5. ASSUME NEW q \in Analysts, AnswerTriage(q)  PROVE Respected(f)
    <3>1. session[q].pc = "answer" /\ (row' = row \/ Commit(q, pending[q]))
      BY <2>5 DEF AnswerTriage
    <3>2. CASE row' = row
      BY <3>2
    <3>3. CASE Commit(q, pending[q])
      <4>1. row'[f] = View(q, f)
        BY <1>1, <3>3, CommitTurn, TriageFacts
      <4>2. pending[q] = [Nothing EXCEPT ![TriageOf[q]] = Decision(q)]
        BY <1>1, <3>1, TriageFacts DEF TriageInv
      <4>3. CASE f = TriageOf[q]
        <5>1. pending[q][f] = Decision(q)
          BY <4>2, <4>3, IdleSession
        <5>2. /\ Decision(q) # Untouched /\ ~Decision(q).insert
              /\ "status" \in Decision(q).columns /\ Decision(q).new.status = session[q].to
          <6>1. session[q].loaded[TriageOf[q]] \in Row
            BY <1>1, <3>1, TriageFacts DEF TriageInv
          <6> QED
            BY <1>1, <3>1, <6>1, DecisionFlush DEF Row
        <5>3. row'[f].status = session[q].to
          BY <4>1, <5>1, <5>2 DEF View, Touched, Applied
        <5> QED
          BY <3>1, <4>3, <5>3
      <4>4. CASE f # TriageOf[q]
        <5>1. pending[q][f] = Untouched
          BY <4>2, <4>4, IdleSession
        <5> QED
          BY <4>1, <5>1 DEF View, Touched
      <4> QED
        BY <4>3, <4>4
    <3> QED
      BY <3>1, <3>2, <3>3
  <2> HIDE DEF Respected
  <2>6. ASSUME NEW r \in Scans, ScanStep(r)  PROVE Respected(f)
    <3>1. row' = row \/ NoCommit \/ Commit(r, pending[r]) \/ CommitReconcile(r)
      BY <2>6 DEF ScanStep, BeginPass, SelectFinding, CreateFinding, UpdateFinding,
              CreateEvidence, Advise, Recommend, ReadForReconcile, AmbiguousHost, EndScan
    <3> QED
      BY <2>1, <2>3, <2>4, <3>1
  <2>7. ASSUME NEW q \in Analysts, TriageStep(q)  PROVE Respected(f)
    <3>1. row' = row \/ AnswerTriage(q)
      BY <2>7 DEF TriageStep, Triage, FlushTriage, NoCommit
    <3> QED
      BY <2>1, <2>5, <3>1
  <2> QED
    BY <1>1, <2>1, <2>6, <2>7 DEF FindingsNext, Fail, RestartProcess
<1>2. FindingInv /\ TurnInv /\ [FindingsNext]_findingVars =>
        [inTurn => \A f \in Fingerprints : row'[f].status # row[f].status =>
           \/ row[f].status \in {"absent", "resolved"} /\ row'[f].status = "open"
           \/ \E q \in Analysts : /\ TriageOf[q] = f
                                  /\ session[q].pc = "answer"
                                  /\ row'[f].status = session[q].to]_findingVars
  BY <1>1
<1> QED
  BY <1>2, TurnInvariance, PTL DEF FindingsSpec, ScansRespectTriage
=============================================================================
