------------------------------- MODULE RunLog -------------------------------
(***************************************************************************)
(* What the workflow engine promises about the event log of ONE scan run,  *)
(* whatever the worker that writes it goes through.  The log is the rows   *)
(* of workflow_events whose correlation_id is the run, in insertion order. *)
(* It opens with workflow.started (or the refusal, a lone workflow.failed),*)
(* brackets the steps in order, one at a time, and is closed by at most    *)
(* one workflow.completed / failed / cancelled.  Deleting the workflow     *)
(* erases the log (ON DELETE CASCADE) and nothing is ever logged again.    *)
(***************************************************************************)
EXTENDS Integers, Sequences

VARIABLES log,    \* Seq of [type, step]; steps count from 1, 0 is "no step"
          purged  \* TRUE once the workflow, and with it the log, is deleted

logVars == <<log, purged>>

Closing == {"workflow.completed", "workflow.failed", "workflow.cancelled"}

LastEvent == log[Len(log)]

\* The run has begun and none of its closing events has been written.
Open == log # <<>> /\ LastEvent.type \notin Closing

InStep == Open /\ LastEvent.type = "step.started"

Entry(t, k) == [type |-> t, step |-> k]

Write(e) == log' = Append(log, e) /\ UNCHANGED purged

-----------------------------------------------------------------------------
LogInit == log = <<>> /\ purged = FALSE

Begin     == ~purged /\ log = <<>> /\ Write(Entry("workflow.started", 0))

\* Refused before the first step: scope gone, or owned by somebody else.
Refuse    == ~purged /\ log = <<>> /\ Write(Entry("workflow.failed", 0))

OpenStep  == ~purged /\ Open /\ ~InStep
             /\ Write(Entry("step.started", LastEvent.step + 1))

CloseStep == ~purged /\ InStep
             /\ Write(Entry("step.completed", LastEvent.step))

\* A run completes or is cancelled between steps and fails inside one.
Complete  == ~purged /\ Open /\ ~InStep
             /\ Write(Entry("workflow.completed", 0))
CancelRun == ~purged /\ Open /\ ~InStep
             /\ Write(Entry("workflow.cancelled", LastEvent.step))
FailRun   == ~purged /\ InStep
             /\ Write(Entry("workflow.failed", LastEvent.step))

Purge     == ~purged /\ purged' = TRUE /\ log' = <<>>

LogNext == Begin \/ Refuse \/ OpenStep \/ CloseStep \/ Complete \/ CancelRun
           \/ FailRun \/ Purge

LogStep == LogNext \/ UNCHANGED logVars

LogSpec == LogInit /\ [][LogNext]_logVars
=============================================================================
