-------------------------------- MODULE RunLog --------------------------------
(***************************************************************************)
(* The run log of one dispatched execution plan (internal/plans/runs).      *)
(*                                                                         *)
(* The program appends typed events to a .jsonl file and reads the file     *)
(* back by folding applyEvent over it (EventsToSnapshot).  A log is         *)
(* represented here by the result of that fold, the Snapshot, together     *)
(* with what startup triage reads directly, the type of the last event.    *)
(* There is one operator per event: it is both "append this event" and the *)
(* branch of applyEvent that a later replay takes for it.                  *)
(*                                                                         *)
(* Steps and gates are numbered in plan order, 0 stands for "none".        *)
(***************************************************************************)
EXTENDS Naturals

CONSTANTS
    NSteps,     \* number of steps in plan.Steps
    NGates,     \* number of gates in plan.Gates
    AfterStep,  \* AfterStep[g] is the step gate g is configured after
    Path        \* artifact paths a step can produce

Step == 1..NSteps
Gate == 1..NGates

\* ExecutionPlan.Validate: at least one step, every gate names a known step
ASSUME PlanShape ==
    /\ NSteps \in Nat \ {0}
    /\ NGates \in Nat
    /\ AfterStep \in [Gate -> Step]

Status == {"pending", "running", "completed", "failed"}

EventType ==
    {"none", "run_started", "step_queued", "step_started", "step_completed",
     "step_failed", "gate_opened", "gate_resolved", "run_completed",
     "run_aborted"}

Action == {"approve", "revise", "abort"}

Reason == {"", "by user", "stuck", "anthem restarted"}

\* runs.Snapshot, plus the tail event (ActiveRun.TailType) and its resolution
Snapshot ==
    [status     : [Step -> Status],
     artifacts  : [Step -> SUBSET Path],
     openGate   : 0..NGates,
     failure    : 0..NSteps,
     terminal   : BOOLEAN,
     reason     : Reason,
     tail       : EventType,
     resolution : Action \cup {""}]

\* The reduction of a log file that does not exist yet
NoLog ==
    [status     |-> [s \in Step |-> "pending"],
     artifacts  |-> [s \in Step |-> {}],
     openGate   |-> 0,
     failure    |-> 0,
     terminal   |-> FALSE,
     reason     |-> "",
     tail       |-> "none",
     resolution |-> ""]

\* Mutant: the failure banner stays
ClearedFailure_never(snap, s) == snap.failure

\* clearOpenFailureFor: the failure banner goes when its step moves on
ClearedFailure(snap, s) == IF snap.failure = s THEN 0 ELSE snap.failure

RunStarted == [NoLog EXCEPT !.tail = "run_started"]

StepQueued(snap, s) ==
    [snap EXCEPT !.status[s] = "pending", !.failure = ClearedFailure(snap, s),
                 !.tail = "step_queued", !.resolution = ""]

StepStarted(snap, s) ==
    [snap EXCEPT !.status[s] = "running", !.failure = ClearedFailure(snap, s),
                 !.tail = "step_started", !.resolution = ""]

StepCompleted(snap, s, arts) ==
    [snap EXCEPT !.status[s] = "completed", !.artifacts[s] = arts,
                 !.failure = ClearedFailure(snap, s),
                 !.tail = "step_completed", !.resolution = ""]

StepFailed(snap, s) ==
    [snap EXCEPT !.status[s] = "failed", !.failure = s,
                 !.tail = "step_failed", !.resolution = ""]

GateOpened(snap, g) ==
    [snap EXCEPT !.openGate = g, !.tail = "gate_opened", !.resolution = ""]

\* Mutant: the reducer forgets the revise
GateResolved_forgets(snap, g, action) ==
    [snap EXCEPT !.openGate = IF snap.openGate = g THEN 0 ELSE snap.openGate,
                 !.tail = "gate_resolved", !.resolution = action]

\* A revise flips the gate's step back to pending, but only when the event
\* names the gate the snapshot holds open
GateResolved(snap, g, action) ==
    LET closes == snap.openGate = g
        s      == AfterStep[g]
    IN  [snap EXCEPT
            !.openGate   = IF closes THEN 0 ELSE snap.openGate,
            !.status[s]  = IF closes /\ action = "revise" THEN "pending" ELSE @,
            !.tail       = "gate_resolved",
            !.resolution = action]

RunCompleted(snap) ==
    [snap EXCEPT !.terminal = TRUE, !.openGate = 0, !.failure = 0,
                 !.tail = "run_completed", !.resolution = ""]

RunAborted(snap, why) ==
    [snap EXCEPT !.terminal = TRUE, !.reason = why, !.openGate = 0,
                 !.failure = 0, !.tail = "run_aborted", !.resolution = ""]
===============================================================================
