------------------------------ MODULE PlanRunner ------------------------------
(***************************************************************************)
(* One dispatched run of a compiled plan: the PlanRunner goroutine          *)
(* (internal/execute/runner.go), the channel listener that routes the       *)
(* user's gate clicks to it (Orchestrator.routeGateResolution), the run log *)
(* it writes, and what a restart of the process makes of that log           *)
(* (triageRunLog, reconstructGateParkedRunner, ResumeAtGate).               *)
(*                                                                         *)
(* One append to the log is one step, together with the update of the       *)
(* runner's own memory that follows it: nothing reads the memory in between *)
(* except the listener, for which reading before the step is the same.      *)
(* The process can crash between any two steps.                             *)
(***************************************************************************)
EXTENDS RunLog

CONSTANTS
    DependsOn,      \* DependsOn[s] is the step s waits for, or 0
    Shown,          \* paths that match review.artifact_globs
    PartialRevise,  \* reviewSupportsPartial of the plan's guests
    MaxClicks       \* bound on the clicks the user makes

\* ExecutionPlan.Validate: dependencies name known steps and form no cycle
ASSUME PlanDependencies ==
    /\ DependsOn \in [Step -> 0..NSteps]
    /\ \E rank \in [Step -> Step] :
           \A s \in Step : DependsOn[s] # 0 => rank[DependsOn[s]] < rank[s]

ASSUME ReviewConfig ==
    /\ Shown \subseteq Path
    /\ PartialRevise \in BOOLEAN
    /\ MaxClicks \in Nat

VARIABLES
    pc,         \* where the runner goroutine is
    status,     \* r.plan.Steps[].Status
    gates,      \* r.plan.Gates, by number
    artifacts,  \* r.artifacts
    preserved,  \* r.preservedArtifacts
    revision,   \* steps that have an entry in r.revisionState
    step,       \* the step runStep works on
    gate,       \* the gate of that step, 0 when it has none
    review,     \* the artifacts handed to the gate (filtered or replayed)
    taken,      \* the resolution just taken from gateCh
    gateCh,     \* r.gateCh, a channel with one buffered slot
    sending,    \* the message the listener is blocked on sending, or <<>>
    snap,       \* the run log, reduced
    chips,      \* steps whose owner's chip is in the Prism roster
    clicks,     \* clicks made so far
    approved,   \* history: gates approved since their step last completed
    keep        \* history: what the user has not flagged, per step

runner   == <<pc, status, gates, artifacts, preserved, revision, step, gate,
              review, taken>>
channel  == <<gateCh, sending, clicks>>
history  == <<approved, keep>>
vars     == <<runner, channel, snap, chips, history>>

PC == {"idle", "drive", "agent", "gating", "gate", "requeue", "aborting",
       "failed", "exit", "down"}

Resolution == [action : Action, flagged : SUBSET Path]
Message    == [gate : 0..NGates, step : 0..NSteps,
               action : Action, flagged : SUBSET Path]
NoResolution == [action |-> "approve", flagged |-> {}]

-------------------------------------------------------------------------------
(* Plan helpers (internal/execute/plan.go)                                  *)

\* The first member of S in plan order: a set of one, or empty when S is
First(S) == {n \in S : \A m \in S : n <= m}

\* Mutants: only looks forward from the step last run; forgets dependencies
Ready_forward == {s \in Step : /\ s > step /\ status[s] = "pending"
                               /\ DependsOn[s] # 0 => status[DependsOn[s]] = "completed"}
Ready_any == {s \in Step : status[s] = "pending"}

\* Steps NextPendingStep may return: pending, dependency absent or completed
Ready == {s \in Step : /\ status[s] = "pending"
                       /\ DependsOn[s] # 0 => status[DependsOn[s]] = "completed"}

NextPendingStep == First(Ready)

AllCompleted == \A s \in Step : status[s] = "completed"

\* Mutant: looks the gate up in the compiled plan, skipped ones included
GateAfterStep_skipped(gs, s) == First({g \in Gate : AfterStep[g] = s})

GateAfterStep(gs, s) == First({g \in gs : AfterStep[g] = s})

-------------------------------------------------------------------------------
Init ==
    /\ pc = "idle"
    /\ status = [s \in Step |-> "pending"]
    /\ gates \in SUBSET Gate
    /\ artifacts = [s \in Step |-> {}]
    /\ preserved = [s \in Step |-> {}]
    /\ revision = {}
    /\ step = 0 /\ gate = 0 /\ review = {} /\ taken = NoResolution
    /\ gateCh = <<>> /\ sending = <<>> /\ clicks = 0
    /\ snap = NoLog
    /\ chips = {}
    /\ approved = {} /\ keep = [s \in Step |-> {}]

\* Run: the header is logged before the plan becomes visible
Start ==
    /\ pc = "idle"
    /\ snap' = RunStarted
    /\ pc' = "drive"
    /\ UNCHANGED <<status, gates, artifacts, preserved, revision, step, gate,
                   review, taken, channel, chips, history>>

\* driveSteps with a ready step, and runStep up to the call of the agent
StartStep ==
    /\ pc = "drive"
    /\ step' \in NextPendingStep
    /\ snap' = StepStarted(snap, step')
    /\ status' = [status EXCEPT ![step'] = "running"]
    /\ chips' = chips \cup {step'}
    /\ approved' = {g \in approved : AfterStep[g] # step'}
    /\ pc' = "agent"
    /\ UNCHANGED <<gates, artifacts, preserved, revision, gate, review, taken,
                   channel, keep>>

\* driveSteps with no ready step: the plan is complete, or it is stuck
FinishRun ==
    /\ pc = "drive" /\ NextPendingStep = {}
    /\ snap' = IF AllCompleted THEN RunCompleted(snap)
                               ELSE RunAborted(snap, "stuck")
    /\ pc' = "exit"
    /\ UNCHANGED <<status, gates, artifacts, preserved, revision, step, gate,
                   review, taken, channel, chips, history>>

\* Mutant: the preserved set is dropped
Merged_fresh(s, collected) == collected

\* mergePreservedWithCollected: the preserved set is used once, a path the
\* agent produced again replaces the preserved one
Merged(s, collected) == collected \cup preserved[s]

\* The agent succeeds: runStep's success path up to the gate lookup
CompleteStep ==
    /\ pc = "agent"
    /\ \E collected \in SUBSET Path :
          LET merged == Merged(step, collected) IN
          /\ artifacts' = [artifacts EXCEPT ![step] = merged]
          /\ snap' = StepCompleted(snap, step, merged)
    /\ preserved' = [preserved EXCEPT ![step] = {}]
    /\ keep' = [keep EXCEPT ![step] = {}]
    /\ status' = [status EXCEPT ![step] = "completed"]
    /\ \/ /\ gate' \in GateAfterStep(gates, step)
          /\ pc' = "gating"
          /\ UNCHANGED chips
       \/ /\ GateAfterStep(gates, step) = {}
          /\ gate' = 0
          /\ pc' = "drive"
          /\ chips' = chips \ {step}
    /\ UNCHANGED <<gates, revision, step, review, taken, channel, approved>>

\* Mutant: a failed step is queued again at once
FailStep_retry ==
    /\ pc = "agent"
    /\ snap' = StepQueued(snap, step)
    /\ status' = [status EXCEPT ![step] = "pending"]
    /\ pc' = "drive"
    /\ UNCHANGED <<gates, artifacts, preserved, revision, step, gate, review,
                   taken, channel, chips, history>>

\* The agent run errs, exits non-zero or reports blocked_on
FailStep ==
    /\ pc = "agent"
    /\ snap' = StepFailed(snap, step)
    /\ status' = [status EXCEPT ![step] = "failed"]
    /\ pc' = "failed"
    /\ UNCHANGED <<gates, artifacts, preserved, revision, step, gate, review,
                   taken, channel, chips, history>>

\* handleGate up to the wait: only artifacts the renderer accepts are shown
OpenGate ==
    /\ pc = "gating"
    /\ review' = artifacts[step] \cap Shown
    /\ snap' = GateOpened(snap, gate)
    /\ pc' = "gate"
    /\ UNCHANGED <<status, gates, artifacts, preserved, revision, step, gate,
                   taken, channel, chips, history>>

-------------------------------------------------------------------------------
(* A resolution arrives.  The runner takes whatever gateCh holds: neither   *)
(* TargetGateID nor TargetStepID is compared with what it waits for.        *)

\* Mutant: the message is looked at and left in the channel
Receive_peek == /\ gateCh # <<>>
                /\ taken' = [action  |-> gateCh[1].action,
                             flagged |-> gateCh[1].flagged]
                /\ UNCHANGED channel

Receive == /\ gateCh # <<>>
           /\ taken' = [action  |-> gateCh[1].action,
                        flagged |-> gateCh[1].flagged]
           /\ gateCh' = <<>>
           /\ UNCHANGED <<sending, clicks>>

\* clearPartialReviseState
ClearReviseState(s) ==
    /\ preserved' = [preserved EXCEPT ![s] = {}]
    /\ revision' = revision \ {s}
    /\ keep' = [keep EXCEPT ![s] = {}]

\* Mutant: a revise continues the chain without queueing the step again
AfterAnswer_skip(action) == IF action = "abort" THEN "aborting" ELSE "drive"

\* The three branches of handleGate and ResumeAtGate
AfterAnswer(action) ==
    CASE action = "approve" -> "drive"
      [] action = "revise"  -> "requeue"
      [] action = "abort"   -> "aborting"

\* handleGate / ResumeAtGate: gate_resolved is logged, then the action applied
ResolveGate ==
    /\ pc = "gate"
    /\ Receive
    /\ snap' = GateResolved(snap, gate, taken'.action)
    /\ pc' = AfterAnswer(taken'.action)
    /\ \/ /\ taken'.action = "approve"
          /\ ClearReviseState(step)
          /\ chips' = chips \ {step}
          /\ approved' = approved \cup {gate}
          /\ gate' = 0
       \/ /\ taken'.action = "revise"
          /\ UNCHANGED <<preserved, revision, keep, chips, approved, gate>>
       \/ /\ taken'.action = "abort"
          /\ ClearReviseState(step)
          /\ UNCHANGED <<chips, approved, gate>>
    /\ UNCHANGED <<status, gates, artifacts, step, review>>

\* applyRevise: flagged artifacts make the revise selective, unless the
\* guest's review spec forbids it
Selective == taken.flagged # {} /\ PartialRevise

\* handleGate's revise branch: step_queued, then applyRevise
Requeue ==
    /\ pc = "requeue"
    /\ snap' = StepQueued(snap, step)
    /\ status' = [status EXCEPT ![step] = "pending"]
    /\ preserved' = [preserved EXCEPT
                        ![step] = IF Selective THEN review \ taken.flagged ELSE {}]
    /\ keep' = [keep EXCEPT
                   ![step] = IF Selective THEN artifacts[step] \ taken.flagged ELSE {}]
    /\ revision' = revision \cup {step}
    /\ gate' = 0
    /\ pc' = "drive"
    /\ UNCHANGED <<gates, artifacts, step, review, taken, channel, chips, approved>>

\* handleGate's abort branch after gate_resolved
AbortAtGate ==
    /\ pc = "aborting"
    /\ snap' = RunAborted(snap, "by user")
    /\ chips' = chips \ {step}
    /\ pc' = "exit"
    /\ UNCHANGED <<status, gates, artifacts, preserved, revision, step, gate,
                   review, taken, channel, history>>

\* handleStepFailure's wait: approve and revise both queue the step again
ResolveFailure ==
    /\ pc = "failed"
    /\ Receive
    /\ \/ /\ taken'.action \in {"approve", "revise"}
          /\ snap' = StepQueued(snap, step)
          /\ status' = [status EXCEPT ![step] = "pending"]
          /\ pc' = "drive"
          /\ UNCHANGED chips
       \/ /\ taken'.action = "abort"
          /\ snap' = RunAborted(snap, "by user")
          /\ chips' = chips \ {step}
          /\ pc' = "exit"
          /\ UNCHANGED status
    /\ UNCHANGED <<gates, artifacts, preserved, revision, step, gate, review, history>>

-------------------------------------------------------------------------------
(* The user and the channel listener.                                       *)

\* activePlanRunner is set from the dispatch until the goroutine returns
RunnerRegistered == pc \notin {"idle", "exit", "down"}

FailedSteps == {s \in Step : status[s] = "failed"}
DoneGates   == {g \in gates : status[AfterStep[g]] = "completed"}

\* routeGateResolution: where a click goes, given the gate it names (0 for
\* the text form); a click that finds no target only gets a reply
Targets(named) ==
    IF FailedSteps # {} THEN {[gate |-> 0, step |-> s] : s \in First(FailedSteps)}
    ELSE {[gate |-> g, step |-> 0] :
             g \in IF named # 0 THEN gates \cap {named} ELSE First(DoneGates)}

\* The listener handles one message at a time and then blocks in the send
Click ==
    /\ RunnerRegistered /\ sending = <<>> /\ clicks < MaxClicks
    /\ \E named \in 0..NGates, action \in Action, flagged \in SUBSET Path :
          /\ named = 0 => flagged = {}
          /\ action # "revise" => flagged = {}
          /\ \E t \in Targets(named) :
                sending' = <<[gate |-> t.gate, step |-> t.step,
                              action |-> action, flagged |-> flagged]>>
    /\ clicks' = clicks + 1
    /\ UNCHANGED <<runner, gateCh, snap, chips, history>>

\* The send completes once the buffered slot is free
Deliver ==
    /\ sending # <<>> /\ gateCh = <<>>
    /\ gateCh' = sending
    /\ sending' = <<>>
    /\ UNCHANGED <<clicks, runner, snap, chips, history>>

-------------------------------------------------------------------------------
(* Crash and restart.                                                       *)

\* The process dies (or its context is cancelled, which logs nothing either)
Crash ==
    /\ RunnerRegistered
    /\ pc' = "down"
    /\ gateCh' = <<>> /\ sending' = <<>>
    /\ preserved' = [s \in Step |-> {}]
    /\ revision' = {}
    /\ keep' = [s \in Step |-> {}]
    /\ UNCHANGED <<status, gates, artifacts, step, gate, review, taken, clicks,
                   snap, chips, approved>>

\* triageRunLog with a gate_opened tail, reconstructGateParkedRunner and
\* ResumeAtGate: the plan is rebuilt from the snapshot with only the open gate
ResumeAtGate ==
    /\ pc = "down"
    /\ snap.tail = "gate_opened" /\ snap.openGate # 0
    /\ status' = snap.status
    /\ artifacts' = snap.artifacts
    /\ gates' = {snap.openGate}
    /\ gate' = snap.openGate
    /\ step' = AfterStep[snap.openGate]
    /\ review' = snap.artifacts[step']
    /\ pc' = "gate"
    /\ UNCHANGED <<preserved, revision, taken, channel, snap, chips, history>>

\* triageRunLog with any other non-terminal tail
AbortDangling ==
    /\ pc = "down"
    /\ ~snap.terminal /\ snap.tail # "gate_opened"
    /\ snap' = RunAborted(snap, "anthem restarted")
    /\ pc' = "exit"
    /\ UNCHANGED <<status, gates, artifacts, preserved, revision, step, gate,
                   review, taken, channel, chips, history>>

-------------------------------------------------------------------------------
RunnerStep == \/ Start \/ StartStep \/ FinishRun \/ CompleteStep \/ FailStep
              \/ OpenGate \/ ResolveGate \/ Requeue \/ AbortAtGate
              \/ ResolveFailure

Restart == ResumeAtGate \/ AbortDangling

Next == RunnerStep \/ Click \/ Deliver \/ Crash \/ Restart

Spec == Init /\ [][Next]_vars

\* The goroutine and the blocked send are scheduled, agents return (the
\* driver kills a stalled one), and a crashed process is started again.
\* Nothing obliges the user to click.
FairSpec == /\ Spec
            /\ WF_vars(RunnerStep)
            /\ WF_vars(Deliver)
            /\ WF_vars(Restart)
-------------------------------------------------------------------------------
(* Properties.                                                              *)

\* Every variable has its type.  (The one type invariant of this module.)
TypeOK ==
    /\ pc \in PC
    /\ status \in [Step -> Status]
    /\ gates \in SUBSET Gate
    /\ artifacts \in [Step -> SUBSET Path]
    /\ preserved \in [Step -> SUBSET Path]
    /\ revision \in SUBSET Step
    /\ step \in 0..NSteps
    /\ gate \in 0..NGates
    /\ review \in SUBSET Path
    /\ taken \in Resolution
    /\ gateCh \in {<<>>} \cup {<<m>> : m \in Message}
    /\ sending \in {<<>>} \cup {<<m>> : m \in Message}
    /\ snap \in Snapshot
    /\ chips \in SUBSET Step
    /\ clicks \in 0..MaxClicks
    /\ approved \in SUBSET Gate
    /\ keep \in [Step -> SUBSET Path]

\* A step that has left "pending" has its dependency completed, in every
\* interleaving of clicks, revises, failures and restarts: NextPendingStep is
\* only ever asked when a revise cannot have un-completed a dependency.
DependencyRespected ==
    \A s \in Step : status[s] # "pending" /\ DependsOn[s] # 0
                        => status[DependsOn[s]] = "completed"

\* While a step's agent runs, every completed step that still has a gate in the
\* runner's plan has had that gate approved since it last completed: a revise,
\* a failure or a restart never lets the chain run past an unanswered gate.
GateRespected ==
    pc = "agent" =>
        \A s \in Step : status[s] = "completed" => GateAfterStep(gates, s) \subseteq approved

\* The log replays to the runner's own view (log-first discipline): equal
\* statuses and artifacts except between gate_resolved and step_queued of a
\* revise, the open gate and the open failure are exactly what it waits on.
ReplayAgrees ==
    pc \notin {"idle", "down", "exit"} =>
        /\ \A s \in Step : snap.status[s] = IF pc = "requeue" /\ s = step
                                              THEN "pending" ELSE status[s]
        /\ snap.artifacts = artifacts
        /\ snap.openGate = IF pc = "gate" THEN gate ELSE 0
        /\ snap.failure = IF pc = "failed" THEN step ELSE 0
        /\ ~snap.terminal

\* The Prism roster shows the owner of the step in work and nobody else, also
\* when a revised or failed step is queued again: the step that runs next is
\* then always the queued one.  A run the user or the plan ended leaves no chip.
RosterIsOwner ==
    /\ pc \in {"agent", "gating", "gate", "requeue", "aborting", "failed"}
          => chips = {step}
    /\ pc = "drive" => chips \subseteq {step}
    /\ pc = "exit" /\ snap.reason # "anthem restarted" => chips = {}

\* A validated plan never ends in "plan stuck: no pending step is ready".
NeverStuck == snap.reason # "stuck"

\* Every artifact the gate showed and the user did not flag in a selective
\* revise is in the step's artifacts when it completes again, however many
\* failures and retries lie in between.
UnflaggedShownKept ==
    [][\A s \in Step : status[s] = "running" /\ status'[s] = "completed"
                           => keep[s] \cap Shown \subseteq artifacts'[s]]_vars

\* The runner never spins: it always comes to wait for the user, to end, or to
\* be interrupted (revises and retries are bounded by what the user clicks).
RunnerSettles ==
    []<>(pc \in {"idle", "gate", "failed", "exit", "down"})

\* A listener blocked in ResolveGate or ResolveFailure gets out of the send as
\* long as the runner is waiting for a resolution.
SendCompletes ==
    (sending # <<>> /\ pc \in {"gate", "failed"}) ~> (sending = <<>> \/ pc = "exit")

-------------------------------------------------------------------------------
(* The strengthening that makes DependencyRespected, GateRespected and      *)
(* ReplayAgrees inductive together.                                         *)

Live   == pc \notin {"idle", "exit", "down"}
AtGate == pc \in {"gating", "gate", "requeue", "aborting"}

\* Nothing has happened before the goroutine runs
Fresh ==
    pc = "idle" => /\ \A s \in Step : status[s] = "pending"
                   /\ artifacts = [s \in Step |-> {}]

\* Only the step in work is neither pending nor completed
OneInWork ==
    /\ pc = "agent"  => step \in Step /\ status[step] = "running"
    /\ pc = "failed" => step \in Step /\ status[step] = "failed"
    /\ AtGate => step \in Step /\ status[step] = "completed"
    /\ Live => \A s \in Step : status[s] \in {"running", "failed"}
                                   => s = step /\ pc \in {"agent", "failed"}

\* The gate in work is the step's first, and what depends on the step is still
\* to come, so a revise un-completes no dependency
GateInWork ==
    AtGate => /\ gate \in GateAfterStep(gates, step)
              /\ \A s \in Step : DependsOn[s] = step => status[s] = "pending"

\* Every completed step but the one at its gate has had its gate approved
GatesApproved ==
    Live => \A s \in Step :
               status[s] = "completed" /\ ~(AtGate /\ s = step)
                   => GateAfterStep(gates, s) \subseteq approved

\* A log that ends in gate_opened holds all a restart resumes from
ParkedLog ==
    snap.tail = "gate_opened" =>
        /\ pc \in {"gate", "down"}
        /\ ~snap.terminal /\ snap.failure = 0
        /\ snap.openGate \in Gate
        /\ snap.status[AfterStep[snap.openGate]] = "completed"
        /\ \A s \in Step :
              /\ snap.status[s] \in {"pending", "completed"}
              /\ DependsOn[s] = AfterStep[snap.openGate] => snap.status[s] = "pending"
              /\ snap.status[s] # "pending" /\ DependsOn[s] # 0
                    => snap.status[DependsOn[s]] = "completed"

Consistent == /\ TypeOK /\ Fresh /\ OneInWork /\ GateInWork /\ GatesApproved
              /\ DependencyRespected /\ ReplayAgrees /\ ParkedLog

\* What the runner waits on is also what the end of the log says
StopInLog ==
    /\ pc = "idle" => snap = NoLog
    /\ pc \in {"idle", "drive", "agent", "failed"} => gate = 0
    /\ pc = "gating" => snap.tail = "step_completed"
    /\ pc = "requeue" => snap.tail = "gate_resolved" /\ snap.resolution = "revise"
    /\ pc = "aborting" => snap.tail = "gate_resolved" /\ snap.resolution = "abort"
    /\ pc = "down" => ~snap.terminal
    /\ snap.tail = "gate_opened" => gate = snap.openGate

\* Of the steps before s, none is ready as long as s is not completed
NoneBefore(at, s) ==
    \A t \in Step : t < s /\ at[t] = "pending"
        => DependsOn[t] # 0 /\ (DependsOn[t] = s \/ at[DependsOn[t]] # "completed")

\* The step with the chip is in work, or queued again and the next to run
RosterKept ==
    /\ RosterIsOwner
    /\ pc = "idle" => chips = {}
    /\ pc = "drive" /\ chips # {} => step \in Ready
    /\ Live /\ chips # {} => NoneBefore(status, step)
    /\ snap.tail = "gate_opened"
          => /\ chips = {AfterStep[snap.openGate]}
             /\ NoneBefore(snap.status, AfterStep[snap.openGate])

\* What a selective revise has to keep is preserved, or was shown at the gate
KeptIsPreserved ==
    /\ \A s \in Step : keep[s] \cap Shown \subseteq preserved[s]
    /\ pc \in {"gate", "requeue"} => artifacts[step] \cap Shown \subseteq review
    /\ pc = "down" => \A s \in Step : keep[s] = {}

-------------------------------------------------------------------------------
(* The abstract chain, read off the log.                                    *)

Seen(logged) == CASE logged = "pending"   -> "todo"
                  [] logged = "running"   -> "doing"
                  [] logged = "completed" -> "done"
                  [] logged = "failed"    -> "broken"

ChainStatus == [s \in Step |-> Seen(snap.status[s])]

ChainOutcome ==
    IF ~snap.terminal THEN "open"
    ELSE IF snap.tail = "run_completed" THEN "completed" ELSE "aborted"

\* From step_completed of a gated step until the answer that lets it move on
ChainDue ==
    IF \/ snap.openGate # 0
       \/ snap.tail = "step_completed"
       \/ snap.tail = "gate_resolved" /\ snap.resolution = "abort"
    THEN gate ELSE 0

Chain == INSTANCE HandoffChain WITH
            st <- ChainStatus, due <- ChainDue,
            promised <- gates, outcome <- ChainOutcome

\* What a replay of the log shows is a behaviour of the promised chain, through
\* clicks at any moment, revises, retries, crashes and restarts.
ImplementsChain == Chain!Spec

-------------------------------------------------------------------------------
(* What comments and documents of the repository say, and the code refutes. *)

\* channel/prism/adapter.go:504-506: a click carries "a stable gate_id the
\* runner can match directly", so a click that names a gate resolves that gate.
NamedGateHonoured ==
    [][pc = "gate" /\ gateCh # <<>> /\ gateCh' = <<>> /\ pc' # "down"
          => gateCh[1].gate = gate]_vars

\* docs/architecture/modes.md: "No silent retries. Failures pause the plan.
\* Humans ... decide whether to retry": what resolves a failed step was sent
\* for the failed step.
FailureWaitsForHuman ==
    [][pc = "failed" /\ gateCh # <<>> /\ gateCh' = <<>> /\ pc' # "down"
          => gateCh[1].step = step]_vars

\* execute/plan.go:188: in a selective revise "only the listed artifacts should
\* be regenerated; all others are preserved in place".
UnflaggedKept ==
    [][\A s \in Step : status[s] = "running" /\ status'[s] = "completed"
                           => keep[s] \subseteq artifacts'[s]]_vars

\* execute/runner.go:137: revisionState is "cleared on successful completion of
\* the step or on gate approve/abort".
RevisionCleared == \A s \in Step : status[s] = "completed" => s \notin revision

\* plans/runs/events.go:63-66: PlanGates in run_started let a replay rebuild
\* "the step list and gate attachments", so a resumed run keeps its gates.
GatesSurviveRestart == [][pc # "idle" => gates' = gates]_vars
===============================================================================
