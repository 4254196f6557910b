--------------------------- MODULE PlanRunnerProofs ---------------------------
(***************************************************************************)
(* Proofs about PlanRunner, for every plan, every set of paths and every    *)
(* bound on the clicks.                                                     *)
(***************************************************************************)
EXTENDS PlanRunner, WellFoundedInduction, TLAPS

USE DEF Live, AtGate

-------------------------------------------------------------------------------
(* What each event does to the reduction of the log, cited instead of the   *)
(* definitions of RunLog.                                                   *)

\* A set of numbers that is not empty has a first one.
LEMMA Least ==
    ASSUME NEW S \in SUBSET Nat, S # {}
    PROVE  \E m \in S : \A n \in S : m <= n
<1>1. PICK R : /\ IsWellFoundedOn(R, Nat)
               /\ \A m, n \in Nat : n < m => <<n, m>> \in R
  <2>1. \A m, n \in Nat : n < m => <<n, m>> \in OpToRel(<, Nat)
    BY DEF OpToRel
  <2> QED BY <2>1, NatLessThanWellFounded
<1>2. PICK m \in S : \A n \in S : ~ (<<n, m>> \in R)
  BY <1>1, WFMin
<1>3. \A n \in S : ~ (n < m)
  BY <1>1, <1>2
<1> QED BY <1>3

\* Zero, the number that stands for "none", and the numbers of steps and gates.
LEMMA Numbers ==
    /\ 0 \in 0..NSteps /\ Step \subseteq 0..NSteps
    /\ 0 \in 0..NGates /\ Gate \subseteq 0..NGates
    /\ 0 \notin Step /\ 0 \notin Gate
    /\ \A g \in Gate : AfterStep[g] \in Step
<1>1. NSteps \in Nat /\ NGates \in Nat /\ AfterStep \in [Gate -> Step]
  BY PlanShape DEF PlanShape
<1> QED BY <1>1 DEF Step, Gate

\* A gate number other than zero is a gate.
LEMMA GateNumber == \A g \in 0..NGates : g # 0 => g \in Gate
BY PlanShape DEF PlanShape, Gate

\* The empty log and the header reduce to a snapshot.
LEMMA NoLogType == NoLog \in Snapshot /\ RunStarted \in Snapshot
BY Numbers DEF NoLog, RunStarted, Snapshot, Status, Reason, EventType

\* Every event of a step takes a snapshot to a snapshot.
LEMMA StepEventType ==
    ASSUME NEW log \in Snapshot, NEW s \in Step, NEW arts \in SUBSET Path
    PROVE  /\ StepQueued(log, s) \in Snapshot
           /\ StepStarted(log, s) \in Snapshot
           /\ StepCompleted(log, s, arts) \in Snapshot
           /\ StepFailed(log, s) \in Snapshot
<1>1. ClearedFailure(log, s) \in 0..NSteps
  BY Numbers DEF ClearedFailure, Snapshot
<1>2. StepQueued(log, s) \in Snapshot
  BY <1>1 DEF StepQueued, Snapshot, Status, EventType
<1>3. StepStarted(log, s) \in Snapshot
  BY <1>1 DEF StepStarted, Snapshot, Status, EventType
<1>4. StepCompleted(log, s, arts) \in Snapshot
  BY <1>1 DEF StepCompleted, Snapshot, Status, EventType
<1>5. StepFailed(log, s) \in Snapshot
  BY Numbers DEF StepFailed, Snapshot, Status, EventType
<1> QED BY <1>2, <1>3, <1>4, <1>5

\* So does every event of a gate.
LEMMA GateOpenedType ==
    ASSUME NEW log \in Snapshot, NEW g \in Gate
    PROVE  GateOpened(log, g) \in Snapshot
BY Numbers DEF GateOpened, Snapshot, EventType

\* gate_resolved maps snapshots to snapshots.
LEMMA GateResolvedType ==
    ASSUME NEW log \in Snapshot, NEW g \in Gate, NEW action \in Action
    PROVE  GateResolved(log, g, action) \in Snapshot
<1>1. AfterStep[g] \in Step
  BY Numbers
<1> QED BY <1>1, Numbers DEF GateResolved, Snapshot, EventType, Status, Action

\* So does the end of the run.
LEMMA EndEventType ==
    ASSUME NEW log \in Snapshot
    PROVE  /\ RunCompleted(log) \in Snapshot
           /\ \A why \in Reason : RunAborted(log, why) \in Snapshot
BY Numbers DEF RunCompleted, RunAborted, Snapshot, EventType

-------------------------------------------------------------------------------
(* Lemmas about the helpers.                                                *)

\* First picks a member, and only one.
LEMMA FirstMember ==
    ASSUME NEW S \in SUBSET Nat
    PROVE  /\ First(S) \subseteq S
           /\ \A m, n \in First(S) : m = n
BY DEF First

\* A step that may run next is a pending one, its dependency completed.
LEMMA NextIsReady ==
    ASSUME NEW s \in NextPendingStep
    PROVE  /\ s \in Step /\ status[s] = "pending"
           /\ DependsOn[s] # 0 => status[DependsOn[s]] = "completed"
BY DEF NextPendingStep, First, Ready

\* The gate after a step is one of the plan's, configured after that step.
LEMMA GateOfStep ==
    ASSUME NEW gs \in SUBSET Gate, NEW s \in Step, NEW g \in GateAfterStep(gs, s)
    PROVE  /\ g \in gs /\ g \in Gate /\ AfterStep[g] = s
           /\ \A h \in GateAfterStep(gs, s) : h = g
<1>1. gs \subseteq Nat
  BY PlanShape DEF Gate, PlanShape
<1> QED BY <1>1, FirstMember DEF GateAfterStep

\* What the channel and the blocked listener hold are messages.
LEMMA Receives ==
    ASSUME TypeOK, Receive
    PROVE  /\ taken' \in Resolution
           /\ gateCh' = <<>> /\ sending' = sending /\ clicks' = clicks
<1>1. PICK m \in Message : gateCh = <<m>>
  BY DEF TypeOK, Receive
<1> QED BY <1>1 DEF Receive, Message, Resolution

-------------------------------------------------------------------------------
(* Type correctness.                                                        *)

\* The initial state has its types.
LEMMA InitType == Init => TypeOK
BY NoLogType, ReviewConfig, Numbers
   DEF Init, TypeOK, PC, Status, Resolution, NoResolution, Action, ReviewConfig

\* Every step keeps the types.
LEMMA NextType ==
    TypeOK /\ OneInWork /\ GateInWork /\ [Next]_vars => TypeOK'
<1> SUFFICES ASSUME TypeOK, OneInWork, GateInWork, [Next]_vars PROVE TypeOK'
  OBVIOUS
<1> USE DEF TypeOK, runner, channel, history
<1>0. /\ pc \in {"agent", "failed"} \/ AtGate => step \in Step
      /\ AtGate => gate \in Gate
  <2>1. pc \in {"agent", "failed"} \/ AtGate => step \in Step
    BY DEF OneInWork
  <2> QED BY <2>1, GateOfStep DEF GateInWork
<1>1. CASE Start
  BY <1>1, NoLogType DEF Start, PC
<1>2. CASE StartStep
  <2>1. step' \in Step
    BY <1>2, NextIsReady DEF StartStep
  <2>2. status' \in [Step -> Status]
    BY <1>2, <2>1 DEF StartStep, Status
  <2>3. snap' \in Snapshot
    BY <1>2, <2>1, StepEventType DEF StartStep
  <2> QED BY <1>2, <2>1, <2>2, <2>3, Numbers DEF StartStep, PC
<1>3. CASE FinishRun
  BY <1>3, EndEventType DEF FinishRun, PC, Reason
<1>4. CASE CompleteStep
  <2>1. PICK collected \in SUBSET Path :
           /\ artifacts' = [artifacts EXCEPT ![step] = Merged(step, collected)]
           /\ snap' = StepCompleted(snap, step, Merged(step, collected))
    BY <1>4 DEF CompleteStep
  <2>2. step \in Step
    BY <1>0, <1>4 DEF CompleteStep
  <2>3. Merged(step, collected) \in SUBSET Path
    BY <2>2 DEF Merged
  <2>4. snap' \in Snapshot /\ artifacts' \in [Step -> SUBSET Path]
    BY <2>1, <2>2, <2>3, StepEventType
  <2>5. gate' \in 0..NGates /\ pc' \in PC /\ chips' \in SUBSET Step
    BY <1>4, <2>2, GateOfStep, Numbers DEF CompleteStep, PC
  <2>6. status' \in [Step -> Status]
    BY <1>4, <2>2 DEF CompleteStep, Status
  <2>7. preserved' \in [Step -> SUBSET Path] /\ keep' \in [Step -> SUBSET Path]
    BY <1>4, <2>2 DEF CompleteStep
  <2> QED BY <1>4, <2>4, <2>5, <2>6, <2>7 DEF CompleteStep
<1>5. CASE FailStep
  BY <1>0, <1>5, StepEventType DEF FailStep, PC, Status
<1>6. CASE OpenGate
  <2>1. snap' \in Snapshot
    BY <1>0, <1>6, GateOpenedType DEF OpenGate
  <2>2. review' \in SUBSET Path
    BY <1>0, <1>6 DEF OpenGate
  <2> QED BY <1>6, <2>1, <2>2 DEF OpenGate, PC
<1>7. CASE ResolveGate
  <2>1. taken' \in Resolution /\ gateCh' = <<>> /\ sending' = sending /\ clicks' = clicks
    BY <1>7, Receives DEF ResolveGate
  <2>2. snap' \in Snapshot
    BY <1>0, <1>7, <2>1, GateResolvedType DEF ResolveGate, Resolution
  <2>3. /\ preserved' \in [Step -> SUBSET Path]
        /\ keep' \in [Step -> SUBSET Path]
        /\ revision' \in SUBSET Step
    BY <1>0, <1>7 DEF ResolveGate, ClearReviseState
  <2>4. /\ chips' \in SUBSET Step
        /\ approved' \in SUBSET Gate
        /\ gate' \in 0..NGates
        /\ pc' \in PC
    BY <1>0, <1>7, Numbers DEF ResolveGate, AfterAnswer, PC
  <2> QED BY <1>7, <2>1, <2>2, <2>3, <2>4 DEF ResolveGate
<1>8. CASE Requeue
  <2>1. snap' \in Snapshot
    BY <1>0, <1>8, StepEventType DEF Requeue
  <2>2. status' \in [Step -> Status]
    BY <1>0, <1>8 DEF Requeue, Status
  <2>3. /\ preserved' \in [Step -> SUBSET Path]
        /\ keep' \in [Step -> SUBSET Path]
        /\ revision' \in SUBSET Step
    BY <1>0, <1>8 DEF Requeue
  <2> QED BY <1>8, <2>1, <2>2, <2>3, Numbers DEF Requeue, PC
<1>9. CASE AbortAtGate
  BY <1>9, EndEventType DEF AbortAtGate, PC, Reason
<1>10. CASE ResolveFailure
  <2>1. taken' \in Resolution /\ gateCh' = <<>> /\ sending' = sending /\ clicks' = clicks
    BY <1>10, Receives DEF ResolveFailure
  <2>2. snap' \in Snapshot
    BY <1>0, <1>10, StepEventType, EndEventType DEF ResolveFailure, Reason
  <2>3. status' \in [Step -> Status]
    BY <1>0, <1>10 DEF ResolveFailure, Status
  <2> QED BY <1>10, <2>1, <2>2, <2>3 DEF ResolveFailure, PC
<1>11. CASE Click
  <2>1. PICK named \in 0..NGates, action \in Action, flagged \in SUBSET Path :
           \E t \in Targets(named) :
              sending' = <<[gate |-> t.gate, step |-> t.step,
                            action |-> action, flagged |-> flagged]>>
    BY <1>11 DEF Click
  <2>2. \A t \in Targets(named) : t.gate \in 0..NGates /\ t.step \in 0..NSteps
    BY Numbers DEF Targets, First, FailedSteps, DoneGates
  <2>3. \E m \in Message : sending' = <<m>>
    BY <2>1, <2>2 DEF Message
  <2>4. clicks' \in 0..MaxClicks
    BY <1>11, ReviewConfig DEF Click, ReviewConfig
  <2> QED BY <1>11, <2>3, <2>4 DEF Click
<1>12. CASE Deliver
  BY <1>12 DEF Deliver
<1>13. CASE Crash
  BY <1>13 DEF Crash, PC
<1>14. CASE ResumeAtGate
  <2>0. /\ snap.openGate \in 0..NGates /\ snap.openGate # 0
        /\ snap.status \in [Step -> Status]
        /\ snap.artifacts \in [Step -> SUBSET Path]
    BY <1>14 DEF ResumeAtGate, Snapshot
  <2>1. snap.openGate \in Gate
    BY <2>0, GateNumber
  <2>2. step' \in Step
    BY <1>14, <2>1, Numbers DEF ResumeAtGate
  <2> QED BY <1>14, <2>0, <2>1, <2>2, Numbers DEF ResumeAtGate, PC
<1>15. CASE AbortDangling
  BY <1>15, EndEventType DEF AbortDangling, PC, Reason
<1>16. CASE UNCHANGED vars
  BY <1>16 DEF vars
<1> QED BY <1>1, <1>2, <1>3, <1>4, <1>5, <1>6, <1>7, <1>8, <1>9, <1>10, <1>11,
           <1>12, <1>13, <1>14, <1>15, <1>16 DEF Next, RunnerStep, Restart

-------------------------------------------------------------------------------
(* The runner's view, its log and its gates stay consistent.                *)

\* A dependency is a step.
LEMMA Dependency == \A s \in Step : DependsOn[s] # 0 => DependsOn[s] \in Step
BY PlanDependencies, PlanShape DEF PlanDependencies, PlanShape, Step

\* The start of a run keeps the invariant (Run),
LEMMA StartKeeps ==
    ASSUME Consistent, TypeOK', Start
    PROVE  Consistent'
<1> USE DEF Consistent, runner, channel, history
<1>0. /\ pc = "idle" /\ pc' = "drive"
      /\ \A s \in Step : status[s] = "pending"
      /\ status' = status /\ artifacts' = artifacts /\ gates' = gates
      /\ step' = step /\ approved' = approved
      /\ snap' = RunStarted /\ artifacts = [s \in Step |-> {}]
  BY DEF Start, Fresh
<1>1. Fresh'
  BY <1>0 DEF Fresh
<1>2. OneInWork'
  BY <1>0 DEF OneInWork
<1>3. GateInWork'
  BY <1>0 DEF GateInWork
<1>4. GatesApproved'
  BY <1>0 DEF GatesApproved
<1>5. DependencyRespected'
  BY <1>0 DEF DependencyRespected
<1>6. ReplayAgrees'
  BY <1>0 DEF ReplayAgrees, RunStarted, NoLog
<1>7. ParkedLog'
  BY <1>0 DEF ParkedLog, RunStarted, NoLog
<1> QED BY <1>1, <1>2, <1>3, <1>4, <1>5, <1>6, <1>7

\* the start of the next pending step (driveSteps, runStep),
LEMMA StartStepKeeps ==
    ASSUME Consistent, TypeOK', StartStep
    PROVE  Consistent'
<1> USE DEF Consistent, runner, channel, history
<1>0. /\ pc = "drive" /\ pc' = "agent" /\ step' \in Step
      /\ status[step'] = "pending"
      /\ DependsOn[step'] # 0 => status[DependsOn[step']] = "completed"
      /\ status' = [status EXCEPT ![step'] = "running"]
      /\ status \in [Step -> Status]
      /\ artifacts' = artifacts /\ gates' = gates /\ gates \in SUBSET Gate
      /\ approved' = {g \in approved : AfterStep[g] # step'}
      /\ snap' = StepStarted(snap, step') /\ snap \in Snapshot
  BY NextIsReady DEF StartStep, TypeOK
<1>1. Fresh'
  BY <1>0 DEF Fresh
<1>2. OneInWork'
  BY <1>0 DEF OneInWork
<1>3. GateInWork'
  BY <1>0 DEF GateInWork
<1>4. GatesApproved'
  <2> SUFFICES ASSUME NEW s \in Step, status'[s] = "completed",
                      NEW g \in GateAfterStep(gates, s)
               PROVE  g \in approved'
    BY <1>0 DEF GatesApproved
  <2>1. s # step' /\ status[s] = "completed"
    BY <1>0
  <2>2. g \in approved /\ AfterStep[g] = s
    BY <1>0, <2>1, GateOfStep DEF GatesApproved
  <2> QED BY <1>0, <2>1, <2>2
<1>5. DependencyRespected'
  BY <1>0, Dependency DEF DependencyRespected
<1>6. ReplayAgrees'
  BY <1>0 DEF ReplayAgrees, StepStarted, ClearedFailure, Snapshot
<1>7. ParkedLog'
  BY <1>0 DEF ParkedLog, StepStarted
<1> QED BY <1>1, <1>2, <1>3, <1>4, <1>5, <1>6, <1>7

\* the end of the last step,
LEMMA FinishRunKeeps ==
    ASSUME Consistent, TypeOK', FinishRun
    PROVE  Consistent'
<1> USE DEF Consistent, runner, channel, history
<1>0. /\ pc = "drive" /\ pc' = "exit" /\ status' = status
      /\ snap' \in {RunCompleted(snap), RunAborted(snap, "stuck")}
      /\ snap \in Snapshot
  BY DEF FinishRun, TypeOK
<1>1. Fresh'
  BY <1>0 DEF Fresh
<1>2. OneInWork'
  BY <1>0 DEF OneInWork
<1>3. GateInWork'
  BY <1>0 DEF GateInWork
<1>4. GatesApproved'
  BY <1>0 DEF GatesApproved
<1>5. DependencyRespected'
  BY <1>0 DEF DependencyRespected
<1>6. ReplayAgrees'
  BY <1>0 DEF ReplayAgrees, RunCompleted, RunAborted, Snapshot
<1>7. ParkedLog'
  BY <1>0 DEF ParkedLog, RunCompleted, RunAborted, Snapshot
<1> QED BY <1>1, <1>2, <1>3, <1>4, <1>5, <1>6, <1>7

\* an agent's success, with the artifacts it left,
LEMMA CompleteStepKeeps ==
    ASSUME Consistent, TypeOK', CompleteStep
    PROVE  Consistent'
<1> USE DEF Consistent, runner, channel, history
<1>0. /\ pc = "agent" /\ step \in Step /\ status[step] = "running"
      /\ step' = step /\ gates' = gates /\ approved' = approved
      /\ status' = [status EXCEPT ![step] = "completed"]
      /\ status \in [Step -> Status] /\ artifacts \in [Step -> SUBSET Path]
      /\ snap \in Snapshot /\ gates \in SUBSET Gate
      /\ \E arts : /\ artifacts' = [artifacts EXCEPT ![step] = arts]
                    /\ snap' = StepCompleted(snap, step, arts)
      /\ \/ pc' = "gating" /\ gate' \in GateAfterStep(gates, step)
         \/ pc' = "drive" /\ GateAfterStep(gates, step) = {}
  BY DEF CompleteStep, OneInWork, TypeOK
<1>1. Fresh'
  BY <1>0 DEF Fresh
<1>2. OneInWork'
  BY <1>0 DEF OneInWork
<1>3. GateInWork'
  BY <1>0, Numbers DEF GateInWork, DependencyRespected
<1>4. GatesApproved'
  BY <1>0 DEF GatesApproved
<1>5. DependencyRespected'
  BY <1>0, Dependency DEF DependencyRespected
<1>6. ReplayAgrees'
  <2>1. PICK arts : /\ artifacts' = [artifacts EXCEPT ![step] = arts]
                    /\ snap' = StepCompleted(snap, step, arts)
    BY <1>0
  <2>2. /\ snap'.status = [snap.status EXCEPT ![step] = "completed"]
        /\ snap'.artifacts = [snap.artifacts EXCEPT ![step] = arts]
        /\ snap'.openGate = snap.openGate /\ snap'.terminal = snap.terminal
        /\ snap.failure = 0 => snap'.failure = 0
    BY <1>0, <2>1 DEF StepCompleted, ClearedFailure, Snapshot
  <2> QED BY <1>0, <2>1, <2>2 DEF ReplayAgrees, Snapshot
<1>7. ParkedLog'
  BY <1>0 DEF ParkedLog, StepCompleted, Snapshot
<1> QED BY <1>1, <1>2, <1>3, <1>4, <1>5, <1>6, <1>7

\* an agent's failure,
LEMMA FailStepKeeps ==
    ASSUME Consistent, TypeOK', FailStep
    PROVE  Consistent'
<1> USE DEF Consistent, runner, channel, history
<1>0. /\ pc = "agent" /\ pc' = "failed" /\ step \in Step /\ status[step] = "running"
      /\ step' = step /\ gates' = gates /\ approved' = approved
      /\ artifacts' = artifacts
      /\ status' = [status EXCEPT ![step] = "failed"]
      /\ status \in [Step -> Status]
      /\ snap \in Snapshot /\ snap' = StepFailed(snap, step)
  BY DEF FailStep, OneInWork, TypeOK
<1>1. Fresh'
  BY <1>0 DEF Fresh
<1>2. OneInWork'
  BY <1>0 DEF OneInWork
<1>3. GateInWork'
  BY <1>0 DEF GateInWork
<1>4. GatesApproved'
  BY <1>0 DEF GatesApproved
<1>5. DependencyRespected'
  BY <1>0, Dependency DEF DependencyRespected
<1>6. ReplayAgrees'
  BY <1>0 DEF ReplayAgrees, StepFailed, Snapshot
<1>7. ParkedLog'
  BY <1>0 DEF ParkedLog, StepFailed, Snapshot
<1> QED BY <1>1, <1>2, <1>3, <1>4, <1>5, <1>6, <1>7

\* the opening of a gate,
LEMMA OpenGateKeeps ==
    ASSUME Consistent, TypeOK', OpenGate
    PROVE  Consistent'
<1> USE DEF Consistent, runner, channel, history
<1>0. /\ pc = "gating" /\ pc' = "gate" /\ step \in Step
      /\ step' = step /\ gate' = gate /\ gates' = gates /\ approved' = approved
      /\ status' = status /\ artifacts' = artifacts
      /\ status \in [Step -> Status]
      /\ snap \in Snapshot /\ snap' = GateOpened(snap, gate)
  BY DEF OpenGate, OneInWork, TypeOK
<1>1. Fresh'
  BY <1>0 DEF Fresh
<1>2. OneInWork'
  BY <1>0 DEF OneInWork
<1>3. GateInWork'
  BY <1>0 DEF GateInWork
<1>4. GatesApproved'
  BY <1>0 DEF GatesApproved
<1>5. DependencyRespected'
  BY <1>0 DEF DependencyRespected
<1>6. ReplayAgrees'
  BY <1>0 DEF ReplayAgrees, GateOpened, Snapshot
<1>7. ParkedLog'
  <2>1. gate \in Gate /\ AfterStep[gate] = step
    BY <1>0, GateOfStep DEF GateInWork, TypeOK
  <2>2. /\ snap'.openGate = gate /\ snap'.status = snap.status
        /\ snap'.terminal = snap.terminal /\ snap'.failure = snap.failure
    BY <1>0 DEF GateOpened, Snapshot
  <2>3. /\ ~snap.terminal /\ snap.failure = 0
        /\ \A s \in Step : snap.status[s] = status[s]
    BY <1>0 DEF ReplayAgrees
  <2>4. \A s \in Step : status[s] \in {"pending", "completed"}
    BY <1>0 DEF OneInWork, Status
  <2> QED BY <1>0, <2>1, <2>2, <2>3, <2>4, Dependency
          DEF ParkedLog, OneInWork, GateInWork, DependencyRespected
<1> QED BY <1>1, <1>2, <1>3, <1>4, <1>5, <1>6, <1>7

\* the answer at a gate, approve or revise (handleGate),
LEMMA ResolveGateKeeps ==
    ASSUME Consistent, TypeOK', ResolveGate
    PROVE  Consistent'
<1> USE DEF Consistent, runner, channel, history
<1>0. /\ pc = "gate" /\ step \in Step /\ status[step] = "completed"
      /\ step' = step /\ gates' = gates /\ status' = status
      /\ artifacts' = artifacts
      /\ gate \in GateAfterStep(gates, step) /\ gates \in SUBSET Gate
      /\ gate \in Gate /\ AfterStep[gate] = step
      /\ snap \in Snapshot /\ snap' = GateResolved(snap, gate, taken'.action)
  BY GateOfStep DEF ResolveGate, OneInWork, GateInWork, TypeOK
<1>a. \/ /\ taken'.action = "approve" /\ pc' = "drive"
         /\ approved' = approved \cup {gate}
      \/ /\ taken'.action = "revise" /\ pc' = "requeue"
         /\ approved' = approved /\ gate' = gate
      \/ /\ taken'.action = "abort" /\ pc' = "aborting"
         /\ approved' = approved /\ gate' = gate
  BY DEF ResolveGate, ClearReviseState, AfterAnswer
<1>1. Fresh'
  BY <1>0, <1>a DEF Fresh
<1>2. OneInWork'
  BY <1>0, <1>a DEF OneInWork
<1>3. GateInWork'
  BY <1>0, <1>a DEF GateInWork
<1>4. GatesApproved'
  BY <1>0, <1>a, GateOfStep DEF GatesApproved
<1>5. DependencyRespected'
  BY <1>0, <1>a DEF DependencyRespected
<1>6. ReplayAgrees'
  <2>1. /\ snap.openGate = gate /\ snap.failure = 0 /\ ~snap.terminal
        /\ snap.artifacts = artifacts
        /\ \A s \in Step : snap.status[s] = status[s]
    BY <1>0 DEF ReplayAgrees
  <2>2. /\ snap'.openGate = 0 /\ snap'.failure = 0 /\ ~snap'.terminal
        /\ snap'.artifacts = artifacts
    BY <1>0, <2>1 DEF GateResolved, Snapshot
  <2>3. \A s \in Step : snap'.status[s] = IF s = step /\ taken'.action = "revise"
                                           THEN "pending" ELSE snap.status[s]
    BY <1>0, <2>1 DEF GateResolved, Snapshot
  <2> QED BY <1>0, <1>a, <2>1, <2>2, <2>3 DEF ReplayAgrees, Snapshot
<1>7. ParkedLog'
  BY <1>0, <1>a DEF ParkedLog, GateResolved, Snapshot
<1> QED BY <1>1, <1>2, <1>3, <1>4, <1>5, <1>6, <1>7

\* the requeue of the flagged steps after a revise,
LEMMA RequeueKeeps ==
    ASSUME Consistent, TypeOK', Requeue
    PROVE  Consistent'
<1> USE DEF Consistent, runner, channel, history
<1>0. /\ pc = "requeue" /\ pc' = "drive" /\ step \in Step
      /\ status[step] = "completed"
      /\ step' = step /\ gates' = gates /\ approved' = approved
      /\ artifacts' = artifacts
      /\ status' = [status EXCEPT ![step] = "pending"]
      /\ status \in [Step -> Status]
      /\ \A s \in Step : DependsOn[s] = step => status[s] = "pending"
      /\ snap \in Snapshot /\ snap' = StepQueued(snap, step)
  BY DEF Requeue, OneInWork, GateInWork, TypeOK
<1>1. Fresh'
  BY <1>0 DEF Fresh
<1>2. OneInWork'
  BY <1>0 DEF OneInWork
<1>3. GateInWork'
  BY <1>0 DEF GateInWork
<1>4. GatesApproved'
  BY <1>0 DEF GatesApproved
<1>5. DependencyRespected'
  BY <1>0, Dependency DEF DependencyRespected
<1>6. ReplayAgrees'
  BY <1>0 DEF ReplayAgrees, StepQueued, ClearedFailure, Snapshot
<1>7. ParkedLog'
  BY <1>0 DEF ParkedLog, StepQueued, Snapshot
<1> QED BY <1>1, <1>2, <1>3, <1>4, <1>5, <1>6, <1>7

\* an abort at a gate,
LEMMA AbortAtGateKeeps ==
    ASSUME Consistent, TypeOK', AbortAtGate
    PROVE  Consistent'
<1> USE DEF Consistent, runner, channel, history
<1>0. /\ pc = "aborting" /\ pc' = "exit" /\ status' = status
      /\ snap \in Snapshot /\ snap' = RunAborted(snap, "by user")
  BY DEF AbortAtGate, TypeOK
<1>1. Fresh'
  BY <1>0 DEF Fresh
<1>2. OneInWork'
  BY <1>0 DEF OneInWork
<1>3. GateInWork'
  BY <1>0 DEF GateInWork
<1>4. GatesApproved'
  BY <1>0 DEF GatesApproved
<1>5. DependencyRespected'
  BY <1>0 DEF DependencyRespected
<1>6. ReplayAgrees'
  BY <1>0 DEF ReplayAgrees, RunAborted, Snapshot
<1>7. ParkedLog'
  BY <1>0 DEF ParkedLog, RunAborted, Snapshot
<1> QED BY <1>1, <1>2, <1>3, <1>4, <1>5, <1>6, <1>7

\* the answer to a failed step (handleStepFailure),
LEMMA ResolveFailureKeeps ==
    ASSUME Consistent, TypeOK', ResolveFailure
    PROVE  Consistent'
<1> USE DEF Consistent, runner, channel, history
<1>0. /\ pc = "failed" /\ step \in Step /\ status[step] = "failed"
      /\ step' = step /\ gates' = gates /\ approved' = approved
      /\ artifacts' = artifacts
      /\ status \in [Step -> Status] /\ snap \in Snapshot
      /\ \/ /\ pc' = "drive" /\ status' = [status EXCEPT ![step] = "pending"]
            /\ snap' = StepQueued(snap, step)
         \/ pc' = "exit" /\ status' = status /\ snap' = RunAborted(snap, "by user")
  BY DEF ResolveFailure, OneInWork, TypeOK
<1>1. Fresh'
  BY <1>0 DEF Fresh
<1>2. OneInWork'
  BY <1>0 DEF OneInWork
<1>3. GateInWork'
  BY <1>0 DEF GateInWork
<1>4. GatesApproved'
  BY <1>0 DEF GatesApproved
<1>5. DependencyRespected'
  BY <1>0, Dependency DEF DependencyRespected
<1>6. ReplayAgrees'
  <2>1. CASE pc' = "exit"
    BY <2>1 DEF ReplayAgrees
  <2>2. CASE /\ pc' = "drive" /\ status' = [status EXCEPT ![step] = "pending"]
             /\ snap' = StepQueued(snap, step)
    <3>1. /\ snap'.status = [snap.status EXCEPT ![step] = "pending"]
          /\ snap'.artifacts = snap.artifacts
          /\ snap'.openGate = snap.openGate /\ snap'.terminal = snap.terminal
          /\ snap.failure = step => snap'.failure = 0
      BY <1>0, <2>2 DEF StepQueued, ClearedFailure, Snapshot
    <3> QED BY <1>0, <2>2, <3>1 DEF ReplayAgrees, Snapshot
  <2> QED BY <1>0, <2>1, <2>2
<1>7. ParkedLog'
  BY <1>0 DEF ParkedLog, StepQueued, RunAborted, Snapshot
<1> QED BY <1>1, <1>2, <1>3, <1>4, <1>5, <1>6, <1>7

\* a click, which only starts a send,
LEMMA ClickKeeps ==
    ASSUME Consistent, TypeOK', Click
    PROVE  Consistent'
<1> USE DEF Consistent, runner, channel, history
<1>0. UNCHANGED <<pc, status, gates, artifacts, step, gate, snap, approved>>
  BY DEF Click
<1>1. Fresh'
  BY <1>0 DEF Fresh
<1>2. OneInWork'
  BY <1>0 DEF OneInWork
<1>3. GateInWork'
  BY <1>0 DEF GateInWork
<1>4. GatesApproved'
  BY <1>0 DEF GatesApproved
<1>5. DependencyRespected'
  BY <1>0 DEF DependencyRespected
<1>6. ReplayAgrees'
  BY <1>0 DEF ReplayAgrees
<1>7. ParkedLog'
  BY <1>0 DEF ParkedLog
<1> QED BY <1>1, <1>2, <1>3, <1>4, <1>5, <1>6, <1>7

\* the end of that send,
LEMMA DeliverKeeps ==
    ASSUME Consistent, TypeOK', Deliver
    PROVE  Consistent'
<1> USE DEF Consistent, runner, channel, history
<1>0. UNCHANGED <<pc, status, gates, artifacts, step, gate, snap, approved>>
  BY DEF Deliver
<1>1. Fresh'
  BY <1>0 DEF Fresh
<1>2. OneInWork'
  BY <1>0 DEF OneInWork
<1>3. GateInWork'
  BY <1>0 DEF GateInWork
<1>4. GatesApproved'
  BY <1>0 DEF GatesApproved
<1>5. DependencyRespected'
  BY <1>0 DEF DependencyRespected
<1>6. ReplayAgrees'
  BY <1>0 DEF ReplayAgrees
<1>7. ParkedLog'
  BY <1>0 DEF ParkedLog
<1> QED BY <1>1, <1>2, <1>3, <1>4, <1>5, <1>6, <1>7

\* a crash, which leaves only the log,
LEMMA CrashKeeps ==
    ASSUME Consistent, TypeOK', Crash
    PROVE  Consistent'
<1> USE DEF Consistent, runner, channel, history
<1>0. /\ pc' = "down" /\ Live
      /\ UNCHANGED <<status, gates, artifacts, step, gate, snap, approved>>
  BY DEF Crash, RunnerRegistered
<1>1. Fresh'
  BY <1>0 DEF Fresh
<1>2. OneInWork'
  BY <1>0 DEF OneInWork
<1>3. GateInWork'
  BY <1>0 DEF GateInWork
<1>4. GatesApproved'
  BY <1>0 DEF GatesApproved
<1>5. DependencyRespected'
  BY <1>0 DEF DependencyRespected
<1>6. ReplayAgrees'
  BY <1>0 DEF ReplayAgrees
<1>7. ParkedLog'
  BY <1>0 DEF ParkedLog
<1> QED BY <1>1, <1>2, <1>3, <1>4, <1>5, <1>6, <1>7

\* the resume of a run that was parked at a gate, from its log,
LEMMA ResumeAtGateKeeps ==
    ASSUME Consistent, TypeOK', ResumeAtGate
    PROVE  Consistent'
<1> USE DEF Consistent, runner, channel, history
<1>0. /\ snap \in Snapshot /\ snap' = snap /\ snap.tail = "gate_opened"
      /\ pc' = "gate" /\ status' = snap.status /\ artifacts' = snap.artifacts
      /\ gate' = snap.openGate /\ gates' = {gate'}
      /\ step' = AfterStep[gate'] /\ approved' = approved
  BY DEF ResumeAtGate, TypeOK
<1>a. /\ gate' \in Gate /\ step' \in Step
      /\ status'[step'] = "completed"
      /\ ~snap.terminal /\ snap.failure = 0
      /\ \A s \in Step :
            /\ status'[s] \in {"pending", "completed"}
            /\ DependsOn[s] = step' => status'[s] = "pending"
            /\ status'[s] # "pending" /\ DependsOn[s] # 0
                  => status'[DependsOn[s]] = "completed"
  BY <1>0, Numbers DEF ParkedLog
<1>b. \A s \in Step : GateAfterStep(gates', s) = IF s = step' THEN {gate'} ELSE {}
  BY <1>0, <1>a DEF GateAfterStep, First, Gate
<1>1. Fresh'
  BY <1>0, <1>a, <1>b DEF Fresh
<1>2. OneInWork'
  BY <1>0, <1>a, <1>b DEF OneInWork
<1>3. GateInWork'
  BY <1>0, <1>a, <1>b DEF GateInWork
<1>4. GatesApproved'
  BY <1>0, <1>a, <1>b DEF GatesApproved
<1>5. DependencyRespected'
  BY <1>0, <1>a, <1>b DEF DependencyRespected
<1>6. ReplayAgrees'
  BY <1>0, <1>a, <1>b DEF ReplayAgrees
<1>7. ParkedLog'
  BY <1>0, <1>a, <1>b DEF ParkedLog
<1> QED BY <1>1, <1>2, <1>3, <1>4, <1>5, <1>6, <1>7

\* and the startup's settling of a run that was interrupted elsewhere.
LEMMA AbortDanglingKeeps ==
    ASSUME Consistent, TypeOK', AbortDangling
    PROVE  Consistent'
<1> USE DEF Consistent, runner, channel, history
<1>0. /\ pc' = "exit" /\ status' = status
      /\ snap \in Snapshot /\ snap' = RunAborted(snap, "anthem restarted")
  BY DEF AbortDangling, TypeOK
<1>1. Fresh'
  BY <1>0 DEF Fresh
<1>2. OneInWork'
  BY <1>0 DEF OneInWork
<1>3. GateInWork'
  BY <1>0 DEF GateInWork
<1>4. GatesApproved'
  BY <1>0 DEF GatesApproved
<1>5. DependencyRespected'
  BY <1>0 DEF DependencyRespected
<1>6. ReplayAgrees'
  BY <1>0 DEF ReplayAgrees, RunAborted, Snapshot
<1>7. ParkedLog'
  BY <1>0 DEF ParkedLog, RunAborted, Snapshot
<1> QED BY <1>1, <1>2, <1>3, <1>4, <1>5, <1>6, <1>7

-------------------------------------------------------------------------------
(* The theorems.                                                            *)

\* The invariant holds before the run.
LEMMA InitConsistent == Init => Consistent
<1> SUFFICES ASSUME Init PROVE Consistent
  OBVIOUS
<1>1. TypeOK
  BY InitType
<1>2. /\ pc = "idle" /\ status = [s \in Step |-> "pending"]
      /\ artifacts = [s \in Step |-> {}] /\ snap = NoLog
  BY DEF Init
<1>3. DependencyRespected
  BY <1>2 DEF DependencyRespected
<1>4. Fresh /\ OneInWork /\ GateInWork /\ GatesApproved /\ ReplayAgrees
  BY <1>2 DEF Fresh, OneInWork, GateInWork, GatesApproved, ReplayAgrees
<1>5. ParkedLog
  BY <1>2 DEF ParkedLog, NoLog
<1> QED BY <1>1, <1>3, <1>4, <1>5 DEF Consistent

\* Every step keeps the invariant.
LEMMA NextConsistent == Consistent /\ [Next]_vars => Consistent'
<1> SUFFICES ASSUME Consistent, [Next]_vars PROVE Consistent'
  OBVIOUS
<1>1. TypeOK'
  BY NextType DEF Consistent
<1>2. CASE RunnerStep
  BY <1>1, <1>2, StartKeeps, StartStepKeeps, FinishRunKeeps, CompleteStepKeeps,
     FailStepKeeps, OpenGateKeeps, ResolveGateKeeps, RequeueKeeps,
     AbortAtGateKeeps, ResolveFailureKeeps DEF RunnerStep
<1>3. CASE Click \/ Deliver \/ Crash
  BY <1>1, <1>3, ClickKeeps, DeliverKeeps, CrashKeeps
<1>4. CASE Restart
  BY <1>1, <1>4, ResumeAtGateKeeps, AbortDanglingKeeps DEF Restart
<1>5. CASE UNCHANGED vars
  BY <1>1, <1>5 DEF vars, runner, channel, history, Consistent, Fresh, OneInWork,
     GateInWork, GatesApproved, DependencyRespected, ReplayAgrees, ParkedLog
<1> QED BY <1>2, <1>3, <1>4, <1>5 DEF Next

\* The inductive invariant holds in every reachable state.
THEOREM AlwaysConsistent == Spec => []Consistent
BY InitConsistent, NextConsistent, PTL DEF Spec

\* Every variable of the runner, the channel and the log keeps its type.
THEOREM TypeCorrect == Spec => []TypeOK
<1>1. Consistent => TypeOK
  BY DEF Consistent
<1> QED BY <1>1, AlwaysConsistent, PTL

\* For every plan: no step is ever past "pending" while the step it depends on
\* is not completed, through revises, failures, crashes and resumes.
THEOREM DependenciesRespected == Spec => []DependencyRespected
<1>1. Consistent => DependencyRespected
  BY DEF Consistent
<1> QED BY <1>1, AlwaysConsistent, PTL

\* For every plan: an agent only ever runs when the gate of every completed step
\* has been approved since that step last completed.
THEOREM GatesRespected == Spec => []GateRespected
<1>1. Consistent => GateRespected
  BY DEF Consistent, GatesApproved, GateRespected
<1> QED BY <1>1, AlwaysConsistent, PTL

\* For every plan: replaying the log gives the running runner's own view.
THEOREM LogReplaysToView == Spec => []ReplayAgrees
<1>1. Consistent => ReplayAgrees
  BY DEF Consistent
<1> QED BY <1>1, AlwaysConsistent, PTL

-------------------------------------------------------------------------------
(* A valid plan is never stuck.                                             *)

\* When driveSteps finds no ready step, the plan is complete: of the pending
\* steps one has the lowest rank, and what it depends on is completed.
LEMMA NoneReady ==
    ASSUME Consistent, pc = "drive", NextPendingStep = {}
    PROVE  AllCompleted
<1>1. Ready = {}
  <2>1. Ready \in SUBSET Nat
    BY PlanShape DEF Ready, Step, PlanShape
  <2> QED BY <2>1, Least DEF NextPendingStep, First
<1>2. \A s \in Step : status[s] \in {"pending", "completed"}
  BY DEF Consistent, TypeOK, OneInWork, Status
<1> SUFFICES ASSUME {s \in Step : status[s] = "pending"} # {} PROVE FALSE
  BY <1>2 DEF AllCompleted
<1>3. PICK rank \in [Step -> Step] :
         \A s \in Step : DependsOn[s] # 0 => rank[DependsOn[s]] < rank[s]
  BY PlanDependencies DEF PlanDependencies
<1> DEFINE Ranks == {rank[s] : s \in {s \in Step : status[s] = "pending"}}
<1>4. Ranks \in SUBSET Nat /\ Ranks # {}
  BY <1>3, PlanShape DEF Step, PlanShape
<1>5. PICK s \in Step : /\ status[s] = "pending"
                        /\ \A r \in Ranks : rank[s] <= r
  <2> HIDE DEF Ranks
  <2>1. PICK m \in Ranks : \A r \in Ranks : m <= r
    BY <1>4, Least
  <2> QED BY <2>1 DEF Ranks
<1>6. DependsOn[s] # 0 => status[DependsOn[s]] = "completed"
  <2> SUFFICES ASSUME DependsOn[s] # 0, status[DependsOn[s]] = "pending"
               PROVE  FALSE
    BY <1>2, Dependency
  <2>1. DependsOn[s] \in Step /\ rank[DependsOn[s]] \in Ranks
    BY Dependency
  <2>2. rank[s] <= rank[DependsOn[s]]
    BY <1>5, <2>1
  <2>3. rank[DependsOn[s]] < rank[s]
    BY <1>3
  <2>4. rank[s] \in Step /\ rank[DependsOn[s]] \in Step
    BY <1>3, <2>1
  <2>5. Step \subseteq Nat
    BY PlanShape DEF Step, PlanShape
  <2>6. \A m, n \in Step : m <= n /\ n < m => FALSE
    BY <2>5
  <2> QED BY <2>2, <2>3, <2>4, <2>6
<1> QED BY <1>1, <1>5, <1>6 DEF Ready

\* No step leads to the "stuck" end of driveSteps.
LEMMA NextNeverStuck == Consistent /\ NeverStuck /\ [Next]_vars => NeverStuck'
<1> SUFFICES ASSUME Consistent, NeverStuck, [Next]_vars PROVE NeverStuck'
  OBVIOUS
<1> USE DEF NeverStuck
<1>0. snap \in Snapshot
  BY DEF Consistent, TypeOK
<1>1. CASE FinishRun
  BY <1>0, <1>1, NoneReady DEF FinishRun, RunCompleted, Snapshot
<1>2. CASE Start
  BY <1>2 DEF Start, RunStarted, NoLog
<1>3. CASE StartStep \/ CompleteStep \/ FailStep
  BY <1>0, <1>3 DEF StartStep, CompleteStep, FailStep, StepStarted, StepCompleted,
     StepFailed, Snapshot
<1>4. CASE OpenGate \/ ResolveGate
  BY <1>0, <1>4 DEF OpenGate, ResolveGate, GateOpened, GateResolved, Snapshot
<1>5. CASE Requeue \/ AbortAtGate \/ ResolveFailure \/ AbortDangling
  BY <1>0, <1>5 DEF Requeue, AbortAtGate, ResolveFailure, AbortDangling,
     StepQueued, RunAborted, Snapshot
<1>6. CASE Click \/ Deliver \/ Crash \/ ResumeAtGate \/ UNCHANGED vars
  BY <1>6 DEF Click, Deliver, Crash, ResumeAtGate, vars
<1> QED BY <1>1, <1>2, <1>3, <1>4, <1>5, <1>6 DEF Next, RunnerStep, Restart

\* For every plan that Validate accepts: no run ever ends with "plan stuck: no
\* pending step is ready", whatever was revised, retried or resumed.
THEOREM NeverStuckEver == Spec => []NeverStuck
<1>1. NoLog.reason = ""
  BY DEF NoLog
<1>2. Init => NeverStuck
  BY <1>1 DEF Init, NeverStuck
<1> QED BY <1>2, NextNeverStuck, AlwaysConsistent, PTL DEF Spec
-------------------------------------------------------------------------------
(* The end of the log agrees with what the runner waits on, and the log is  *)
(* then a behaviour of the promised chain.                                  *)

\* In a gate state, the gate in work is one of the plan's, after the step.
LEMMA GateAtWork ==
    ASSUME Consistent, AtGate
    PROVE  step \in Step /\ gate \in Gate /\ AfterStep[gate] = step
BY GateOfStep DEF Consistent, TypeOK, OneInWork, GateInWork

\* A run that has stopped has its end in the log.
LEMMA NextStopInLog == Consistent /\ StopInLog /\ [Next]_vars => StopInLog'
<1> SUFFICES ASSUME Consistent, StopInLog, [Next]_vars PROVE StopInLog'
  OBVIOUS
<1> USE DEF StopInLog, runner, channel, history
<1>0. snap \in Snapshot /\ ReplayAgrees /\ ParkedLog
  BY DEF Consistent, TypeOK
<1>1. CASE Start
  BY <1>1 DEF Start, RunStarted, NoLog
<1>2. CASE StartStep \/ FailStep
  BY <1>0, <1>2 DEF StartStep, FailStep, StepStarted, StepFailed, Snapshot
<1>3. CASE FinishRun \/ AbortAtGate \/ AbortDangling
  BY <1>0, <1>3 DEF FinishRun, AbortAtGate, AbortDangling, RunCompleted, RunAborted,
     Snapshot
<1>4. CASE CompleteStep
  <2>1. snap'.tail = "step_completed"
    BY <1>0, <1>4 DEF CompleteStep, StepCompleted, Snapshot
  <2> QED BY <1>4, <2>1 DEF CompleteStep
<1>5. CASE OpenGate
  BY <1>0, <1>5 DEF OpenGate, GateOpened, Snapshot
<1>6. CASE ResolveGate
  <2>1. snap'.tail = "gate_resolved" /\ snap'.resolution = taken'.action
    BY <1>0, <1>6 DEF ResolveGate, GateResolved, Snapshot
  <2> QED BY <1>6, <2>1 DEF ResolveGate, AfterAnswer
<1>7. CASE Requeue \/ ResolveFailure
  BY <1>0, <1>7 DEF Requeue, ResolveFailure, StepQueued, RunAborted, Snapshot
<1>8. CASE Click \/ Deliver \/ UNCHANGED vars
  BY <1>8 DEF Click, Deliver, vars
<1>9. CASE Crash
  BY <1>0, <1>9 DEF Crash, RunnerRegistered, ReplayAgrees
<1>10. CASE ResumeAtGate
  BY <1>0, <1>10 DEF ResumeAtGate
<1> QED BY <1>1, <1>2, <1>3, <1>4, <1>5, <1>6, <1>7, <1>8, <1>9, <1>10
        DEF Next, RunnerStep, Restart

\* A logged status that changes at one step changes the chain at that step.
LEMMA SeenMove ==
    ASSUME NEW s \in Step, NEW x,
           snap.status \in [Step -> Status],
           snap'.status = [snap.status EXCEPT ![s] = x]
    PROVE  ChainStatus' = [ChainStatus EXCEPT ![s] = Seen(x)]
BY DEF ChainStatus

\* How the chain names a status.
LEMMA SeenValues ==
    /\ Seen("pending") = "todo" /\ Seen("running") = "doing"
    /\ Seen("completed") = "done" /\ Seen("failed") = "broken"
BY DEF Seen

\* What the chain shows is what the runner knows and waits on.
ChainIsView ==
    /\ AtGate /\ pc # "requeue" => ChainDue = gate
    /\ (~AtGate /\ pc \notin {"exit", "down"}) \/ pc = "requeue" => ChainDue = 0
    /\ Live \/ pc \in {"idle", "down"} => ChainOutcome = "open"
    /\ Live => \A s \in Step :
                  ChainStatus[s] = IF pc = "requeue" /\ s = step THEN "todo"
                                                                 ELSE Seen(status[s])

\* While a run lives, the chain of its log is the runner's own view.
LEMMA ViewOfChain == Consistent /\ StopInLog => ChainIsView
<1> SUFFICES ASSUME Consistent, StopInLog PROVE ChainIsView
  OBVIOUS
<1>1. Live => /\ snap.openGate = IF pc = "gate" THEN gate ELSE 0
              /\ ~snap.terminal
  BY DEF Consistent, ReplayAgrees
<1>2. pc \in PC
  BY DEF Consistent, TypeOK
<1>3. /\ AtGate /\ pc # "requeue" => ChainDue = gate
      /\ (~AtGate /\ pc \notin {"exit", "down"}) \/ pc = "requeue" => ChainDue = 0
  BY <1>1, <1>2, GateAtWork, Numbers DEF StopInLog, ChainDue, PC
<1>4. Live \/ pc \in {"idle", "down"} => ChainOutcome = "open"
  <2>1. ~NoLog.terminal
    BY DEF NoLog
  <2> QED BY <1>1, <2>1 DEF StopInLog, ChainOutcome
<1>5. Live => \A s \in Step :
                 ChainStatus[s] = IF pc = "requeue" /\ s = step THEN "todo"
                                                                ELSE Seen(status[s])
  BY SeenValues DEF Consistent, ReplayAgrees, ChainStatus
<1> QED BY <1>3, <1>4, <1>5 DEF ChainIsView

\* All a step of the refinement rests on.
Refines == /\ Consistent /\ StopInLog /\ ChainIsView
           /\ Consistent' /\ StopInLog' /\ ChainIsView'

\* The start of a run changes nothing in the chain,
LEMMA StartIsStutter ==
    ASSUME Refines, Start
    PROVE  UNCHANGED Chain!chain
<1>1. /\ snap = NoLog /\ snap' = RunStarted /\ gates' = gates
      /\ pc = "idle" /\ pc' = "drive"
  BY DEF Refines, Start, StopInLog
<1>2. snap'.status = snap.status
  BY <1>1 DEF NoLog, RunStarted
<1> QED BY <1>1, <1>2 DEF Refines, ChainIsView, Chain!chain, ChainStatus

\* the start of a step begins it,
LEMMA StartStepIsBegin ==
    ASSUME Refines, StartStep
    PROVE  Chain!Next
<1>1. /\ pc = "drive" /\ pc' = "agent" /\ step' \in Step /\ status[step'] = "pending"
      /\ DependsOn[step'] # 0 => status[DependsOn[step']] = "completed"
      /\ gates' = gates /\ snap' = StepStarted(snap, step') /\ snap \in Snapshot
  BY NextIsReady DEF Refines, StartStep, Consistent, TypeOK
<1>2. /\ \A s \in Step : status[s] \in {"pending", "completed"}
      /\ \A s \in Step : ChainStatus[s] = Seen(status[s])
  BY <1>1 DEF Refines, ChainIsView, Consistent, TypeOK, OneInWork, Status
<1>3. ChainStatus' = [ChainStatus EXCEPT ![step'] = "doing"]
  <2>1. /\ snap'.status = [snap.status EXCEPT ![step'] = "running"]
        /\ snap.status \in [Step -> Status]
    BY <1>1 DEF StepStarted, Snapshot
  <2>2. ChainStatus' = [ChainStatus EXCEPT ![step'] = Seen("running")]
    BY <1>1, <2>1, SeenMove
  <2> QED BY <2>2, SeenValues
<1>4. ChainDue = 0 /\ ChainDue' = 0 /\ ChainOutcome = "open" /\ ChainOutcome' = "open"
  BY <1>1 DEF Refines, ChainIsView
<1>5. Chain!Begin(step')
  BY <1>1, <1>2, <1>3, <1>4, SeenValues, Dependency DEF Chain!Begin, Chain!Moving
<1> QED BY <1>1, <1>4, <1>5 DEF Chain!Next

\* the end of the last step ends the chain,
LEMMA FinishRunIsEnd ==
    ASSUME Refines, FinishRun
    PROVE  Chain!Next
<1>1. pc = "drive" /\ gates' = gates /\ snap \in Snapshot
  BY DEF Refines, FinishRun, Consistent, TypeOK
<1>2. /\ ChainDue = 0 /\ ChainOutcome = "open"
      /\ \A s \in Step : ChainStatus[s] = Seen(status[s])
  BY <1>1 DEF Refines, ChainIsView
<1>3. AllCompleted /\ snap' = RunCompleted(snap)
  BY NoneReady DEF Refines, FinishRun
<1>4. /\ snap'.status = snap.status /\ snap'.openGate = 0
      /\ snap'.terminal /\ snap'.tail = "run_completed"
  BY <1>1, <1>3 DEF RunCompleted, Snapshot
<1>5. ChainStatus' = ChainStatus /\ ChainDue' = 0 /\ ChainOutcome' = "completed"
  BY <1>4 DEF ChainStatus, ChainDue, ChainOutcome
<1> QED BY <1>1, <1>2, <1>3, <1>5, SeenValues DEF AllCompleted, Chain!Complete, Chain!Next

\* an agent's success finishes the step and puts its gate due,
LEMMA CompleteStepIsFinish ==
    ASSUME Refines, CompleteStep
    PROVE  Chain!Next
<1>1. /\ pc = "agent" /\ step \in Step /\ status[step] = "running"
      /\ gates' = gates /\ snap \in Snapshot /\ gates \in SUBSET Gate
      /\ \/ pc' = "gating" /\ gate' \in GateAfterStep(gates, step)
         \/ pc' = "drive" /\ GateAfterStep(gates, step) = {}
  BY DEF Refines, CompleteStep, Consistent, OneInWork, TypeOK
<1>2. PICK arts : snap' = StepCompleted(snap, step, arts)
  BY DEF CompleteStep
<1>3. ChainStatus' = [ChainStatus EXCEPT ![step] = "done"]
  <2>1. /\ snap'.status = [snap.status EXCEPT ![step] = "completed"]
        /\ snap.status \in [Step -> Status]
    BY <1>1, <1>2 DEF StepCompleted, Snapshot
  <2>2. ChainStatus' = [ChainStatus EXCEPT ![step] = Seen("completed")]
    BY <1>1, <2>1, SeenMove
  <2> QED BY <2>2, SeenValues
<1>4. ChainStatus[step] = "doing" /\ ChainOutcome = "open" /\ ChainOutcome' = "open"
  BY <1>1, SeenValues DEF Refines, ChainIsView
<1> DEFINE here == {g \in gates : AfterStep[g] = step}
<1>5. \/ ChainDue' \in here /\ \A h \in here : ChainDue' <= h
      \/ ChainDue' = 0 /\ here = {}
  <2>1. CASE pc' = "gating" /\ gate' \in GateAfterStep(gates, step)
    BY <2>1 DEF Refines, ChainIsView, GateAfterStep, First
  <2>2. CASE pc' = "drive" /\ GateAfterStep(gates, step) = {}
    <3>0. gates \subseteq Nat
      BY <1>1, PlanShape DEF Gate, PlanShape
    <3>1. here \in SUBSET Nat
      BY <3>0
    <3>2. here = {}
      BY <2>2, <3>1, Least DEF GateAfterStep, First
    <3> QED BY <2>2, <3>2 DEF Refines, ChainIsView
  <2> QED BY <1>1, <2>1, <2>2
<1>6. Chain!Finish(step)
  BY <1>1, <1>3, <1>4, <1>5 DEF Chain!Finish
<1> QED BY <1>1, <1>4, <1>6 DEF Chain!Next

\* its failure breaks the chain,
LEMMA FailStepIsBreak ==
    ASSUME Refines, FailStep
    PROVE  Chain!Next
<1>1. /\ pc = "agent" /\ pc' = "failed" /\ step \in Step /\ status[step] = "running"
      /\ gates' = gates /\ snap \in Snapshot /\ snap' = StepFailed(snap, step)
  BY DEF Refines, FailStep, Consistent, OneInWork, TypeOK
<1>2. ChainStatus' = [ChainStatus EXCEPT ![step] = "broken"]
  <2>1. /\ snap'.status = [snap.status EXCEPT ![step] = "failed"]
        /\ snap.status \in [Step -> Status]
    BY <1>1 DEF StepFailed, Snapshot
  <2>2. ChainStatus' = [ChainStatus EXCEPT ![step] = Seen("failed")]
    BY <1>1, <2>1, SeenMove
  <2> QED BY <2>2, SeenValues
<1>3. /\ ChainStatus[step] = "doing" /\ ChainDue = 0 /\ ChainDue' = 0
      /\ ChainOutcome = "open" /\ ChainOutcome' = "open"
  BY <1>1, SeenValues DEF Refines, ChainIsView
<1>4. Chain!Break(step)
  BY <1>1, <1>2, <1>3 DEF Chain!Break
<1> QED BY <1>1, <1>3, <1>4 DEF Chain!Next

\* an open gate was due already,
LEMMA OpenGateIsStutter ==
    ASSUME Refines, OpenGate
    PROVE  UNCHANGED Chain!chain
<1>1. /\ pc = "gating" /\ pc' = "gate" /\ gates' = gates /\ gate' = gate
      /\ snap \in Snapshot /\ snap' = GateOpened(snap, gate)
  BY DEF Refines, OpenGate, Consistent, TypeOK
<1>2. snap'.status = snap.status
  BY <1>1 DEF GateOpened, Snapshot
<1> QED BY <1>1, <1>2 DEF Refines, ChainIsView, Chain!chain, ChainStatus

\* An approval and a revise move the chain; an abort does when it is logged.
LEMMA ResolveGateIsAnswer ==
    ASSUME Refines, ResolveGate
    PROVE  [Chain!Next]_(Chain!chain)
<1>1. /\ pc = "gate" /\ step \in Step /\ gate \in Gate /\ AfterStep[gate] = step
      /\ gates' = gates /\ snap \in Snapshot /\ snap.openGate = gate /\ gate # 0
      /\ snap' = GateResolved(snap, gate, taken'.action)
  BY GateAtWork, Numbers DEF Refines, ResolveGate, Consistent, ReplayAgrees, TypeOK
<1>2. ChainDue = gate /\ ChainOutcome = "open"
  BY <1>1 DEF Refines, ChainIsView
<1>3. snap.status \in [Step -> Status]
  BY <1>1 DEF Snapshot
<1>4. CASE taken'.action = "approve"
  <2>1. pc' = "drive"
    BY <1>4 DEF ResolveGate, AfterAnswer
  <2>2. snap'.status = snap.status
    BY <1>1, <1>3, <1>4 DEF GateResolved, Snapshot
  <2>3. ChainDue' = 0 /\ ChainOutcome' = "open" /\ ChainStatus' = ChainStatus
    BY <2>1, <2>2 DEF Refines, ChainIsView, ChainStatus
  <2> QED BY <1>1, <1>2, <2>3 DEF Chain!Approve, Chain!Next
<1>5. CASE taken'.action = "revise"
  <2>1. pc' = "requeue"
    BY <1>5 DEF ResolveGate, AfterAnswer
  <2>2. snap'.status = [snap.status EXCEPT ![step] = "pending"]
    BY <1>1, <1>3, <1>5 DEF GateResolved, Snapshot
  <2>3. ChainStatus' = [ChainStatus EXCEPT ![step] = Seen("pending")]
    BY <1>1, <1>3, <2>2, SeenMove
  <2>4. ChainDue' = 0 /\ ChainOutcome' = "open"
    BY <2>1 DEF Refines, ChainIsView
  <2> QED BY <1>1, <1>2, <2>3, <2>4, SeenValues DEF Chain!Revise, Chain!Next
<1>6. CASE taken'.action = "abort"
  <2>1. pc' = "aborting" /\ gate' = gate
    BY <1>6 DEF ResolveGate, AfterAnswer
  <2>2. snap'.status = snap.status
    BY <1>1, <1>3, <1>6 DEF GateResolved, Snapshot
  <2>3. ChainDue' = gate /\ ChainOutcome' = "open" /\ ChainStatus' = ChainStatus
    BY <2>1, <2>2 DEF Refines, ChainIsView, ChainStatus
  <2> QED BY <1>1, <1>2, <2>3 DEF Chain!chain
<1> QED BY <1>4, <1>5, <1>6 DEF ResolveGate

\* a requeue was part of the answer,
LEMMA RequeueIsStutter ==
    ASSUME Refines, Requeue
    PROVE  UNCHANGED Chain!chain
<1>1. /\ pc = "requeue" /\ pc' = "drive" /\ gates' = gates /\ step \in Step
      /\ snap \in Snapshot /\ snap' = StepQueued(snap, step)
      /\ snap.status[step] = "pending" /\ snap.status \in [Step -> Status]
  BY DEF Refines, Requeue, Consistent, TypeOK, OneInWork, ReplayAgrees, Snapshot
<1>2. snap'.status = snap.status
  BY <1>1 DEF StepQueued, Snapshot
<1> QED BY <1>1, <1>2 DEF Refines, ChainIsView, Chain!chain, ChainStatus

\* The three places an abort is logged.
LEMMA RunAbortedIsAbort ==
    ASSUME Refines, NEW why, snap' = RunAborted(snap, why), gates' = gates,
           pc # "exit"
    PROVE  Chain!Next
<1>1. snap \in Snapshot /\ ChainOutcome = "open"
  BY DEF Refines, Consistent, TypeOK, ChainIsView
<1>2. /\ snap'.status = snap.status /\ snap'.openGate = 0
      /\ snap'.terminal /\ snap'.tail = "run_aborted"
  BY <1>1 DEF RunAborted, Snapshot
<1>3. ChainStatus' = ChainStatus /\ ChainDue' = 0 /\ ChainOutcome' = "aborted"
  BY <1>2 DEF ChainStatus, ChainDue, ChainOutcome
<1> QED BY <1>1, <1>3 DEF Chain!Abort, Chain!Next

\* and the answer to a failure retries or ends the chain.
LEMMA ResolveFailureIsAnswer ==
    ASSUME Refines, ResolveFailure
    PROVE  Chain!Next
<1>1. /\ pc = "failed" /\ step \in Step /\ status[step] = "failed"
      /\ gates' = gates /\ snap \in Snapshot /\ snap.status \in [Step -> Status]
      /\ \/ pc' = "drive" /\ snap' = StepQueued(snap, step)
         \/ snap' = RunAborted(snap, "by user")
  BY DEF Refines, ResolveFailure, Consistent, OneInWork, TypeOK, Snapshot
<1>2. CASE snap' = RunAborted(snap, "by user")
  BY <1>1, <1>2, RunAbortedIsAbort
<1>3. CASE pc' = "drive" /\ snap' = StepQueued(snap, step)
  <2>1. snap'.status = [snap.status EXCEPT ![step] = "pending"]
    BY <1>1, <1>3 DEF StepQueued, Snapshot
  <2>2. ChainStatus' = [ChainStatus EXCEPT ![step] = Seen("pending")]
    BY <1>1, <2>1, SeenMove
  <2>3. /\ ChainStatus[step] = "broken" /\ ChainDue = 0 /\ ChainDue' = 0
        /\ ChainOutcome = "open" /\ ChainOutcome' = "open"
    BY <1>1, <1>3, SeenValues DEF Refines, ChainIsView
  <2>4. Chain!Retry(step)
    BY <1>1, <2>2, <2>3, SeenValues DEF Chain!Retry
  <2> QED BY <1>1, <2>3, <2>4 DEF Chain!Next
<1> QED BY <1>1, <1>2, <1>3

\* The resumed runner knows the gate it stands at and no other.
LEMMA ResumeIsForget ==
    ASSUME Refines, ResumeAtGate
    PROVE  Chain!Next
<1>1. /\ pc = "down" /\ pc' = "gate" /\ snap' = snap /\ gate' = gate
      /\ gates' = {gate} /\ snap.openGate = gate /\ gate # 0
  BY DEF Refines, ResumeAtGate, StopInLog
<1>2. ChainDue = gate /\ ChainDue' = gate
  BY <1>1 DEF ChainDue
<1>3. ChainOutcome = "open" /\ ChainOutcome' = "open" /\ ChainStatus' = ChainStatus
  BY <1>1 DEF Refines, ChainIsView, ChainStatus
<1> QED BY <1>1, <1>2, <1>3 DEF Chain!ForgetGates, Chain!Next

\* Every step of the run is a step of the chain or changes nothing in it.
LEMMA NextRefines == Refines /\ [Next]_vars => [Chain!Next]_(Chain!chain)
<1> SUFFICES ASSUME Refines, [Next]_vars PROVE [Chain!Next]_(Chain!chain)
  OBVIOUS
<1>1. CASE Start \/ StartStep \/ FinishRun \/ CompleteStep \/ FailStep
  BY <1>1, StartIsStutter, StartStepIsBegin, FinishRunIsEnd, CompleteStepIsFinish,
     FailStepIsBreak
<1>2. CASE OpenGate \/ ResolveGate \/ Requeue \/ ResolveFailure
  BY <1>2, OpenGateIsStutter, ResolveGateIsAnswer, RequeueIsStutter,
     ResolveFailureIsAnswer
<1>3. CASE AbortAtGate \/ AbortDangling
  BY <1>3, RunAbortedIsAbort DEF AbortAtGate, AbortDangling, runner, channel, history
<1>4. CASE ResumeAtGate
  BY <1>4, ResumeIsForget
<1>5. CASE Click \/ Deliver \/ Crash \/ UNCHANGED vars
  <2>1. snap' = snap /\ gate' = gate /\ gates' = gates
    BY <1>5 DEF Click, Deliver, Crash, vars, runner, channel, history
  <2> QED BY <2>1 DEF Chain!chain, ChainStatus, ChainDue, ChainOutcome
<1> QED BY <1>1, <1>2, <1>3, <1>4, <1>5 DEF Next, RunnerStep, Restart

\* A run that has not started is a chain that has not.
LEMMA InitRefines == Init => Chain!Init /\ StopInLog
<1> SUFFICES ASSUME Init PROVE Chain!Init /\ StopInLog
  OBVIOUS
<1>1. /\ pc = "idle" /\ gate = 0 /\ snap = NoLog /\ gates \in SUBSET Gate
  BY DEF Init
<1>2. /\ snap.status = [s \in Step |-> "pending"] /\ snap.openGate = 0
      /\ snap.tail = "none" /\ ~snap.terminal
  BY <1>1 DEF NoLog
<1>3. ChainStatus = [s \in Step |-> "todo"] /\ ChainDue = 0 /\ ChainOutcome = "open"
  BY <1>2, SeenValues DEF ChainStatus, ChainDue, ChainOutcome
<1> QED BY <1>1, <1>2, <1>3 DEF Chain!Init, StopInLog

\* For every plan, the log of a run replays to a behaviour of the promised
\* handoff chain: steps one at a time in dependency order, nothing past an
\* unanswered gate or a failure, and no move after the end.
THEOREM RunIsChain == Spec => ImplementsChain
<1>1. Spec => []StopInLog
  BY InitRefines, NextStopInLog, AlwaysConsistent, PTL DEF Spec
<1>2. Consistent /\ StopInLog /\ Consistent' /\ StopInLog' /\ [Next]_vars
         => [Chain!Next]_(Chain!chain)
  <2>1. (Consistent /\ StopInLog => ChainIsView)'
    BY ViewOfChain, PTL
  <2> QED BY <2>1, ViewOfChain, NextRefines DEF Refines
<1> QED BY <1>1, <1>2, InitRefines, AlwaysConsistent, PTL DEF Spec, ImplementsChain, Chain!Spec

-------------------------------------------------------------------------------
(* What a selective revise keeps.                                           *)

\* What is kept through a revise stays shown in every step.
LEMMA NextKept == Consistent /\ KeptIsPreserved /\ [Next]_vars => KeptIsPreserved'
<1> SUFFICES ASSUME Consistent, KeptIsPreserved, [Next]_vars PROVE KeptIsPreserved'
  OBVIOUS
<1> USE DEF KeptIsPreserved, runner, channel, history
<1>0. /\ keep \in [Step -> SUBSET Path] /\ preserved \in [Step -> SUBSET Path]
      /\ pc \in {"agent", "failed"} \/ AtGate => step \in Step
  BY DEF Consistent, TypeOK, OneInWork
<1>1. CASE Start \/ StartStep \/ FinishRun \/ FailStep
  BY <1>1 DEF Start, StartStep, FinishRun, FailStep
<1>2. CASE CompleteStep
  <2>1. \A s \in Step : keep'[s] = IF s = step THEN {} ELSE keep[s]
    BY <1>0, <1>2 DEF CompleteStep
  <2>2. \A s \in Step : s # step => preserved'[s] = preserved[s]
    BY <1>0, <1>2 DEF CompleteStep
  <2>3. pc' \in {"gating", "drive"}
    BY <1>2 DEF CompleteStep
  <2> QED BY <2>1, <2>2, <2>3
<1>3. CASE OpenGate
  BY <1>3 DEF OpenGate
<1>4. CASE ResolveGate
  <2>1. \A s \in Step :
           keep'[s] = {} \/ (keep'[s] = keep[s] /\ preserved'[s] = preserved[s])
    BY <1>0, <1>4 DEF ResolveGate, ClearReviseState
  <2>2. /\ pc = "gate" /\ pc' # "down"
        /\ artifacts' = artifacts /\ step' = step /\ review' = review
    BY <1>4 DEF ResolveGate, AfterAnswer
  <2> QED BY <2>1, <2>2
<1>5. CASE Requeue
  <2>1. /\ pc = "requeue" /\ pc' = "drive" /\ step \in Step
        /\ artifacts[step] \cap Shown \subseteq review
    BY <1>0, <1>5 DEF Requeue
  <2>2. /\ keep'[step] = IF Selective THEN artifacts[step] \ taken.flagged ELSE {}
        /\ preserved'[step] = IF Selective THEN review \ taken.flagged ELSE {}
        /\ \A s \in Step : s # step => keep'[s] = keep[s] /\ preserved'[s] = preserved[s]
    BY <1>0, <1>5, <2>1 DEF Requeue
  <2> QED BY <2>1, <2>2
<1>6. CASE AbortAtGate \/ ResolveFailure \/ AbortDangling
  BY <1>6 DEF AbortAtGate, ResolveFailure, AbortDangling
<1>7. CASE Click \/ Deliver \/ UNCHANGED vars
  BY <1>7 DEF Click, Deliver, vars
<1>8. CASE Crash
  BY <1>8 DEF Crash
<1>9. CASE ResumeAtGate
  BY <1>9 DEF ResumeAtGate
<1> QED BY <1>1, <1>2, <1>3, <1>4, <1>5, <1>6, <1>7, <1>8, <1>9
        DEF Next, RunnerStep, Restart

\* Only the agent's success and a resume complete a step.
LEMMA WhoCompletes ==
    ASSUME Consistent, [Next]_vars
    PROVE  \/ CompleteStep
           \/ ResumeAtGate
           \/ status' = status
           \/ \E t \in Step, x \in {"running", "failed", "pending"} :
                 status' = [status EXCEPT ![t] = x]
<1> USE DEF runner, channel, history
<1>1. CASE StartStep
  BY <1>1, NextIsReady DEF StartStep
<1>2. CASE FailStep \/ Requeue \/ ResolveFailure
  BY <1>2 DEF FailStep, Requeue, ResolveFailure, Consistent, OneInWork
<1>3. CASE \/ Start \/ FinishRun \/ OpenGate \/ ResolveGate \/ AbortAtGate
           \/ Click \/ Deliver \/ Crash \/ AbortDangling \/ UNCHANGED vars
  BY <1>3 DEF Start, FinishRun, OpenGate, ResolveGate, AbortAtGate, Click, Deliver,
     Crash, AbortDangling, vars
<1> QED BY <1>1, <1>2, <1>3 DEF Next, RunnerStep, Restart

\* The step that completes anew leaves what was kept as it was.
LEMMA CompletionKeeps ==
    ASSUME Consistent, KeptIsPreserved, [Next]_vars,
           NEW s \in Step, status[s] = "running", status'[s] = "completed"
    PROVE  keep[s] \cap Shown \subseteq artifacts'[s]
<1>1. status \in [Step -> Status] /\ artifacts \in [Step -> SUBSET Path]
  BY DEF Consistent, TypeOK
<1>2. CASE CompleteStep
  <2>1. PICK collected \in SUBSET Path :
           artifacts' = [artifacts EXCEPT ![step] = Merged(step, collected)]
    BY <1>2 DEF CompleteStep
  <2>2. s = step
    BY <1>2 DEF CompleteStep, Consistent, OneInWork
  <2> QED BY <1>1, <2>1, <2>2 DEF Merged, KeptIsPreserved
<1>3. CASE ResumeAtGate
  BY <1>3 DEF ResumeAtGate, KeptIsPreserved
<1> QED BY <1>1, <1>2, <1>3, WhoCompletes

\* For every plan and every set of shown paths: what a gate showed and a
\* selective revise did not flag is among the step's artifacts when it
\* completes again, whatever fails and is retried in between.
THEOREM ShownIsKept == Spec => UnflaggedShownKept
<1>1. Init => KeptIsPreserved
  BY DEF Init, KeptIsPreserved
<1>2. Consistent /\ KeptIsPreserved /\ [Next]_vars
        => [\A s \in Step : status[s] = "running" /\ status'[s] = "completed"
                               => keep[s] \cap Shown \subseteq artifacts'[s]]_vars
  BY CompletionKeeps
<1> QED BY <1>1, <1>2, NextKept, AlwaysConsistent, PTL DEF Spec, UnflaggedShownKept
-------------------------------------------------------------------------------
(* The roster.                                                              *)

\* No step depends on itself.
LEMMA NotItself == \A s \in Step : DependsOn[s] # s
<1>1. PICK rank \in [Step -> Step] :
         \A s \in Step : DependsOn[s] # 0 => rank[DependsOn[s]] < rank[s]
  BY PlanDependencies DEF PlanDependencies
<1> SUFFICES ASSUME NEW s \in Step, DependsOn[s] = s PROVE FALSE
  OBVIOUS
<1>2. s # 0 /\ rank[s] < rank[s]
  BY <1>1, Numbers
<1>3. rank[s] \in Nat
  BY <1>1, PlanShape DEF PlanShape, Step
<1> QED BY <1>2, <1>3

\* Completing, failing or queueing a step makes none of those before it ready,
\* unless it is one that waits for this step.
LEMMA NoneBeforeKept ==
    ASSUME NEW at \in [Step -> Status], NEW s \in Step, NEW x \in Status,
           NoneBefore(at, s)
    PROVE  NoneBefore([at EXCEPT ![s] = x], s)
<1> DEFINE new == [at EXCEPT ![s] = x]
<1> SUFFICES ASSUME NEW t \in Step, t < s, new[t] = "pending"
             PROVE  DependsOn[t] # 0 /\ (DependsOn[t] = s \/ new[DependsOn[t]] # "completed")
  BY DEF NoneBefore
<1>1. t # s /\ at[t] = "pending"
  BY PlanShape DEF PlanShape, Step
<1>2. DependsOn[t] # 0 /\ (DependsOn[t] = s \/ at[DependsOn[t]] # "completed")
  BY <1>1 DEF NoneBefore
<1> QED BY <1>2, Dependency

\* A step that starts has none before it that is ready.
LEMMA StartsFirst ==
    ASSUME Consistent, NEW s \in NextPendingStep
    PROVE  NoneBefore([status EXCEPT ![s] = "running"], s)
<1> DEFINE new == [status EXCEPT ![s] = "running"]
<1>0. status \in [Step -> Status] /\ s \in Step /\ \A t \in Ready : s <= t
  BY NextIsReady DEF Consistent, TypeOK, NextPendingStep, First
<1> SUFFICES ASSUME NEW t \in Step, t < s, new[t] = "pending"
             PROVE  DependsOn[t] # 0 /\ (DependsOn[t] = s \/ new[DependsOn[t]] # "completed")
  BY DEF NoneBefore
<1>1. t # s /\ t \notin Ready /\ status[t] = "pending"
  BY <1>0, PlanShape DEF PlanShape, Step
<1> QED BY <1>0, <1>1, Dependency DEF Ready

\* A step that was queued again is the one that starts.
LEMMA QueuedStarts ==
    ASSUME step \in Ready, NoneBefore(status, step), NEW s \in NextPendingStep
    PROVE  s = step
<1>1. s \in Ready /\ s <= step /\ s \in Step /\ step \in Step
  BY DEF NextPendingStep, First, Ready
<1>2. ~ s < step
  BY <1>1 DEF NoneBefore, Ready
<1> QED BY <1>1, <1>2, PlanShape DEF PlanShape, Step

\* A step in work that is queued again is ready.
LEMMA QueuedIsReady ==
    ASSUME Consistent, step \in Step, status[step] # "pending",
           status' = [status EXCEPT ![step] = "pending"]
    PROVE  step \in Ready'
<1>1. DependsOn[step] # 0 => DependsOn[step] \in Step /\ DependsOn[step] # step
  BY Dependency, NotItself
<1> QED BY <1>1 DEF Ready, Consistent, TypeOK, DependencyRespected

\* Every step keeps the chip with the owner of the step in work.
LEMMA NextRoster == Consistent /\ StopInLog /\ RosterKept /\ [Next]_vars => RosterKept'
<1> SUFFICES ASSUME Consistent, StopInLog, RosterKept, [Next]_vars PROVE RosterKept'
  OBVIOUS
<1> USE DEF RosterKept, RosterIsOwner, runner, channel, history
<1>0. /\ snap \in Snapshot /\ ReplayAgrees /\ ParkedLog /\ pc \in PC
      /\ status \in [Step -> Status] /\ {"pending", "running", "completed", "failed"} \subseteq Status
      /\ AtGate \/ pc \in {"agent", "failed"} => step \in Step /\ chips = {step}
      /\ pc = "drive" => chips \subseteq {step}
      /\ Live /\ chips # {} => NoneBefore(status, step)
  BY DEF Consistent, TypeOK, OneInWork, Status
<1>1. CASE Start
  BY <1>1 DEF Start, RunStarted
<1>2. CASE StartStep
  <2>1. /\ pc = "drive" /\ pc' = "agent" /\ step' \in NextPendingStep
        /\ chips' = chips \cup {step'} /\ status' = [status EXCEPT ![step'] = "running"]
        /\ snap'.tail = "step_started"
    BY <1>0, <1>2, NextIsReady DEF StartStep, StepStarted, Snapshot
  <2>2. chips # {} => chips = {step} /\ step' = step
    BY <1>0, <2>1, QueuedStarts
  <2> QED BY <2>1, <2>2, StartsFirst
<1>3. CASE FinishRun
  <2>1. /\ pc = "drive" /\ pc' = "exit" /\ NextPendingStep = {} /\ chips' = chips
        /\ snap'.tail # "gate_opened"
    BY <1>0, <1>3 DEF FinishRun, RunCompleted, RunAborted, Snapshot
  <2>2. chips = {}
    BY <2>1, NoneReady DEF AllCompleted, Ready
  <2> QED BY <2>1, <2>2
<1>4. CASE CompleteStep
  <2>1. snap'.tail = "step_completed"
    BY <1>0, <1>4 DEF CompleteStep, StepCompleted, Snapshot
  <2>2. /\ pc = "agent" /\ step' = step
        /\ status' = [status EXCEPT ![step] = "completed"]
        /\ \/ pc' = "gating" /\ chips' = chips
           \/ pc' = "drive" /\ chips' = chips \ {step}
    BY <1>4 DEF CompleteStep
  <2>3. NoneBefore(status', step) \/ chips' = {}
    BY <1>0, <2>2, NoneBeforeKept
  <2> QED BY <1>0, <2>1, <2>2, <2>3
<1>5. CASE FailStep
  <2>1. /\ pc = "agent" /\ pc' = "failed" /\ step' = step /\ chips' = chips
        /\ status' = [status EXCEPT ![step] = "failed"] /\ snap'.tail = "step_failed"
    BY <1>0, <1>5 DEF FailStep, StepFailed, Snapshot
  <2>2. NoneBefore(status', step)
    BY <1>0, <2>1, NoneBeforeKept
  <2> QED BY <1>0, <2>1, <2>2
<1>6. CASE OpenGate
  <2>1. /\ pc = "gating" /\ pc' = "gate" /\ UNCHANGED <<step, status, chips>>
        /\ snap'.openGate = gate /\ snap'.status = snap.status
    BY <1>0, <1>6 DEF OpenGate, GateOpened, Snapshot
  <2>2. AfterStep[gate] = step
    BY <2>1, GateAtWork
  <2>3. NoneBefore(snap.status, step)
    BY <1>0, <2>1, Dependency DEF NoneBefore, ReplayAgrees
  <2> QED BY <1>0, <2>1, <2>2, <2>3
<1>7. CASE ResolveGate
  <2>1. /\ pc = "gate" /\ UNCHANGED <<step, status>> /\ snap'.tail = "gate_resolved"
        /\ \/ pc' = "drive" /\ chips' = chips \ {step}
           \/ pc' \in {"requeue", "aborting"} /\ chips' = chips
    BY <1>0, <1>7 DEF ResolveGate, AfterAnswer, GateResolved, Snapshot
  <2> QED BY <1>0, <2>1
<1>8. CASE Requeue \/ ResolveFailure
  <2>1. pc \in {"requeue", "failed"} /\ status[step] # "pending" /\ step' = step
    BY <1>8 DEF Requeue, ResolveFailure, Consistent, OneInWork
  <2>2. snap'.tail \in {"step_queued", "run_aborted"}
    BY <1>0, <1>8 DEF Requeue, ResolveFailure, StepQueued, RunAborted, Snapshot
  <2>3. \/ /\ status' = [status EXCEPT ![step] = "pending"] /\ pc' = "drive"
           /\ chips' = chips
        \/ pc' = "exit" /\ chips' = chips \ {step}
    BY <1>8 DEF Requeue, ResolveFailure
  <2>4. CASE pc' = "drive"
    <3>1. step \in Ready' /\ NoneBefore(status', step)
      BY <1>0, <2>1, <2>3, <2>4, QueuedIsReady, NoneBeforeKept
    <3> QED BY <1>0, <2>1, <2>2, <2>3, <2>4, <3>1
  <2> QED BY <1>0, <2>1, <2>2, <2>3, <2>4
<1>9. CASE AbortAtGate \/ AbortDangling
  BY <1>0, <1>9 DEF AbortAtGate, AbortDangling, RunAborted, Snapshot
<1>10. CASE Click \/ Deliver \/ UNCHANGED vars
  BY <1>10 DEF Click, Deliver, vars, Ready
<1>11. CASE Crash
  BY <1>0, <1>11 DEF Crash
<1>12. CASE ResumeAtGate
  BY <1>0, <1>12 DEF ResumeAtGate
<1> QED BY <1>1, <1>2, <1>3, <1>4, <1>5, <1>6, <1>7, <1>8, <1>9, <1>10, <1>11, <1>12
        DEF Next, RunnerStep, Restart

\* For every plan: while a step is in work the roster shows its owner and nobody
\* else, through failures, revises and restarts; a run that the user or the plan
\* ended leaves nobody behind.  What it needs is that driveSteps takes a step
\* that was queued again before any other.
THEOREM RosterShowsOwner == Spec => []RosterIsOwner
<1>1. Spec => []StopInLog
  BY InitRefines, NextStopInLog, AlwaysConsistent, PTL DEF Spec
<1>2. Init => RosterKept
  <2>1. NoLog.tail # "gate_opened"
    BY DEF NoLog
  <2> QED BY <2>1 DEF Init, RosterKept, RosterIsOwner
<1>3. RosterKept => RosterIsOwner
  BY DEF RosterKept
<1> QED BY <1>1, <1>2, <1>3, NextRoster, AlwaysConsistent, PTL DEF Spec
===============================================================================
