---------------------------- MODULE ExecuteDispatch ----------------------------
(***************************************************************************)
(* Execution runs seen from the orchestrator: dispatches that supersede     *)
(* earlier runs of the same plan, the single activePlanRunner pointer gate  *)
(* clicks go through, the run logs on disk, and the startup replay that     *)
(* aborts or resumes what a dead process left behind                        *)
(* (handleExecuteMessageWithPlan, supersedePreviousRun,                     *)
(* replayRunLogsOnStartup and what they call, internal/orchestrator).       *)
(*                                                                         *)
(* A run here is what PlanRunner details: a goroutine that works, parks at  *)
(* a gate or failure and ends.  Its log is the kind of its last event.  The *)
(* channel listener is started before Orchestrator.Run, so dispatches and   *)
(* clicks can be handled while the startup replay is still under way.       *)
(*                                                                         *)
(* Any append to a log, and any reading of one, may fail: the error is      *)
(* logged and the caller goes on.  What a write that is cut short does to   *)
(* the lines of a log is in RunLogFile.                                     *)
(***************************************************************************)
EXTENDS Naturals, FiniteSets

CONSTANTS
    Plan,       \* plans of the project that have a markdown file
    Inline,     \* stands for inline [execute:plan] dispatches, with no log
    MaxRuns     \* bound on the dispatches made

ASSUME DispatchConstants == Inline \notin Plan /\ MaxRuns \in Nat

\* Runs are numbered in the order they are dispatched, 0 stands for nil
Run == 1..MaxRuns

VARIABLES
    planOf,     \* the plan of each dispatched run
    go,         \* each run's goroutine
    tail,       \* the last event of each run's log file
    active,     \* o.activePlanRunner
    up,         \* the process and how far its startup replay has come
    todo,       \* ActiveRun records the replay has not triaged yet
    failed      \* history: runs whose log once could not be written or read

vars == <<planOf, go, tail, active, up, todo, failed>>

\* "parked" waits in handleGate or handleStepFailure, "resumed" in ResumeAtGate
Waiting   == {"parked", "resumed"}
Goroutine == {"none", "starting", "working", "returned"} \cup Waiting
Tail      == {"absent", "work", "gate_opened", "terminal"}
ActiveRun == [run : Run, tail : Tail]

Alive == {r \in Run : go[r] \notin {"none", "returned"}}

\* Mutant: only parked runs are listed
ActiveLogs_parked(p) == {r \in Run : planOf[r] = p /\ tail[r] = "gate_opened"}

\* runs.ListActive: logs whose last event is not terminal
ActiveLogs(p) == {r \in Run : planOf[r] = p /\ tail[r] \in {"work", "gate_opened"}}

Newest(S) == CHOOSE r \in S : \A q \in S : q <= r

\* runs.Append of an event to a run's log, or its error, of which FileAppender tells
\* nobody; inline runs have a NoopAppender
AppendEvent(r, event) ==
    \/ /\ tail' = IF planOf[r] = Inline THEN tail ELSE [tail EXCEPT ![r] = event]
       /\ UNCHANGED failed
    \/ /\ planOf[r] # Inline
       /\ failed' = failed \cup {r} /\ UNCHANGED tail

Init ==
    /\ planOf = [r \in Run |-> Inline]
    /\ go = [r \in Run |-> "none"]
    /\ tail = [r \in Run |-> "absent"]
    /\ active = 0
    /\ up = "up"
    /\ todo = {}
    /\ failed = {}

-------------------------------------------------------------------------------
(* The listener: dispatches and gate clicks, one message at a time.         *)

NextRun == Cardinality({r \in Run : go[r] # "none"}) + 1

\* supersedePreviousRun: every non-terminal log of the plan gets run_aborted, but
\* for those that cannot be read or written; the goroutine behind it is not told
Superseded(p) ==
    \E skipped \in SUBSET ActiveLogs(p) :
        /\ tail' = [r \in Run |-> IF r \in ActiveLogs(p) \ skipped THEN "terminal" ELSE tail[r]]
        /\ failed' = failed \cup skipped

\* Mutant: installs the runner only when none is active, as the replay does
Dispatch_ifFree(p) ==
    /\ up \in {"replay", "up"} \/ (up = "boot" /\ p = Inline)
    /\ NextRun \in Run
    /\ planOf' = [planOf EXCEPT ![NextRun] = p]
    /\ go' = [go EXCEPT ![NextRun] = "starting"]
    /\ IF p = Inline THEN UNCHANGED <<tail, failed>> ELSE Superseded(p)
    /\ active' = IF active = 0 THEN NextRun ELSE active
    /\ UNCHANGED <<up, todo>>

\* handleExecuteMessageWithPlan up to the go statement.  Before the replay
\* begins there is no planStore (initPlanStore precedes it immediately), and a
\* plan from disk cannot be dispatched
Dispatch(p) ==
    /\ up \in {"replay", "up"} \/ (up = "boot" /\ p = Inline)
    /\ NextRun \in Run
    /\ planOf' = [planOf EXCEPT ![NextRun] = p]
    /\ go' = [go EXCEPT ![NextRun] = "starting"]
    /\ IF p = Inline THEN UNCHANGED <<tail, failed>> ELSE Superseded(p)
    /\ active' = NextRun
    /\ UNCHANGED <<up, todo>>

\* routeGateResolution: only the active runner can be answered.  An abort
\* ends the run, anything else sets it to work again
Answer ==
    /\ active # 0 /\ go[active] \in Waiting
    /\ \/ /\ go' = [go EXCEPT ![active] = "working"]
          /\ AppendEvent(active, "work")
       \/ /\ go' = [go EXCEPT ![active] = "returned"]
          /\ AppendEvent(active, "terminal")
    /\ UNCHANGED <<planOf, active, up, todo>>

-------------------------------------------------------------------------------
(* A run's goroutine.  It appends without looking at the tail of its log.   *)

\* PlanRunner.Run: the header is the first thing the goroutine writes
StartRun(r) ==
    /\ go[r] = "starting"
    /\ go' = [go EXCEPT ![r] = "working"]
    /\ AppendEvent(r, "work")
    /\ UNCHANGED <<planOf, active, up, todo>>

StepEvent(r) ==
    /\ go[r] = "working"
    /\ AppendEvent(r, "work")
    /\ UNCHANGED <<planOf, go, active, up, todo>>

\* At a gate the tail is gate_opened, at a failed step it is step_failed
Park(r) ==
    /\ go[r] = "working"
    /\ go' = [go EXCEPT ![r] = "parked"]
    /\ \E event \in {"gate_opened", "work"} : AppendEvent(r, event)
    /\ UNCHANGED <<planOf, active, up, todo>>

Finish(r) ==
    /\ go[r] = "working"
    /\ go' = [go EXCEPT ![r] = "returned"]
    /\ AppendEvent(r, "terminal")
    /\ UNCHANGED <<planOf, active, up, todo>>

\* After Run returned, the goroutine clears the pointer if it is its own
Unregister(r) ==
    /\ go[r] = "returned" /\ active = r
    /\ active' = 0
    /\ UNCHANGED <<planOf, go, tail, up, todo, failed>>

-------------------------------------------------------------------------------
(* The process dies with all its goroutines, and is started again.          *)

Crash ==
    /\ up # "down"
    /\ up' = "down"
    /\ go' = [r \in Run |-> IF go[r] = "none" THEN "none" ELSE "returned"]
    /\ active' = 0
    /\ todo' = {}
    /\ UNCHANGED <<planOf, tail, failed>>

\* StartChannelListener, then Orchestrator.Run up to initPlanStore
Boot ==
    /\ up = "down"
    /\ up' = "boot"
    /\ UNCHANGED <<planOf, go, tail, active, todo, failed>>

\* replayRunLogsForProjectDir: list the non-terminal logs, abort all but the
\* newest of each plan.  A log that cannot be read is not listed, and one whose
\* abort cannot be written stays as it is
ScanLogs ==
    /\ up = "boot"
    /\ up' = "replay"
    /\ \E skipped \in SUBSET UNION {ActiveLogs(p) : p \in Plan} :
         LET logs(p) == ActiveLogs(p) \ skipped
             listed  == {p \in Plan : logs(p) # {}}
             kept    == {Newest(logs(p)) : p \in listed}
         IN  /\ todo' = {[run |-> r, tail |-> tail[r]] : r \in kept}
             /\ tail' = [r \in Run |->
                            IF planOf[r] \in listed /\ r \in logs(planOf[r]) \ kept
                            THEN "terminal" ELSE tail[r]]
             /\ failed' = failed \cup skipped
    /\ UNCHANGED <<planOf, go, active>>

\* triageRunLog, by the tail the listing saw: a run parked at a gate is resumed if
\* its log still has the gate open, and installed when no runner is active
\* (reconstructGateParkedRunner) ...
Resume(rec) ==
    /\ rec.tail = "gate_opened" /\ tail[rec.run] = "gate_opened"
    /\ go' = [go EXCEPT ![rec.run] = "resumed"]
    /\ active' = IF active = 0 THEN rec.run ELSE active
    /\ UNCHANGED <<tail, failed>>

\* ... and left alone when it has not, or cannot be read; any other run is aborted
LeaveOrAbort(rec) ==
    /\ UNCHANGED <<go, active>>
    /\ \/ rec.tail = "gate_opened" /\ tail[rec.run] # "gate_opened" /\ UNCHANGED <<tail, failed>>
       \/ rec.tail = "gate_opened" /\ failed' = failed \cup {rec.run} /\ UNCHANGED tail
       \/ rec.tail # "gate_opened" /\ AppendEvent(rec.run, "terminal")

Triage(rec) ==
    /\ up = "replay" /\ rec \in todo
    /\ todo' = todo \ {rec}
    /\ Resume(rec) \/ LeaveOrAbort(rec)
    /\ UNCHANGED <<planOf, up>>

\* Mutant: startup goes on with logs left to triage
ReplayDone_early ==
    /\ up = "replay"
    /\ up' = "up"
    /\ UNCHANGED <<planOf, go, tail, active, todo, failed>>

ReplayDone ==
    /\ up = "replay" /\ todo = {}
    /\ up' = "up"
    /\ UNCHANGED <<planOf, go, tail, active, todo, failed>>

-------------------------------------------------------------------------------
Startup == \/ Boot \/ ScanLogs \/ ReplayDone
           \/ \E rec \in ActiveRun : Triage(rec)

Next ==
    \/ \E p \in Plan \cup {Inline} : Dispatch(p)
    \/ Answer
    \/ \E r \in Run : \/ StartRun(r) \/ StepEvent(r) \/ Park(r)
                      \/ Finish(r) \/ Unregister(r)
    \/ Crash
    \/ Startup

Spec == Init /\ [][Next]_vars

\* Agents return, so a working run parks or ends, and a process that is down
\* is started again and gets through its replay.  Users need not answer.
FairSpec ==
    /\ Spec
    /\ \A r \in Run : /\ WF_vars(StartRun(r))
                      /\ WF_vars(Park(r) \/ Finish(r))
                      /\ WF_vars(Unregister(r))
    /\ WF_vars(Startup)
-------------------------------------------------------------------------------
(* Properties.                                                              *)

\* Every variable has its type.
TypeOK ==
    /\ planOf \in [Run -> Plan \cup {Inline}]
    /\ go \in [Run -> Goroutine]
    /\ tail \in [Run -> Tail]
    /\ active \in 0..MaxRuns
    /\ up \in {"down", "boot", "replay", "up"}
    /\ todo \in SUBSET ActiveRun
    /\ failed \in SUBSET Run

\* Once startup is over, a log that lists as active has a goroutine behind it,
\* unless it could not be written or read itself: no card in "Active Chains" is
\* left over from a dead process, whatever was dispatched, superseded or aborted
\* while the replay ran, and whatever happened to the logs of other runs.
NoOrphanLog ==
    up = "up" => \A r \in Run \ failed : tail[r] \in {"work", "gate_opened"} => r \in Alive

\* A click never reaches an older run of the plan than the newest one alive:
\* supersede, replay and late returns keep the pointer on the newest, unless the
\* older run's log is one that could not be superseded.
PointerIsNewest ==
    active \notin failed \cup {0} =>
        \A r \in Alive : planOf[r] = planOf[active] => r <= active

\* A run a crash interrupted is settled by the next startup that stays up: it
\* is aborted on disk, or lives on parked at its gate, or its log fails.
InterruptedSettles ==
    <>[](up # "down") =>
        \A r \in Run : [](/\ go[r] = "returned" /\ tail[r] \in {"work", "gate_opened"}
                          => <>(tail[r] = "terminal" \/ r \in Alive \cup failed))

-------------------------------------------------------------------------------
(* The strengthening that makes NoOrphanLog and PointerIsNewest inductive   *)
(* together.                                                                *)

Installed == IF active = 0 THEN {} ELSE {active}

\* Runs are dispatched in the order of their numbers
InOrder == \E last \in 0..MaxRuns : \A r \in Run : go[r] # "none" <=> r <= last

\* Only a dispatched run of a plan from disk has a log file
LogsHaveRuns ==
    \A r \in Run : tail[r] # "absent" => go[r] # "none" /\ planOf[r] # Inline

\* What may live at each stage of a restart
Stages ==
    /\ up = "down" => Alive = {} /\ active = 0
    /\ up = "boot" => \A r \in Alive \cup Installed : planOf[r] = Inline
    /\ up # "replay" => todo = {}

\* A log that waits for triage is its dead process's, one per plan, and was
\* superseded, or failed to be, if its plan was dispatched again in the meantime
Listed ==
    \A rec \in todo :
        /\ go[rec.run] = "returned" /\ planOf[rec.run] # Inline
        /\ rec.tail \in {"work", "gate_opened"}
        /\ tail[rec.run] \in {rec.tail, "terminal"}
        /\ \A other \in todo : planOf[other.run] = planOf[rec.run] => other = rec
        /\ \A r \in Alive \cup Installed : planOf[r] = planOf[rec.run] =>
              rec.run < r /\ (tail[rec.run] = "terminal" \/ rec.run \in failed)

\* From the scan on, a log that lists as active is somebody's to settle
Accounted ==
    up \in {"replay", "up"} =>
        \A r \in Run \ failed :
            tail[r] \in {"work", "gate_opened"} => r \in Alive \/ \E rec \in todo : rec.run = r

Supervised == /\ TypeOK /\ InOrder /\ LogsHaveRuns /\ Stages /\ Listed /\ Accounted
              /\ PointerIsNewest

-------------------------------------------------------------------------------
(* What comments of the repository say, and the code refutes.               *)

\* orchestrator.go:3183 and :2853: "one active run per plan".
OneActivePerPlan ==
    up = "up" => \A p \in Plan : Cardinality(ActiveLogs(p)) <= 1

\* orchestrator.go:2977-2979: the replay reconstructs a parked runner "so the
\* user's subsequent approve / revise / abort click reaches the runner via
\* activePlanRunner.ResolveGate".
ParkedRunReachable ==
    [][up = "replay" /\ up' = "up" =>
          \A r \in Run : go[r] = "resumed" => active = r]_vars

\* orchestrator.go:3076-3079: after a supersede "the reconstructed runner will
\* exit via its context".
SupersededExits ==
    \A r \in Run : (go[r] = "resumed" /\ tail[r] = "terminal") ~> (go[r] # "resumed")

\* orchestrator.go:3156-3157: "Run() hasn't started yet on any other path by the
\* time replayRunLogsOnStartup runs", so what it aborts has no goroutine.
ReplayRunsFirst ==
    [][up = "boot" /\ up' = "replay" => Alive = {}]_vars
===============================================================================
