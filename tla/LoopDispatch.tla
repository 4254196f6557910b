----------------------------- MODULE LoopDispatch -----------------------------
(***************************************************************************)
(* Loop mode: the ticker goroutine of GitHubLoopBackend that runs           *)
(* Orchestrator.Tick, the channel listener that also executes the actions   *)
(* of the orchestrator agent (HandleUserMessage), the dispatch goroutines   *)
(* they start, the issues and labels of the tracker, state.json, shutdown,  *)
(* crash and restart.                                                       *)
(*                                                                         *)
(* o.mu protects single reads and writes of o.active and o.retryState, so a *)
(* step here is what happens between two acquisitions of the lock or two    *)
(* calls of the tracker.                                                    *)
(***************************************************************************)
EXTENDS Integers, FiniteSets

CONSTANTS
    NTasks,         \* tasks, in the order of sortTasks
    Deps,           \* Deps[t]: the tasks that t depends on, as create_subtasks has it
    Heavy,          \* tasks with a label that has a limit of its own
    MaxConcurrent,  \* agent.max_concurrent
    MaxHeavy,       \* the entry of agent.max_concurrent_per_label
    Held,           \* tasks that match a require_approval rule
    ActiveLabels,   \* tracker.labels.active
    Local,          \* the local JSON tracker, else GitHub
    Consults,       \* an orchestrator agent is configured
    Chats,          \* the listener executes actions while the ticker runs
    MayFail,        \* agents, hooks and reviews can fail
    MayStall,       \* a run can outlast twice the stall timeout
    StopsBy,        \* how the process may stop: "shutdown", "crash"
    MaxRuns,        \* bound on dispatch goroutines alive at once
    MaxStops        \* bound on shutdowns and crashes

Task == 1..NTasks
Run  == 1..MaxRuns

ASSUME LoopConfig ==
    /\ NTasks \in Nat /\ MaxRuns \in Nat /\ MaxStops \in Nat
    /\ MaxConcurrent \in Nat /\ MaxHeavy \in Nat
    /\ Deps \in [Task -> SUBSET Task]
    /\ Heavy \subseteq Task /\ Held \subseteq Task
    /\ ActiveLabels \subseteq {"todo", "in-progress"}
    /\ StopsBy \subseteq {"shutdown", "crash"}
    /\ {Local, Consults, Chats, MayFail, MayStall} \subseteq BOOLEAN

VARIABLES
    issue,      \* the tracker: "absent", "open" or "closed"
    labels,     \* the tracker: labels of each issue
    stale,      \* active labels whose list has changed since its ETag
    lastTasks,  \* GitHubTracker.lastTasks
    active,     \* o.active, the claims
    retry,      \* o.retryState: no entry, backoff running, backoff over
    deps,       \* o.taskDeps
    seen,       \* o.lastSnapHash
    wave,       \* o.currentWave
    run,        \* the dispatch goroutines
    caller,     \* the ticker and the listener
    saved,      \* state.json
    proc,       \* the process
    stops       \* shutdowns and crashes so far

tracker == <<issue, labels, stale, lastTasks>>
memory  == <<active, retry, deps>>
vars    == <<tracker, memory, seen, wave, run, caller, saved, proc, stops>>

Caller  == {"ticker", "listener"}
Phase   == {"free", "claimed", "marked", "running", "failed", "passed", "closing"}
Backoff == {"none", "waiting", "due"}
Label   == {"todo", "in-progress", "approved"}
Hash    == [tasks : SUBSET Task, wave : {"unset", "none", "active", "exhausted"}]
Listed  == [task : Task, approved : BOOLEAN]

NoRun   == [task |-> 0, at |-> "free"]
NoWave  == [status |-> "none", frontier |-> {}]
Unseen  == [tasks |-> {}, wave |-> "unset"]
Idle    == [pc |-> "idle", rest |-> {}, follows |-> FALSE, pick |-> 0,
            hash |-> Unseen, made |-> {}, subs |-> {}]

Up == proc = "up"

\* Tracker calls succeed: the cancelled context fails those to GitHub, the
\* local tracker does not look at it
Reachable == Up \/ Local

\* What the agent's create_subtasks creates
Created == {t \in Task : Deps[t] # {}} \cup UNION {Deps[t] : t \in Task}

-------------------------------------------------------------------------------
(* The tracker, as the two implementations answer.                          *)

\* Open issues with an active label; the local tracker's tasks whose status is
\* not terminal
ActiveTasks ==
    {t \in Task : issue[t] = "open" /\ (Local \/ labels[t] \cap ActiveLabels # {})}

AsListed(tasks) == {[task |-> t, approved |-> "approved" \in labels[t]] : t \in tasks}

\* ListActive: GitHub is asked once per active label, and a list that has not
\* changed answers 304 and adds nothing; only when every list answers 304 is
\* the last result returned again
ListActive ==
    IF Local THEN AsListed(ActiveTasks)
    ELSE IF stale = {} THEN lastTasks
    ELSE AsListed({t \in ActiveTasks : labels[t] \cap stale # {}})

Fetch == stale' = {} /\ lastTasks' = IF Local THEN {} ELSE ListActive

\* An issue that is open changes the lists of the labels it has and had
Touch(t, had) ==
    /\ stale' = IF Local THEN {}
                ELSE stale \cup ((labels[t] \cup had) \cap ActiveLabels)
    /\ UNCHANGED lastTasks

\* AddLabel and RemoveLabel of an issue
Relabel(t, new) ==
    /\ labels' = [labels EXCEPT ![t] = new]
    /\ IF issue[t] = "open" /\ new # labels[t] THEN Touch(t, new)
       ELSE UNCHANGED <<stale, lastTasks>>

\* GetTask(t).Status.IsTerminal(): issueToTask of the GitHub tracker reports
\* every issue as queued
Terminal(t) == Local /\ issue[t] = "closed"

\* Mutant: only the number of listed tasks is compared
SnapshotHash_count(tasks) == [tasks |-> Cardinality(tasks), wave |-> wave.status]

\* snapshotHash: ids and statuses of the listed tasks and the wave's status;
\* both trackers list a task with one status for as long as they list it
SnapshotHash(tasks) == [tasks |-> tasks, wave |-> wave.status]

-------------------------------------------------------------------------------
(* The conditions for a dispatch.                                           *)

\* Mutant: off by one at the limits
HasSlot_offByOne(t) ==
    /\ Cardinality(active) <= MaxConcurrent
    /\ t \in Heavy => Cardinality(active \cap Heavy) <= MaxHeavy

\* availableSlots
HasSlot(t) ==
    /\ Cardinality(active) < MaxConcurrent
    /\ t \in Heavy => Cardinality(active \cap Heavy) < MaxHeavy

\* Mutant: a dependency without a claim counts as done
DepsAreMet_idle(t) == \A d \in deps[t] : d \notin active

DepsAreMet(t) == \A d \in deps[t] : Terminal(d)

\* The checks before claim(): executeActions (the agent's actions are
\* followed) makes neither the backoff check nor the rules check of
\* mechanicalDispatch, and both look at the task as it was listed
Passes(c, l) ==
    /\ l.task \notin active /\ HasSlot(l.task)
    /\ DepsAreMet(l.task)
    /\ ~caller[c].follows => /\ retry[l.task] # "waiting"
                             /\ l.task \in Held => l.approved

-------------------------------------------------------------------------------
Init ==
    /\ issue = [t \in Task |-> "absent"] /\ labels = [t \in Task |-> {}]
    /\ stale = IF Local THEN {} ELSE ActiveLabels
    /\ lastTasks = {}
    /\ active = {} /\ retry = [t \in Task |-> "none"] /\ deps = [t \in Task |-> {}]
    /\ seen = Unseen /\ wave = NoWave
    /\ run = [w \in Run |-> NoRun]
    /\ caller = [c \in Caller |-> Idle]
    /\ saved = [retry |-> retry, deps |-> deps]
    /\ proc = "up" /\ stops = 0

\* Mutant: a claim without an agent at work counts as stale
Reconcile_early ==
    /\ caller["ticker"].pc = "idle" /\ Up
    /\ active' = active \ {run[w].task : w \in {v \in Run : run[v].at = "claimed"}}
    /\ caller' = [caller EXCEPT !["ticker"].pc = "reconciled"]
    /\ UNCHANGED <<tracker, retry, deps, seen, wave, run, saved, proc, stops>>

\* Tick up to reconcile: claims of terminal tasks and of stalled runs are
\* dropped; the dispatch goroutine and its agent are not told
Reconcile ==
    /\ caller["ticker"].pc = "idle" /\ Up
    /\ \E stalled \in IF MayStall THEN SUBSET active ELSE {{}} :
          active' = active \ (stalled \cup {t \in active : Terminal(t)})
    /\ caller' = [caller EXCEPT !["ticker"].pc = "reconciled"]
    /\ UNCHANGED <<tracker, retry, deps, seen, wave, run, saved, proc, stops>>

Tasks(list) == {l.task : l \in list}

\* ConsultWithRepair: the agent's actions are followed when its answer, or the one
\* it gives when asked to repair it, parses.  Anything else is no actions
Followed == IF Consults THEN BOOLEAN ELSE {FALSE}

\* Tick: list, hash, and return when the snapshot has not changed; else the
\* agent's actions are followed, or mechanicalDispatch is the fallback
ListTasks ==
    /\ caller["ticker"].pc = "reconciled"
    /\ LET hash == SnapshotHash(Tasks(ListActive)) IN
       IF ~Reachable
       THEN /\ caller' = [caller EXCEPT !["ticker"] = Idle]
            /\ UNCHANGED <<stale, lastTasks>>
       ELSE IF hash = seen
       THEN caller' = [caller EXCEPT !["ticker"] = Idle] /\ Fetch
       ELSE /\ \E follows \in Followed :
                  caller' = [caller EXCEPT !["ticker"] =
                               [Idle EXCEPT !.pc = "dispatching", !.rest = ListActive,
                                            !.follows = follows, !.hash = hash]]
            /\ Fetch
    /\ UNCHANGED <<issue, labels, memory, seen, wave, run, saved, proc, stops>>

\* HandleUserMessage in Loop mode: the list is taken before the consultation
ListForMessage ==
    /\ Chats /\ Up /\ caller["listener"].pc = "idle"
    /\ caller' = [caller EXCEPT !["listener"] =
                     [Idle EXCEPT !.pc = "dispatching", !.rest = ListActive,
                                  !.follows = TRUE]]
    /\ Fetch
    /\ UNCHANGED <<issue, labels, memory, seen, wave, run, saved, proc, stops>>

\* The next task of the sorted list, or any the agent names
Turn(c) ==
    {l \in caller[c].rest :
        caller[c].follows \/ \A m \in caller[c].rest : l.task <= m.task}

\* The body of the loop up to claim(); o.mu is released after the check
Check(c) ==
    /\ caller[c].pc = "dispatching" /\ (caller[c].follows \/ Up)
    /\ \E l \in Turn(c) :
          caller' = [caller EXCEPT
                        ![c].rest = @ \ {l},
                        ![c].pick = IF Passes(c, l) THEN l.task ELSE 0,
                        ![c].pc = IF Passes(c, l) THEN "claiming" ELSE @]
    /\ UNCHANGED <<tracker, memory, seen, wave, run, saved, proc, stops>>

\* claim() and go dispatch()
Claim(c) ==
    /\ caller[c].pc = "claiming"
    /\ \E w \in Run :
          /\ run[w].at = "free" /\ \A v \in Run : run[v].at = "free" => w <= v
          /\ run' = [run EXCEPT ![w] = [task |-> caller[c].pick, at |-> "claimed"]]
    /\ active' = active \cup {caller[c].pick}
    /\ caller' = [caller EXCEPT ![c].pc = "dispatching", ![c].pick = 0,
                                ![c].made = @ \cup {caller[c].pick}]
    /\ UNCHANGED <<tracker, retry, deps, seen, wave, saved, proc, stops>>

\* An issue that is new, with its active label
Opens(t) ==
    /\ issue[t] = "absent"
    /\ issue' = [issue EXCEPT ![t] = "open"]
    /\ labels' = [labels EXCEPT ![t] = {"todo"}]
    /\ Touch(t, {"todo"})

\* executeActions, create_subtasks (once): the issues are created in their order; a
\* call that fails leaves one out
CreateIssue(c) ==
    /\ caller[c].pc \in {"dispatching", "creating"} /\ caller[c].follows /\ Reachable
    /\ \E t \in Created :
          /\ \A u \in Created : issue[u] = "absent" \/ (u < t /\ u \in caller[c].subs)
          /\ Opens(t)
          /\ caller' = [caller EXCEPT ![c].pc = "creating", ![c].subs = @ \cup {t}]
    /\ UNCHANGED <<memory, seen, wave, run, saved, proc, stops>>

\* The second pass registers the dependencies of those that were created
RegisterDeps(c) ==
    /\ caller[c].pc \in {"creating", "registering"}
    /\ \E t \in caller[c].subs :
          /\ deps' = [deps EXCEPT ![t] = Deps[t]]
          /\ caller' = [caller EXCEPT
                            ![c].subs = @ \ {t},
                            ![c].pc = IF caller[c].subs = {t} THEN "dispatching"
                                                              ELSE "registering"]
    /\ UNCHANGED <<tracker, active, retry, seen, wave, run, saved, proc, stops>>

\* executeActions: close_wave among the actions, then the dispatched frontier
WaveAfter(c, closes) ==
    LET now == IF closes /\ wave # NoWave
               THEN [wave EXCEPT !.status = "exhausted"] ELSE wave
    IN IF ~caller[c].follows \/ caller[c].made = {} THEN now
       ELSE [status |-> "active",
             frontier |-> caller[c].made \cup
                             IF now.status = "active" THEN now.frontier ELSE {}]

\* isWaveExhausted, asked by Tick only
Exhausted(wv) ==
    /\ wv.status = "active"
    /\ \A t \in wv.frontier : Terminal(t) \/ ~DepsAreMet(t)

\* The end of executeActions or mechanicalDispatch, and of Tick: the hash of
\* the snapshot that was listed is remembered whatever was dispatched
Finish(c) ==
    /\ caller[c].pc = "dispatching"
    /\ caller[c].rest = {} \/ caller[c].follows \/ ~Up
    /\ \E closes \in IF caller[c].follows THEN BOOLEAN ELSE {FALSE} :
          LET wv == WaveAfter(c, closes) IN
          wave' = IF c = "ticker" /\ Exhausted(wv)
                  THEN [wv EXCEPT !.status = "exhausted"] ELSE wv
    /\ seen' = IF c = "ticker" THEN caller[c].hash ELSE seen
    /\ caller' = [caller EXCEPT ![c] = Idle]
    /\ UNCHANGED <<tracker, memory, run, saved, proc, stops>>

-------------------------------------------------------------------------------
(* dispatch(), one goroutine w.                                             *)

Goes(w, from, to) ==
    /\ run[w].at = from
    /\ run' = [run EXCEPT ![w] = IF to = "free" THEN NoRun ELSE [@ EXCEPT !.at = to]]

\* in-progress is added, the other active labels are removed
Mark(w) ==
    /\ Goes(w, "claimed", "marked")
    /\ LET t == run[w].task IN
       IF Reachable THEN Relabel(t, (labels[t] \ ActiveLabels) \cup {"in-progress"})
       ELSE UNCHANGED <<labels, stale, lastTasks>>
    /\ UNCHANGED <<issue, memory, seen, wave, caller, saved, proc, stops>>

\* Mutant: the early return forgets the claim
SetupFails_keeps(w) ==
    /\ MayFail \/ ~Up
    /\ Goes(w, "marked", "free")
    /\ UNCHANGED <<tracker, memory, seen, wave, caller, saved, proc, stops>>

\* Workspace, hook or template fails, or the continuation delay is cancelled:
\* the claim is released, no failure is recorded and the labels stay
SetupFails(w) ==
    /\ MayFail \/ ~Up
    /\ Goes(w, "marked", "free")
    /\ active' = active \ {run[w].task}
    /\ UNCHANGED <<tracker, retry, deps, seen, wave, caller, saved, proc, stops>>

StartAgent(w) ==
    /\ Goes(w, "marked", "running")
    /\ UNCHANGED <<tracker, memory, seen, wave, caller, saved, proc, stops>>

\* runner.Run returns; the claim is released before anything is recorded
AgentEnds(w) ==
    /\ \/ Goes(w, "running", "passed")
       \/ (MayFail \/ ~Up) /\ Goes(w, "running", "failed")
    /\ active' = active \ {run[w].task}
    /\ UNCHANGED <<tracker, retry, deps, seen, wave, caller, saved, proc, stops>>

\* runReview: the reviewer says no; one that fails or cannot be understood passes
ReviewFails(w) == MayFail /\ Goes(w, "passed", "free")

\* recordFailure after a failed run, or after a failed review of a passed one,
\* and the comment about it
RecordFailure(w) ==
    /\ Goes(w, "failed", "free") \/ ReviewFails(w)
    /\ retry' = [retry EXCEPT ![run[w].task] = "waiting"]
    /\ IF Reachable /\ issue[run[w].task] = "open" THEN Touch(run[w].task, {})
       ELSE UNCHANGED <<stale, lastTasks>>
    /\ UNCHANGED <<issue, labels, active, deps, seen, wave, caller, saved, proc, stops>>

\* clearRetry, then in-progress is removed
Complete(w) ==
    /\ Goes(w, "passed", "closing")
    /\ retry' = [retry EXCEPT ![run[w].task] = "none"]
    /\ IF Reachable THEN Relabel(run[w].task, labels[run[w].task] \ {"in-progress"})
       ELSE UNCHANGED <<labels, stale, lastTasks>>
    /\ UNCHANGED <<issue, active, deps, seen, wave, caller, saved, proc, stops>>

CloseIssue(t) ==
    /\ issue' = [issue EXCEPT ![t] = "closed"]
    /\ IF issue[t] = "open" THEN Touch(t, {}) ELSE UNCHANGED <<stale, lastTasks>>

\* UpdateStatus(completed)
Close(w) ==
    /\ Goes(w, "closing", "free")
    /\ IF Reachable THEN CloseIssue(run[w].task)
       ELSE UNCHANGED <<issue, stale, lastTasks>>
    /\ UNCHANGED <<labels, memory, seen, wave, caller, saved, proc, stops>>

-------------------------------------------------------------------------------
(* The user, the clock and the process.                                     *)

Open(t) ==
    /\ t \notin Created /\ Opens(t)
    /\ UNCHANGED <<memory, seen, wave, run, caller, saved, proc, stops>>

\* The user closes the issue, or the agent's skip action does
Withdraw(t) ==
    /\ issue[t] = "open"
    /\ CloseIssue(t)
    /\ UNCHANGED <<labels, memory, seen, wave, run, caller, saved, proc, stops>>

Approve(t) ==
    /\ issue[t] = "open" /\ t \in Held
    /\ Relabel(t, labels[t] \cup {"approved"})
    /\ UNCHANGED <<issue, memory, seen, wave, run, caller, saved, proc, stops>>

\* A comment, or a label that is not active: the list answers 200 again
Comment(t) ==
    /\ issue[t] = "open"
    /\ Touch(t, {})
    /\ UNCHANGED <<issue, labels, memory, seen, wave, run, caller, saved, proc, stops>>

\* NextRetryAt passes
BackoffOver(t) ==
    /\ retry[t] = "waiting"
    /\ retry' = [retry EXCEPT ![t] = "due"]
    /\ UNCHANGED <<tracker, active, deps, seen, wave, run, caller, saved, proc, stops>>

\* The context is cancelled: agents are killed, the backend is stopped
Interrupt ==
    /\ Up /\ stops < MaxStops /\ "shutdown" \in StopsBy
    /\ proc' = "stopping" /\ stops' = stops + 1
    /\ UNCHANGED <<tracker, memory, seen, wave, run, caller, saved>>

\* Everything in memory is gone
Gone ==
    /\ stale' = (IF Local THEN {} ELSE ActiveLabels) /\ lastTasks' = {}
    /\ active' = {} /\ retry' = [t \in Task |-> "none"]
    /\ deps' = [t \in Task |-> {}]
    /\ seen' = Unseen /\ wave' = NoWave
    /\ run' = [w \in Run |-> NoRun]
    /\ caller' = [c \in Caller |-> Idle]
    /\ proc' = "down"

\* The retry entries and the dependencies are written to state.json
SaveState == saved' = [retry |-> retry, deps |-> deps]

\* Shutdown: the tick has ended, the dispatches have drained or the timeout
\* has passed; releaseClaims, then saveState
Shutdown ==
    /\ proc = "stopping" /\ caller["ticker"].pc = "idle"
    /\ labels' = [t \in Task |-> IF t \in active THEN labels[t] \ {"in-progress"}
                                                 ELSE labels[t]]
    /\ SaveState
    /\ Gone
    /\ UNCHANGED <<issue, stops>>

Crash ==
    /\ Up /\ stops < MaxStops /\ "crash" \in StopsBy
    /\ stops' = stops + 1
    /\ Gone
    /\ UNCHANGED <<issue, labels, saved>>

\* LoadAndReconcile: retry entries of terminal tasks are dropped
RestoredRetry ==
    [t \in Task |-> IF Terminal(t) THEN "none" ELSE saved.retry[t]]

Boot ==
    /\ proc = "down"
    /\ retry' = RestoredRetry /\ deps' = saved.deps
    /\ proc' = "up"
    /\ UNCHANGED <<tracker, active, seen, wave, run, caller, saved, stops>>

-------------------------------------------------------------------------------
Dispatching(c) ==
    Check(c) \/ Claim(c) \/ CreateIssue(c) \/ RegisterDeps(c) \/ Finish(c)
Tick == Reconcile \/ ListTasks \/ Dispatching("ticker")
Chat == ListForMessage \/ Dispatching("listener")
Dispatch(w) == \/ Mark(w) \/ SetupFails(w) \/ StartAgent(w) \/ AgentEnds(w)
               \/ RecordFailure(w) \/ Complete(w) \/ Close(w)
User == \E t \in Task : Open(t) \/ Withdraw(t) \/ Approve(t) \/ Comment(t)

Next == \/ Tick \/ Chat \/ User
        \/ \E w \in Run : Dispatch(w)
        \/ \E t \in Task : BackoffOver(t)
        \/ Interrupt \/ Shutdown \/ Crash \/ Boot

Spec == Init /\ [][Next]_vars

\* The ticker fires, goroutines are scheduled, agents end (the driver kills a
\* stalled one), time passes, shutdown ends by its timeout, and a stopped
\* process is started again.  Nothing obliges the user to do anything.
FairSpec == /\ Spec
            /\ WF_vars(Tick)
            /\ WF_vars(Dispatching("listener"))
            /\ \A w \in Run : WF_vars(Dispatch(w))
            /\ \A t \in Task : WF_vars(BackoffOver(t))
            /\ WF_vars(Shutdown)
            /\ WF_vars(Boot)

-------------------------------------------------------------------------------
(* Properties.                                                              *)

\* Every variable has its type.  (The one type invariant of this module.)
TypeOK ==
    /\ issue \in [Task -> {"absent", "open", "closed"}]
    /\ labels \in [Task -> SUBSET Label]
    /\ stale \subseteq ActiveLabels /\ lastTasks \subseteq Listed
    /\ active \subseteq Task
    /\ retry \in [Task -> Backoff]
    /\ deps \in [Task -> SUBSET Task]
    /\ seen \in Hash
    /\ wave \in [status : {"none", "active", "exhausted"}, frontier : SUBSET Task]
    /\ run \in [Run -> [task : 0..NTasks, at : Phase]]
    /\ caller \in [Caller -> [pc : {"idle", "reconciled", "dispatching", "claiming",
                                   "creating", "registering"},
                             rest : SUBSET Listed, follows : BOOLEAN, pick : 0..NTasks,
                             hash : Hash, made : SUBSET Task, subs : SUBSET Task]]
    /\ saved \in [retry : [Task -> Backoff], deps : [Task -> SUBSET Task]]
    /\ proc \in {"up", "stopping", "down"}
    /\ stops \in 0..MaxStops

\* The goroutines that have not released their claim
Claimants == {w \in Run : run[w].at \in {"claimed", "marked", "running"}}

\* A goroutine that has not released its claim still has it, alone: no other
\* path (reconcile, the release of an earlier run of the task) takes it away,
\* and no second agent works on the task.
AgentIsClaimed ==
    /\ \A w \in Claimants : run[w].task \in active
    /\ \A v, w \in Claimants : run[v].task = run[w].task => v = w

\* Claims stay within max_concurrent and the per-label limit, though the check
\* and the claim are two acquisitions of the lock.
WithinLimits ==
    /\ Cardinality(active) <= MaxConcurrent
    /\ Cardinality(active \cap Heavy) <= MaxHeavy

\* With the ticker alone a task is claimed only after the tasks it depends on have
\* closed, also when the list it comes from is stale, the agent ignores the order,
\* create_subtasks registers the dependencies after the issues, or a graceful restart
\* lies between.
DependenciesFirst ==
    [][\A t \in active' \ active : \A d \in Deps[t] : issue[d] = "closed"]_vars

\* No claim is held for ever, whichever way the run ends.
ClaimReleased == \A t \in Task : t \in active ~> t \notin active

\* With a slot for every task, an open task leaves the queue: it is closed, or
\* (a crash between the last two tracker calls) has lost its active labels.
LeavesQueue == \A t \in Task : t \in ActiveTasks ~> t \notin ActiveTasks

-------------------------------------------------------------------------------
(* The strengthenings that make these inductive.                            *)

\* A claim of a task in S on its way: checked, and the lock let go
Claiming(c) == caller[c].pc = "claiming"
Pending(c, S) == IF Claiming(c) /\ caller[c].pick \in S THEN 1 ELSE 0

\* The ticker and the listener can each have checked the last slot: together they
\* exceed a limit by one, however they interleave, and by no more
OverByOne ==
    /\ Cardinality(active) + Pending("ticker", Task) + Pending("listener", Task)
          <= MaxConcurrent + 1
    /\ Cardinality(active \cap Heavy) + Pending("ticker", Heavy) + Pending("listener", Heavy)
          <= MaxHeavy + 1

\* A claim on its way is of a task
PicksTask == \A c \in Caller : Claiming(c) => caller[c].pick \in Task

\* Without a listener that dispatches, nothing comes between check and claim
TickerAlone ==
    /\ caller["listener"].pc = "idle"
    /\ Claiming("ticker") => /\ HasSlot(caller["ticker"].pick)
                             /\ caller["ticker"].pick \notin active

\* Memory has the dependencies of every issue while a process is up, and state.json
\* when none is; but for those the ticker is about to register
DepsKept ==
    /\ \A t \in Task :
          (IF proc = "down" THEN saved.deps[t] ELSE deps[t]) =
          IF issue[t] = "absent" \/ t \in caller["ticker"].subs THEN {} ELSE Deps[t]
    /\ caller["ticker"].pc \notin {"creating", "registering"} => caller["ticker"].subs = {}
    /\ \A t \in caller["ticker"].subs : issue[t] # "absent"

\* Only issues are listed, claimed and worked on
ListedExist ==
    /\ \A l \in lastTasks : issue[l.task] # "absent"
    /\ \A c \in Caller : /\ \A l \in caller[c].rest : issue[l.task] # "absent"
                         /\ Claiming(c) => issue[caller[c].pick] # "absent"
    /\ \A w \in Run : run[w].at # "free" => /\ run[w].task \in Task
                                            /\ issue[run[w].task] # "absent"

\* A claim on its way is of a task whose dependencies have closed
PicksReady ==
    \A c \in Caller : Claiming(c) => \A d \in Deps[caller[c].pick] : issue[d] = "closed"

\* No handler outlives its process
DownIsQuiet ==
    proc = "down" => active = {} /\ run = [w \in Run |-> NoRun]
                       /\ caller = [c \in Caller |-> Idle]

-------------------------------------------------------------------------------
(* What documents of the repository say, and the code refutes.              *)

\* internal/tracker/github/github_test.go:97: ListActive's "first call returns
\* fresh data, second returns cached on 304", so what the ticker goes through
\* holds every active task, whichever of the lists answered 304.
NothingHidden ==
    [][caller'["ticker"].pc = "dispatching" /\ caller["ticker"].pc = "reconciled"
          => Tasks(caller'["ticker"].rest) = ActiveTasks]_vars

\* docs/plans/architecture.md:352: "In-memory claim map prevents double-dispatch".
NoDoubleDispatch ==
    \A v, w \in Claimants : run[v].task = run[w].task => v = w

\* The same sentence, for one ticker alone: a task whose agent has succeeded is
\* not handed to another agent while the first one closes the issue.
CompletedOnce ==
    [][\A t \in active' \ active :
          \A w \in Run : run[w].task = t => run[w].at \notin {"passed", "closing"}]_vars

\* docs/plans/architecture.md:376: mechanical dispatch is to "dispatch every
\* eligible task", so a listed task that only waited for a slot gets one.
EveryEligibleRuns == \A t \in Task : t \in ActiveTasks ~> t \in active \/ t \notin ActiveTasks

\* docs/architecture/modes.md:240: Loop mode's purpose is to "retry failures".
FailedIsRetried ==
    \A t \in Task : retry[t] = "due" /\ Up ~> t \in active \/ t \notin ActiveTasks

\* docs/plans/implementation.md:183: "`isRetryEligible` gate in tick loop".
BackoffRespected == [][\A t \in active' \ active : retry[t] # "waiting"]_vars

\* docs/plans/architecture.md:382: a held task "must have an approval label
\* before an agent is spawned".
HeldWaits ==
    [][\A t \in active' \ active : t \in Held => "approved" \in labels[t]]_vars

\* The rest of that rule: a task that gets the approval label is dispatched.
ApprovedRuns ==
    \A t \in Held : "approved" \in labels[t] /\ t \in ActiveTasks
                       ~> t \in active \/ t \notin ActiveTasks

\* orchestrator.go:640: depsAreMet "returns true if all dependency task IDs ...
\* have reached a terminal status", so a dependent task runs when they have.
DependentsRun ==
    \A t \in Task : t \in ActiveTasks /\ (\A d \in Deps[t] : issue[d] = "closed")
                       ~> t \in active \/ t \notin ActiveTasks

\* docs/plans/architecture.md:593: shutdown is to "release all claims on the
\* issue tracker (remove "in-progress" labels)".
ShutdownReleases ==
    [][proc = "stopping" /\ proc' = "down" =>
          \A t \in Task : issue'[t] = "open" => "in-progress" \notin labels'[t]]_vars

\* docs/plans/frontier-implementation.md:53: taskDeps are persisted in
\* state.json, so a restart does not forget them.
DependenciesSurvive ==
    Up /\ stops > 0 =>
        \A t \in Task : \/ issue[t] = "absent" \/ deps[t] = Deps[t]
                        \/ \E c \in Caller : t \in caller[c].subs
===============================================================================
