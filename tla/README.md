# Anthem in TLA+

Anthem is a Go program that runs coding agents: on tasks from an issue tracker
(*Loop*), in a chat with an orchestrator agent and guests (*Chat*), over markdown
plans (*Plan*), and along compiled chains of steps with human gates (*Execute*).
One process holds it all; goroutines share maps guarded by one mutex, a few
channels, and files that outlive the process.

The specifications here follow the code of this repository, function by
function. Paths below are relative to `internal/` unless they say otherwise.
`PROJECT.json` lists the components, the runs, the lines each definition stands
for, the hazards, the disagreements found and the theorems.

Run `tlc -config X.cfg M` for a run, `tlapm M.tla` for the proofs.

## 1. The system

### Components

| Component | State | Operations | Talks to |
|---|---|---|---|
| Execute runner (`execute/runner.go`, `plan.go`) | plan copy with step status, artifacts, preserved set, revision state, gate channel | Run, runStep, handleGate, handleStepFailure, ResumeAtGate, applyRevise | agents; run log; the listener through `gateCh` |
| Run log (`plans/runs`) | one `.jsonl` file per run | Append, Replay, EventsToSnapshot, ListActive | runner, startup replay, Prism timeline |
| Execute dispatch (`orchestrator/orchestrator.go`) | `activePlanRunner`, logs on disk | handleExecuteMessageWithPlan, supersedePreviousRun, routeGateResolution, replayRunLogsOnStartup, triageRunLog | listener, runner goroutines, run logs |
| Plan store, compiler (`plans/store.go`, `compiled.go`, `orchestrator/execcompile.go`) | plan markdown, compiled sidecar, `.tmp`, `compileInFlight` | Load, Update, SaveCompiled, LoadCompiled, compile, approve, revise | listener, compile goroutines, orchestrator agent |
| Loop dispatch (`orchestrator.go`, `retry.go`, `state.go`, `backend/`) | `active`, `retryState`, `taskDeps`, `currentWave`, `lastSnapHash`, `state.json` | Tick, reconcile, mechanicalDispatch, executeActions, dispatch, Shutdown, LoadAndReconcile | tracker, agents, workspace, agent of the orchestrator |
| Trackers (`tracker/github`, `tracker/local`) | issues, labels; per-label ETags and `lastTasks` | ListActive, GetTask, UpdateStatus, AddLabel, RemoveLabel | Loop dispatch; people |
| Message routing (`orchestrator.go`, `orchagent.go`, `respec.go`, `convobuffer.go`) | conversation rounds, shared context, agent session, respec session | HandleUserMessage and its paths, mode routes, Consult, handleRespecMessage | channels, orchestrator agent, every store |
| Guests (`orchestrator/guestdispatch.go`, `sharedcontext.go`, `guests/`) | goroutines of a round and their slots | routing, fan-out, streams, finalizeGuestRound | agents, channels, feature files |
| Feature files (`featurewriter.go`, `execute/artifacts.go`) | `task-state.yaml`, `artifacts.yaml`, `changelog.yaml`, the marks of a step | SetTaskActive, UpdateTaskState, AppendArtifact, AppendChangelog, MarkStepStart, Collect | guest goroutines, mentions, runner, agents' own editors |
| Stories (`storystore.go`, `storyedit.go`, `proposalstore.go`) | story markdown by section and revision, staged proposals | ReadContext, CheckRevision, Stage, Accept, Reject, Apply | writer guests, users |
| Route isolation (`tracker_gate.go`, `runner_gate.go`) | the mode a gate sees | allow or deny a tracker or runner call | every route |
| Event bus (`events.go`) | subscribers with buffers | Publish, Subscribe, Unsubscribe | everything |
| Channels (`channel/manager.go`, `prism`, `slack`, `dispatch`) | connections, incoming buffers, merged buffer | Start, fan-in, Broadcast, Close | listener, users |
| Voice (`channel/voice`) | floor, requests to the fast model and their history, sentence buffer | handleTranscript, BargeIn, handleFastLLM, Send | speech services, listener |
| HTTP bridge (`httpbridge/`) | one tool call: poll state, saved file, frame directory, sheet, metadata | handleToolCall, executeAsyncPolling, the post-processors, runSidecarCmd | a guest's agent, external services, sidecars |
| Agent driver (`agent/claude`) | a subprocess, its stall timer | Run, Continue, Kill | runner, dispatch, guests |
| Workspaces, config watcher, rules, audit, prompts, maintenance | directories, config, records | see PROJECT.json | |

### What is hard in it

* **Two writers, one lock taken twice.** The ticker and the channel listener both
  execute actions. They look at the claims under the mutex, release it, and claim
  under the mutex again; the claim goes before the failure is recorded or the issue
  closed.
* **Lists older than what they are compared with.** Tracker lists are cached per
  label (ETags) and dispatch decisions follow a hash of the list.
* **One channel slot, one pointer.** Gate clicks reach a runner through a
  one-slot channel that any gate or failure reads from, and through a single
  pointer that every dispatch and every restart overwrites.
* **Logs that outlive processes.** A run is resumed or aborted from its log, whose
  last write may have been cut short, by a process that already handles messages.
* **Files rewritten in place.** Plan and sidecar are two files without a lock,
  written by compiles and edits and read by clicks.
* **Looks that are not held.** The voice loop, a fast-model request and a text stream
  each look at the floor, let go of its lock, and move it. A step's artifacts are the
  difference of two looks at files that guests and agents write meanwhile.
* **Registration against broadcast.** A connecting client gets the history of a run
  while the run appends and broadcasts; any write to any client may block or fail.
* **A pipeline that goes on.** A failed post-processing operation never stops the next
  one, over files an earlier call may have left, with sidecars that outlive themselves.
* **Stops.** Shutdown cancels agents and then saves; a crash does neither.

### What makes each component correct

* Runner: dependency order, no way past an unanswered gate, the log equals the
  memory, a selective revise keeps what was not flagged, the roster shows the owner,
  it never spins and never ends "stuck".
* Run log: what replays is a prefix of what reached the disk; an end that was soundly
  written is final.
* Dispatch: no log without a goroutine after startup, clicks reach the newest run,
  interrupted runs are settled.
* Compiler: compiles of one plan ID exclude each other, a click starts what was seen
  and never something older, the slot is released.
* Loop: limits hold, an agent's claim is its own, dependencies come first, claims are
  released, tasks leave the queue.
* Listener and guests: an answer goes to the round of its own message, a turn ends with
  every chosen guest heard and nothing left open, the orchestrator starts a draft only
  when none is open, the listener comes back.
* Feature files: no changelog entry is lost, a step collects what it changed and only
  that, nobody stays shown as active.
* Stories: an edit changes the section it names and nothing else, and nothing is written
  that the user has not answered.
* Channels: a client knows every event that is logged and broadcast, the asker is answered.
* Voice: the floor is open whenever the transcription waits, what is sent to the model
  ends with the question that is asked.
* Bridge: sheet and metadata are of one pass, the subject stays put, the animation is
  never lost, specks are exactly the small components, a call returns.

Each of these has limits in the code, which section 3 names.

`PROJECT.json` lists the hazards line by line with the properties that cover them.

## 2. Modules

| Module | Models | Abstracts |
|---|---|---|
| `RunLog` | the reducer `applyEvent` (`plans/runs/snapshot.go`): one operator per event, on a `Snapshot` record | timestamps, costs, texts |
| `PlanRunner` | one run: runner goroutine, listener's click, `gateCh`, log, crash, restart | what agents do (a set of paths, or failure); broadcasts |
| `HandoffChain` | the promise of Execute mode, read from its documentation: no log, channel or crash | |
| `ExecuteDispatch` | many runs of many plans: supersede, active pointer, startup replay | a run is a goroutine that works, parks and ends; a log is its last event |
| `RunLogFile` | the lines of one log file under cut writes, refused writes and restarts | bytes of a line: whole, unterminated or partial |
| `PlanCompile` | two files and the goroutines that compile, edit and approve | plan text is a number, a compiled plan is a number |
| `LoopDispatch` | ticker, listener, dispatch goroutines, tracker, state file | an issue is open or closed with a set of labels |
| `Conversation` | the listener with the room: message paths, guest goroutines, rounds, summaries, drafts, respec | what is said: an answer is its speaker and the message it answers |
| `FeatureFiles` | the writers of a feature's YAML files, an agent that edits in place, both artifact providers | a row is an id and a version, a file its modification time |
| `StorySpace` | one story file, staged proposals, requests to accept, reject and save | a text is a value, a revision the section it was taken from |
| `PrismChannel` | connections, threads, fan-in, broadcast, on-connect history, guest index | frames are an event, a stream or a reply |
| `VoiceRoom` | the floor, the transcription loop, requests to the fast model, the text stream | what is said, and the speech services |
| `SpriteImage` | the image algorithms as operators | a pixel is a class of colour and of opacity |
| `SpritePost` | a tool call and its pipeline over the files | encodings, templates |
| `MCProjectFiles` | `PlanCompile` and `RunLogFile` in one run | |
| `MCSharedFiles` | `FeatureFiles` and `StorySpace` in one run | |
| `MCChannels` | `PrismChannel` and `VoiceRoom` in one run | |
| other `MC...` | constants for TLC | |
| `PlanRunnerProofs`, `ExecuteDispatchProofs`, `LoopDispatchProofs`, `ConversationProofs`, `SpritePostProofs` | theorems about the module of that name (`PlanRunnerProofs` also about `RunLog`, `SpritePostProofs` about `SpriteImage`) | |
| `ProjectFilesProofs`, `SharedFilesProofs`, `ChannelsProofs` | theorems about the two modules of `MCProjectFiles`, `MCSharedFiles`, `MCChannels` | |

`PlanRunner` extends `RunLog` and instantiates `HandoffChain` (`ChainStatus`,
`ChainDue`, `ChainOutcome` map a log to the chain). `ExecuteDispatch` is the same
system one level up: what `PlanRunner` details is there `StartRun`, `StepEvent`,
`Park`, `Finish`. `RunLogFile` is one level down: an append is there a write that may
be cut. The three share the events' names, not state. `SpritePost` extends `SpriteImage`.
`Conversation` has a guest's run as two steps, `Start` and `Finish`; `FeatureFiles` is
what lies between them on disk. `PrismChannel` has the runner as a sender of events in
the order `PlanRunner` appends them, and the listener as the one that answers.

### State and actions against the code

**PlanRunner.** `pc` is the place of the goroutine: `drive` in `driveSteps`, `agent`
while `runStep` waits for the agent, `gating`/`gate` in `handleGate` before and after
the broadcast, `requeue`/`aborting` between `gate_resolved` and the next append,
`failed` in `handleStepFailure`, `down` after a crash. `status`, `gates`, `artifacts`,
`preserved`, `revision` are the fields of the runner, `gateCh` and `sending` the channel
and the send `ResolveGate` is blocked in, `snap` the log, `chips` the roster.
`approved` and `keep` are history variables. One append and the memory update after
it are one step, since only the listener could see the difference and it reads just the
status. A click (`Click`) picks its target from the runner's plan as
`routeGateResolution` does and starts a send; `Deliver` completes it.

**ExecuteDispatch.** `go` is each run's goroutine, `tail` the last event of its file,
`up` how far startup has come (`boot` before and `replay` during
`replayRunLogsOnStartup`), `todo` the `ActiveRun` records listed and not yet triaged,
with the tail the listing saw. `failed`, a history variable, has the runs of which an
append or a read failed, which `FileAppender`, the supersede, the listing and the triage
log and go on after.

**PlanCompile.** Each goroutine has a `pc` between two file operations and a memory of
what it read. `os.WriteFile` is two steps, truncation and content, and either may fail.
A message reads the plan as often as the code does: `List` (the load of `Store.List`),
`Pick` (the second load of `LatestDraft`, `handleExecuteRerun` or the click), `LoadDraft`
or `LoadForDrift`, `LoadPrior`, `Embed`, `LoadForSave`. A read that finds the file truncated
returns a plan with a fresh ID (`Loads`) and writes it (`Load`); `Pick` has the last word
on the ID, which is the compile's slot (`key`). `overlapped`, a history variable, is
whether two compiles have ever been at work at once.

**RunLogFile.** An append writes something (`WriteSome`: all, all but the newline, a part)
or fails before its first byte (`WriteNone`). `written` has the events of which anything
reached the disk, `acked` those whose append succeeded.

**LoopDispatch.** A caller's `pc` is the place in Tick or HandleUserMessage; `claiming`
lies between the check of `o.active` and `claim()`. A dispatch goroutine goes through
`claimed`, `marked` (in-progress label set), `running`, then `failed` or `passed`
(claim released, nothing recorded yet) and `closing` (label gone, issue still open).
`create_subtasks` is `CreateIssue` for each of its issues and then `RegisterDeps` for each
of those that were created, as in the two passes of `executeActions`.
Reviews are failures of a run that passed; `Open`, `Withdraw`, `Approve` and
`Comment` are what people do in the tracker and are marked external.

**Conversation.** `turn.pc` is the place in `HandleUserMessage` and the route it took,
each model call a start and an end with every outcome; `guest` is each goroutine of
`dispatchSelectedGuests` (`named`, `queued` for a slot, `running`, `done` before it
records its answer); `convo` and `shared` are `convoBuf` and `sharedCtx`; `feed` is which
streams the clients see open and whom they have heard; `updates` are the
`updateContextAfterRound` goroutines in flight; `busy` is `task-state.yaml`. A look for a
draft may miss one that is there (`LatestDraft`: an error, which nobody looks at, or a file
read while it is being written), a write of a plan may cost its status (`Written`), and a
Revise click leaves a compile in the background (`compiling`, `Recompile`) that does the
same; `turn.sure` remembers that none of this happened to the message in hand. At `gate`
the listener is in the send of `ResolveGate`.

**FeatureFiles.** A writer holds `featureLock` from its read to the rename (`lock` is the
file it will publish and its text). An agent edits a copy of `artifacts.yaml` (`draft`)
and writes it back without the lock, so a row appended meanwhile is lost. `marked` is what
`MarkStepStart` saw; `since`, a history variable, is what has changed since: ids whose rows
differ, rows the step's agent wrote, files that were written, and those with the clock's time.

**StorySpace.** A writer guest goes through `ReadContext`, `Answer`, `CheckRevision`,
`Stage`; a request of the user through `apply`, `write` (temporary file there, not yet
renamed) and `report`. The file is a sequence of pieces, parsed into sections as
`parseSections` does, so a replacement without its anchor merges sections here too.

**PrismChannel.** `stage` is the place in `handleWS`: `known` once `conns` has the
connection, `hook` while the on-connect hook scans the log, `history` while it is sent.
`made` counts the events, `log` has those that were appended and `told` those that were
broadcast: `Emit` does the second and mostly the first, `Record` only the first. A history
may be a part of the log; `whole` has the connections that were sent all of it. The
listener answers a message, leaves it to the guests (`quiet`), or is held by a click.
`out` is what `Manager.Broadcast` of a sender has still to do. A socket is `up`, `jammed`
by a write that timed out (and still registered), or `cut`.

**VoiceRoom.** `stt` is the place in `handleTranscript` and `BargeIn`, `req` that of each
request in `handleFastLLM`, `text` that of `Send`; `saw` is what a goroutine last read
of the floor. `Transition` refuses what `orchestratorTransitions` has not.

**SpritePost.** `pc` is the place in `handleToolCall`; an operation is one step, or
`Begin`/`Sidecar...` where it starts a process, or `WriteMeta`, `WriteSheet` and
`RemoveVideo` where it writes several files; ffmpeg is `StartExtract` and `ExtractEnds`,
which waits for its output to be closed. `shown` and `stitched` are history: the frames as
extracted or last matted, and those the sheet was made from; `apart` is whether metadata of
one pass lie beside the sheet of another, `torn` whether `normalize_frames` stopped at a
frame it could not open.

## 3. Runs

### What holds

| Run | Shows | Instance |
|---|---|---|
| `PlanRunner` | the inductive invariant, dependencies and gates respected, log equals memory, never stuck, implements `HandoffChain`, unflagged shown artifacts survive, never spins, blocked clicks get through | 3 steps, the first and the third wait for the second, 2 gates, 2 artifacts of which one is shown, 3 clicks |
| `ExecuteDispatch` | no orphan log, pointer is the newest, interrupted runs settle | 2 plans and inline runs, 3 dispatches, any number of crashes, any append or read may fail |
| `ProjectFiles` | exclusive compiles of one ID, never older, slot released; replay sound, sound end final | listener and one reviser, 2 plan IDs, 3 compiles, 1 edit, 1 crash; 5 appends that write something, any number that do not, a look-ahead of 2 lines, any number of crashes |
| `LoopDispatchLocal` | limits, dependencies first | local tracker, one ticker with the agent's own actions, a held task and one that waits for it, which `create_subtasks` may have left out or not yet linked, both with a label of limit 1, a graceful restart |
| `LoopDispatchDrain` | an agent's claim is its own, tasks leave the queue | GitHub, one ticker, 2 tasks, 2 slots, a crash |
| `LoopDispatchChat` | claims are released | ticker and listener at once, failing and stalling agents, one task |
| `Conversation` | answers in their own round, turns closed, one draft of the orchestrator's own, every message handled | 2 guests with one slot, 2 messages of any of the 9 kinds, a history of one round, 2 drafts, reads and writes of drafts that fail, a compile in the background |
| `SpritePost` | sheet and metadata agree, subject stays put, video or sheet, specks, every call returns | stills of 4 x 4 pixels, plate-coloured inside and at the border, and 2 operations on them, thresholds 0 to 2; a clip of 2 frames of 2 pixels with 3 masks and 4 operations, 4 ways to normalize, 1 to 3 columns, files of an earlier call, whole or half renewed, or none |
| `SharedFiles` | changelog whole, a step collects what it changed; others unchanged, pending is not applied | 2 guests of a round, 2 artifacts, 2 rows, one attempt, 2 edits or failures, a crash; 2 sections, one guest with 4 kinds of answer, 2 requests |
| `FeatureFiles` | tasks settle | the same guests with one artifact: `FairSpec` |
| `Channels` | nothing missed, asker answered; floor open, questions last | one connection of each kind, one thread, one event, logged, broadcast or both, one request, one reload, queues of one; 2 turns, 2 deltas, a history of 2 messages |

The instances are the smallest in which the case can occur: a second dependent (so a
revise could un-complete a dependency of work already done), a second gate (so a click
can arrive at the wrong one), one click more than gates, a third run (so a superseded
run, its successor and a run of another plan coexist), more appends than the scanner
looks ahead, two tasks that share a label's limit, a second message (so a slow guest
could answer into it) and more guests than slots, a frame the matte clears and one it
shifts, two requests at one file, two turns whose requests overlap. Every property has a
mutant of the code in `PROJECT.json` under which TLC finds it violated in the same run.

`ProjectFiles`, `SharedFiles` and `Channels` each explore two components that share no
state side by side: one moves while the other has not begun. The fairness of `Channels` is
that of `PrismChannel`, and nothing it obliges is possible before a client dials, which
is why the voice room may move alone.

A second artifact matters in `SharedFiles`: with one, whatever an agent's stale copy writes
back is a row of the same artifact, and what it overwrites is never seen.

Bounds in guards: `MaxClicks`, `MaxRuns`, `MaxEvents`, `MaxCompiles`, `MaxEdits`,
`MaxCrashes`, `MaxStops`, `MaxMessages`, `MaxDrafts`, `MaxRows`, `MaxAttempts`, `MaxOps`,
`MaxStillOps`, `MaxPolls`, `MaxRequests`, `MaxIndex`, `MaxTurns`, `MaxDeltas`, `MaxIDs`.
They bound what users and failures do, never what the program does in answer, but for
`MaxRuns` in `LoopDispatch`, the dispatch goroutines alive at once, which is at least the
number of slots, and `MaxIDs`: a truncated read that would need one more plan ID at once is
not taken. Two are enough for two compiles of one plan at once.

`AgentIsClaimed` and `WithinLimits` hold for one ticker. With the listener executing
actions too they do not (`NoDoubleDispatch`, below). `AgentIsClaimed` is
checked on GitHub without stalls: on the local tracker `reconcile` drops the claim of a
task someone closes while its agent is still at work, and so it does for a stalled run.
`WithinLimits` therefore counts claims and not agents. `DependenciesFirst` is checked for
the ticker alone and without a crash: with `LoopDispatchLocal.cfg`, `Chats = TRUE` and
`MaxStops = 0` it is violated, the listener listing and claiming a subtask between the two
passes of the ticker's `create_subtasks` (`orchestrator.go:796-835`);
`DependenciesSurvive` is what a crash does to it.

### What the code does against its documentation

The last part of each module states sentences of the repository's documents, comments
and tests, quoted in the comment above each definition, that the code does not keep.
No passing run has them. To see one, put it in the place of the properties of the
configuration named here:

| Property | Configuration | In short |
|---|---|---|
| `NamedGateHonoured` | `PlanRunner`, `Spec` | a click that names one gate, still in the channel, resolves the next |
| `FailureWaitsForHuman` | the same | a stale gate click retries a failure nobody has seen |
| `UnflaggedKept` | the same | artifacts hidden from review are dropped in a selective revise |
| `RevisionCleared` (invariant) | the same | revision feedback outlives the step's completion |
| `GatesSurviveRestart` | the same | a resumed run keeps only the open gate |
| `OneActivePerPlan` (invariant) | `ExecuteDispatch` | a superseded run goes on working |
| `ParkedRunReachable` | `ExecuteDispatch` | of two resumed plans one is out of reach |
| `SupersededExits` | `ExecuteDispatch` | a superseded parked run never ends |
| `ReplayRunsFirst` | `ExecuteDispatch` | the startup triage can abort a live run's log |
| `AppendedIsReplayed` (invariant) | `RunLogFile`, `Spec`, with the constants of `ProjectFiles` | events after a cut write are lost |
| `TerminalIsSkipped` | the same | an ended run is triaged again, and resumed |
| `ClickedIsStarted` (invariant) | `ProjectFiles` | approve can start a plan compiled after the click |
| `IdentityStable` (invariant) | `ProjectFiles` | two loads of a plan without ID give it two |
| `EditsSurvive` | `ProjectFiles` | a compile's save overwrites an edit |
| `CompilesExclude` (invariant) | `ProjectFiles` | a read of the truncated file gives the plan a second ID, and so a second compile slot |
| `IndexCurrent` (invariant) | `Channels` | a client that registers during a reload keeps the older guest index |
| `NewTurnCancels` (invariant) | `VoiceRoom`, `Spec`, with the constants of `Channels`, `MaxTurns = 3` | a request that has not stored its cancel function is missed by the next turn |
| `BeginsWithUser` (invariant) | the same | one unanswered question, and the cut history begins with an answer |
| `ColourUntouched` | `SpritePost` | `plate_speck_cleanup` zeroes the colour it says it never touches |
| `MatteKept` | `SpritePost` | `chroma_key` after a matte makes the background opaque black |

and, with `LoopDispatchDrain.cfg` under `Spec` and `MaxStops = 0`:

| Property | Also set | In short |
|---|---|---|
| `NoDoubleDispatch` (invariant) | `Chats = TRUE` | ticker and listener dispatch one task twice, in the gap between check and claim |
| `CompletedOnce` | | a task is dispatched again while it is being closed |
| `NothingHidden` | | a 304 for one label hides its tasks |
| `BackoffRespected` | `MayFail = TRUE` | a failed task is dispatched before its failure is recorded |
| `HeldWaits` | `MaxConcurrent = 1`, `Consults = TRUE`, `Held = {1}` | the agent's own dispatch skips require_approval |
| `ShutdownReleases` | `MaxConcurrent = 1`, `MaxStops = 1`, `StopsBy = {"shutdown"}` | cancelled dispatches have dropped their claims before Shutdown looks |
| `DependenciesSurvive` (invariant) | `MaxConcurrent = 1`, `Consults = TRUE`, `MaxStops = 1`, `Deps <- SecondLast` | a crash forgets dependencies |
| `EveryEligibleRuns` | `FairSpec`, `MaxConcurrent = 1` | the unchanged snapshot hash makes ticks do nothing |
| `FailedIsRetried` | `FairSpec`, `MaxConcurrent = 1`, `MayFail = TRUE` | so a failed task is not retried |
| `ApprovedRuns` | `FairSpec`, `MaxConcurrent = 1`, `Held = {1}` | nor an approved one dispatched |
| `DependentsRun` | `FairSpec`, `MaxConcurrent = 1`, `Consults = TRUE`, `Deps <- SecondLast` | a closed GitHub issue is reported as queued |

`FailedIsRetried` has a second face: a graceful shutdown records the agents it
cancels as failures, so the restarted process waits for a change of the list before it
takes those tasks up again, while a crash has no such effect. `LeavesQueue` accepts one
outcome that leaves an issue open: a crash after its label was removed and before it was
closed.

The limits of what the properties say, and what reading the code for them showed:

* *RunLogFile.* `ReplayIsSound` is about the events of which anything reached the disk. An
  append that fails before its first byte (`OpenFile`, or a full disk; `log.go:71-77`) is
  only logged by `FileAppender` (`appender.go:43-47`), the run goes on, and its event is
  missing from the middle of the log. `PlanRunner` takes appends to succeed.
* *ExecuteDispatch.* What is said of a run's log is not said of a run in `failed`: if the
  abort of a superseded log cannot be written the old run stays listed as active.
* *PlanCompile.* The compile slot goes by the plan's ID. A click and a compile read the
  plan two to four times, and a read between truncation and content finds no ID, makes one
  up and writes it: then the second of two compiles has a slot of its own
  (`CompilesExclude`), and the later of their saves may be the older plan. `NeverOlder` is
  about the time before any two compiles have run at once (`overlapped`).
* *Conversation.* `OneDraftOfOwn` leaves out turns in which a look for the draft failed, or
  found the file being rewritten, and turns in which a background compile (`go
  handleExecuteMarkdown`, `execcompile.go:751`) wrote the plan: then there may be a second
  draft. `EveryMessageHandled` leaves out a listener held in the send of a gate resolution
  (`runner.go:184`) that the run never takes. A resolution for a runner that is
  unregistered, or has no plan yet, at `orchestrator.go:2744` is a panic and is not modelled. `TurnIsClosed` leaves out the stream of a failed respec, which never
  gets its end. `recordResult` takes the session of any call, so a compile's or a
  respec's session becomes the chat's. A background summary may replace a newer one.
* *FeatureFiles.* `TouchedCollected` speaks of whole files, rows that are not rejected
  and the step's own agent, as long as its row is still in the file; `OnlyChanged` not of
  rows that bear the step's id, nor of ids with two rows. `AppendArtifact` holds a lock that
  agents do not know: of two writers of `artifacts.yaml` the later one may put back older
  rows, and to a provider those are a change. A file that gets a time older than the mark is missed, which
  `WrittenCollected` excludes. `TaskSettles` leaves out a run whose last write fails or
  whose process dies: nothing resets that agent.
* *StorySpace.* `Accept` never checks the revision again, so an edit staged for an older
  text is applied; of two edits with one key only the first can be. `OthersUnchanged` is
  about the sections the file has when it is written.
* *PrismChannel.* `NothingMissed` is about events that are both in the log and broadcast,
  and about clients that were sent the history of the whole log. `step_queued`, the
  `run_aborted` of a stuck plan, and those of superseded and triaged runs are appended
  without a broadcast (`runner.go:234, 290, 456, 460, 565`, `orchestrator.go:3038, 3054,
  3211`): a client that is connected does not learn of them. A history may be empty or cut
  (no plan store, a log that cannot be read, the limit; `orchestrator.go:2942-2963`).
  `AskerAnswered` is about messages the listener answers itself, as long as the connection
  owns the thread; what a full queue drops is gone, what is left to the guests is
  `Conversation`'s, and a click may hold the listener. That no thread
  outlives its connection's removal (`ThreadsAreLive`) is a theorem.
* *VoiceRoom.* A request that ends without `message_stop` keeps the floor, and a request
  cancelled before it has an answer is answered a second time by the orchestrator;
  neither contradicts a document, and `FloorOpen` allows for them: it is about the states
  that no response can leave.
* *SpritePost.* `SubjectStaysPut` leaves out frames scaled down, whose pixels are means,
  and frames of which `normalize_frames` could not open one for rewriting, whereupon it stops
  (`postprocess.go:1743-1745`): the frames before it are centred, this one and the others
  are not (`torn`). The subject is where the last matte of the frame left it; a matte after
  a `normalize_frames` overwrites the normalized frame. `SheetMatchesMetadata` leaves out
  the two ways a sheet of one pass gets metadata of another (`apart`): a death between the
  two writes, whose files a later call finds, and an `os.Remove` of the metadata that fails
  after a failed encode (line 1958, its error is dropped). `VideoOrSheet` needs neither, but
  takes an encoded and closed file to be whole (the error of `Close`, 2048, is ignored) and
  an artifact that is no `.png` itself (1916, 1963). `CallReturns` leaves out a descendant of
  ffmpeg that never closes its output: `CombinedOutput` waits for it (1593-1594), unlike
  `runSidecarCmd`.

### Fairness

Safety needs none. The fair specifications assume that

* goroutines are scheduled, and an agent ends (`agent/claude/driver.go` kills one that
  stalls): `WF(RunnerStep)`, `WF` per run of `StartRun`, `Park \/ Finish`, `Unregister`,
  per dispatch goroutine of `Dispatch`;
* a channel send completes when the slot stays free: `WF(Deliver)`; a compile goroutine
  goes on: `WF` of its steps;
* the listener's handler and each guest's run go on: `WF(Listen)`, `WF(GuestStep)`; a run
  of a guest goes on to its last write: `WF(RunStep)`, the mutex being handed on; the
  server's goroutines read, write and are scheduled, while a socket that stays silent
  counts as jammed after its write timeout: `WF` of the steps of `PrismChannel`; a tool
  call goes on and a process ends by its timeout: `WF(Step)` and `WF(ChildExits)` of `SpritePost`;
* the ticker fires and time passes: `WF(Tick)`, `WF(BackoffOver)`; shutdown ends by its
  timeout: `WF(Shutdown)`;
* a stopped process is started again: `WF(Restart)`, `WF(Startup)`, `WF(Boot)`. The
  operator does that, not the code; properties that depend on it speak of what the next
  process does.

Nothing obliges a user to click, comment, approve or open anything, a run to take a click
that holds the listener (`GateTaken`, `Unblock`), or a process's descendants to let go of
its output (`ChildReleases`). Weak fairness is
enough throughout; none of the actions is repeatedly disabled by another party, except a
blocked send, for which `SendCompletes` only speaks of a runner that waits.

`CHECK_DEADLOCK FALSE` is set where the system may stop for good: a run that has ended
(`PlanRunner`, `ExecuteDispatch`), a tool call that has been answered, and wherever the
users, whom nothing obliges, have reached their bound. The runs of `LoopDispatch` check
deadlock.

## 4. Proofs

`tlapm` checks the theorems below to the last leaf, for every value of the constants that
the named assumptions of the modules allow: any plan `Validate` accepts, any number of
steps, gates, clicks, runs, compiles, tasks, guests, messages, connections, turns, artifacts,
rows, requests or operations, any finite set of paths, any cap, images of any size. The assumptions state what the code enforces or configures
(`PlanShape`, `PlanDependencies`, `ReviewConfig`, `DispatchConstants`, `CompileBounds`,
`LoopConfig`, `ConversationAssumption`, `ChannelConstants`, `VoiceConstants`,
`FeatureConstants`, `SharedConstants`, `SpriteConstants`), and TLC
evaluates them in every run. Bounds in the guards are parameters of the theorems, so they
hold for every bound.

| Module | Theorem | States |
|---|---|---|
| `PlanRunnerProofs` | `AlwaysConsistent`, `TypeCorrect` | the inductive invariant `Consistent`; the types |
| | `DependenciesRespected`, `GatesRespected` | `DependencyRespected`, `GateRespected` |
| | `LogReplaysToView` | `ReplayAgrees`: the log is the memory |
| | `NeverStuckEver` | `NeverStuck`, from the acyclic `DependsOn` |
| | `RunIsChain` | `Spec => ImplementsChain`, the refinement of `HandoffChain` |
| | `ShownIsKept` | the action property `UnflaggedShownKept` |
| | `RosterShowsOwner` | `RosterIsOwner` |
| `ExecuteDispatchProofs` | `AlwaysSupervised`, `TypeCorrect` | the inductive invariant `Supervised`; the types |
| | `NoLogIsOrphan`, `PointerStaysNewest` | `NoOrphanLog`, `PointerIsNewest` |
| `ProjectFilesProofs` | `AlwaysCoherent`, `TypeCorrect` | the inductive invariant `Coherent`; the types |
| | `OneCompilePerID`, `StartsNeverOlder` | `OneCompile`, `NeverOlder` |
| | `AlwaysIntact` | the inductive invariant `Intact` |
| | `ReplayAlwaysSound`, `SoundEndAlwaysFinal` | `ReplayIsSound`, `SoundEndIsFinal` |
| `LoopDispatchProofs` | `TypeCorrect` | the types |
| | `AtMostOneOver` | with ticker and listener dispatching, no limit is exceeded by more than one |
| | `LimitsKept` | `~Chats`: `WithinLimits` |
| | `AgentsKeepClaims` | `~Chats`, `~Local`, `~MayStall`: `AgentIsClaimed` |
| | `DependenciesCloseFirst` | `~Chats`, without `"crash"` in `StopsBy`: the action property `DependenciesFirst` |
| `ConversationProofs` | `AlwaysConducted`, `TypeCorrect` | the inductive invariant `Conducted`; the types, slots and caps |
| | `AnswersStayInRound`, `TurnsAreClosed` | `AnswersInOwnRound`, `TurnIsClosed` |
| | `OneDraftOfOwnEver` | the action property `OneDraftOfOwn` |
| `ChannelsProofs` | `TypeCorrect`, `OwnersAreLive` | the types; `ThreadsAreLive` |
| | `AlwaysInformed`, `HistoryLeavesNoGap` | the inductive invariant `Informed`; `NothingMissed` |
| | `AlwaysOrdered`, `VoiceTypeCorrect` | the inductive invariant `TypeOK`, `Held`, `Ordered`; the types |
| | `FloorStaysOpen`, `QuestionsStayLast` | `FloorOpen`, `QuestionsLast` |
| `SharedFilesProofs` | `FeatureInvariant` | the inductive invariant `Typed`, `LogInv`, `MarksInv` |
| | `ChangelogIsWhole`, `AlwaysCollected` | `ChangelogWhole`, `Collected` |
| | `PendingNeverApplied` | `PendingNotApplied` |
| `SpritePostProofs` | `SheetInvariant` | the inductive invariant `FramesTyped`, `StitchInv`, `MatchInv`, `KeptInv`, `ExtractInv` |
| | `SheetAlwaysMatches`, `AnimationKept` | `SheetMatchesMetadata`, `VideoOrSheet` |
| | `SubjectAlwaysStays` | `SubjectStaysPut` |

### The arguments

None of the safety properties is inductive alone. Each proof has a conjunction of named
parts that is, in the model's module after its properties, a lemma per action (or per
group of actions with one effect) with a step per conjunct, and a last step that draws
the property from it.

* **`Consistent`** (`PlanRunner`). `GateInWork`: while a gate is open, or its answer is
  being applied, *everything that depends on its step is still pending*; this is why a
  revise, which takes a completed step back to pending, cannot take a dependency away from
  work already done. `GatesApproved`: every completed step but the one at its gate has had
  its gate approved. `ParkedLog`: a log that ends in `gate_opened` holds what a restart
  resumes from; it carries the invariant through a crash, when the memory is gone.
  `NeverStuck` then needs only that a pending step of least rank has nothing to wait for.
* **The refinement.** `StopInLog` adds what the end of the log says about the place of the
  runner; with it the abstract chain, read off the log, equals the runner's own view
  (`ChainIsView`), and each action is proved to be one step of the chain or a stutter:
  an answered gate is the chain's answer, an opened one and a requeue are stutters.
* **`KeptIsPreserved`.** What a selective revise has to keep is in `preserved`, or was
  shown at the gate that is open.
* **`RosterKept`.** A chip that stays while its step is queued again is right only if
  that step starts next. The invariant is that *no step before it is ready as long as it is
  not completed* (`NoneBefore`), in the memory and in a log that ends at a gate.
* **`Supervised`** (`ExecuteDispatch`). Runs are dispatched in the order of their numbers;
  a log that waits for triage belongs to a dead process, one per plan, and has been closed
  by the time a new run of its plan lives, unless its closing line could not be written
  (`Listed`); from the scan on, every log that lists as active is a live run's, waits for
  triage, or is in `failed` (`Accounted`).
* **`Coherent`** (`PlanCompile`). A goroutine that is writing a file stands where it gets
  to afterwards (`Heading`). `Locked`: the slots are per ID, and a compile holds that of
  the ID it was given by the last of its reads, whichever that was; `OneCompile` is the same
  for any reads. The rest holds as long as no two compiles have overlapped: then there is
  one at most (`Alone`), the sidecar is as new as all that was ever shown, and the compile in
  flight is newer (`Newest`). `Editing` bounds what the listener writes back.
* **`Intact`** (`RunLogFile`). `LinesInOrder`: up to the first line that does not decode
  the lines are the events written, in order, and behind it lines can only merge, so their
  number says whether one was lost. `SoundDecodes`, `SoundEndIsLast`: nothing is ever
  written into, or behind, what is sound. An append that wrote nothing changes none of it.
* **Loop.** `OverByOne` counts claims and the claims on their way. `TickerAlone`: without
  the listener, the slot that was checked is still free when it is claimed. `PicksReady`
  with `DepsKept` for dependencies: a claim on its way is of a task whose dependencies
  have closed, and closed issues stay closed. Between the two passes of `create_subtasks`
  issues exist whose dependencies are registered nowhere (`DepsKept` names them); nobody
  claims them because the only dispatcher is the goroutine that registers them, and only
  issues that exist are listed or claimed (`ListedExist`).
* **`Conducted`** (`Conversation`). `OnPath`: a message stays on one path. `RoundOpen`:
  guests are out unless their round is being handled, and whoever may still answer finds
  the round of the message in hand open. `Followed`: a chosen guest is on its way or has
  been heard; streams are open and tasks active exactly for those who run. `DraftFirst`:
  in a turn whose looks at the drafts were all good (`turn.sure`) guests plan only over an
  open draft, which is why the orchestrator's look at the drafts still holds when it writes.
* **`Informed`** (`PrismChannel`). Of the events that are both in the log and broadcast
  (`log \cap told`), a registered connection whose history was that of the whole log (`whole`)
  knows each: it has it, or its history has it, or it is being broadcast and will still be
  written to it (`Known`, `Coming`; `RunnerSends`: what the runner sends is in `told`). It
  rests on the order in `handleWS`, registration before the scan, and on the order in the
  runner, append before broadcast.
* **Voice.** `Held`: only the transcription loop gives the user the floor or aborts the
  speaker, and it undoes both before it waits. `HandedOver` and `RepliesAnswered`: a turn's
  question is in the history before its request reads it, and an answer in the history is
  that of a request past its own question.

* **Changelog** (`FeatureFiles`). `LogInv`: one run at a time is between its read and its
  rename, and what it will publish is the file with its own entry; so the file is, entry by
  entry, what was committed, numbered by its place.
* **Collected.** The versions and times that writers give are readings of one clock
  (`Now`). `WrittenLater`: what was written since `MarkStepStart`, and what the step's agent
  is about to write, has a later version, or its file another time, than the mark.
  `OthersAsMarked`: an id not in the history has its last row as the mark has it, and a file
  its time; a writer that puts back older rows puts the ids they differ in into the
  history (`RowsKeepMarks`). Both directions of `Collected` are then a comparison of the
  mark with the file (`WrittenIsCollected`, `UnchangedIsNot`).
* **Proposals** (`StorySpace`). `Settled`: a text that is about to be written is the user's
  own, or that of an edit *of a staged proposal whose key has been answered*. It rests on
  the order in `Accept`, which takes a key out of the pending ones under the store's lock
  before the edits are applied, and on a guest's texts being its own (`Proposed`).
* **Sheets** (`SpritePost`). `SheetGivesBack` is about the operators alone: cell `i` of
  `Stitched` at the offsets of `Metadata` is frame `i`, which is the arithmetic of `\div`
  and `%` over columns and pixels (`PartOf`, `Inside`), for any size. `MatchInv`: but
  between the two writes of `StitchSpritesheetProcessor.Run`, and after a death there,
  whole files match, unless a call has left a pair half renewed (`apart`: a failed encode
  after which the metadata could not be removed either, or an earlier call that died
  between the two). `KeptInv`: once the video is gone its pair matches, no frames are left and no
  later operation touches it; this needs no exception.
* **The subject.** Every image knows where its corner lies in the picture of the video.
  `CentredImage`: what lies in the box comes off where it was by `padding - box`, and none
  of it is cut; `UnionBoxHolds`: the union of all boxes holds the solid pixels of each frame
  (a greatest and a least member of a finite set exist, `FiniteMax`, `FiniteMin`, by
  well-foundedness). `FlooredImage`: neither threshold takes a solid pixel. So one operation
  moves all corners alike and, but for what it scales down, leaves the subject in its place of
  the picture (`NormalizedImages`, `MattePlace`). `PlaceInv` is what the pipeline keeps of it:
  the corners are together (`OneCorner`) and the frames show the subject where the last
  matte left it (`KeepsPlace`), unless one cannot be read, and then no sheet is made, or a pass
  over them stopped in the middle (`torn`).

### Hypotheses

The theorems without hypotheses hold for the whole of each model. Where the code loses a
property after a fault, the property itself says so, by a history of the faults: `failed`
(`ExecuteDispatch`), `overlapped` (`PlanCompile`), `sure` (`Conversation`), `whole` and `told`
(`PrismChannel`), `apart` and `torn` (`SpritePost`); the invariants say what still holds then.

The hypotheses of the
three in `LoopDispatch` are where the code really stops keeping the property, and each has
its counterexample in section 3: with a listener that dispatches (`Chats`) a limit is
exceeded, a task is dispatched twice, and a sub-task is dispatched between the pass of
`create_subtasks` that creates it and the pass that registers its dependencies; on a local
tracker (`Local`) and for a stalled run (`MayStall`) `reconcile` drops the claim of an agent
at work; a crash forgets the dependencies. `AtMostOneOver` is what remains true of the
limits without any hypothesis: the race of the two dispatchers costs one slot and never more.

What the new assumptions on constants say: `FeatureConstants`, that a feature's file has
finitely many rows and that no guest's run is called by the two names the model uses for the
step and for nobody; `SharedConstants`, that no guest and no section is called "none" and
that an answer is a sequence; `SpriteConstants`, that `padding` is not negative and
`scale_factor` at least 1, which `NormalizeFramesProcessor.Run` enforces (`postprocess.go:1632`
and after).

### What the proofs changed in the models

The strengthenings were first checked by TLC, on the configurations of the runs; all but
`Consistent`, which its run keeps as an invariant, were checked that way once and are now
proved. Three things in the models were wrong or could not be reasoned about.
`Collected` was right only with one artifact, as its run then had it: its history took an
agent's edit for a change of the one row it edits, while its stale copy also puts back
the other rows (`Changes` compares them all now, and the run has two artifacts). A proof of
`OthersAsMarked` is where it showed.
Alternatives in `CASE` that overlap, where TLC takes the first and TLA+ leaves the
choice open, are `IF ... ELSE` now, in the order of the code (`PrismChannel`'s targets and
returns, `Conversation`'s `Path`, `StorySpace`'s `Result`). And type invariants had
to say more than the type: that the slots, the caps of histories and the capacity of
queues are kept.

### Only model-checked

* Liveness and everything that needs fairness or ENABLED: `RunnerSettles`,
  `SendCompletes`, `InterruptedSettles`, `SlotReleased`, `LeavesQueue`, `ClaimReleased`,
  `EveryMessageHandled`, `TaskSettles`, `AskerAnswered`, `CallReturns`.
* `OthersUnchanged` (`StorySpace`): the file is parsed anew in every `Apply` and put
  together again with `FlattenSeq`; what that preserves is an induction over the sections.
* `SpecksErased` (`SpritePost`): the flood fill is a fold whose result is compared with the
  components it is meant to erase, an induction over data too.

Every other property of a passing run is a theorem.

## 5. What is not modelled

* *Agent driver* (`agent/claude`). Every module takes an agent's run as something that
  ends. What could go wrong lies between goroutines, pipes and signals: `stderr` is
  looked at with a `default` and may be lost (`driver.go:213`), `Wait` closes the pipes a
  reader may still need, cancelling kills the leader while descendants may hold the
  output until the stall check, and a slow `OnStream` makes the monitor kill a healthy
  agent. A module would need a model of processes; it is the next candidate.
* *Event bus, event bridge, Slack.* Drop-oldest delivery of log events and forwarding;
  no control depends on them.
* *Adapters' Start and Close, the speech clients, LiveKit.* `VoiceRoom` and `PrismChannel`
  begin with adapters that run and end before they are closed.
* *Route isolation gates.* `CurrentMode` is set once, so a gate is a constant function.
* *Configuration watcher, workspaces, discovery, maintenance, audit, cost, prompts,
  reports, harness.* Timers over the file system, directories and text; `PROJECT.json`
  gives the reason for each.
* Within the modelled parts: contract validation, calls of `create_subtasks` that fail, the panic of a
  gate resolution without a plan (`orchestrator.go:2744`), budgets of rules, two processes over one home directory, `Inject`, `SupersedeStepArtifacts` and
  `AppendArtifactValidated`, HTTP templates and JSON paths, the sentence buffer.

Also abstracted: data races proper (fields written by two goroutines without a lock
are updated atomically here), the milliseconds in log file names, tokens and costs, the
wording of prompts and messages.

### Plan

What is left to do: the agent driver as a module of its own, with processes, pipes and
signals; the fan-out of the event bus, if anything comes to depend on a delivery; and, with
a prover that takes the library's induction theorems, `OthersUnchanged` from a lemma on
`Parsed` and `FlattenSeq`, and `SpecksErased` from one on `Flood`. A strengthening is
checked by TLC first; those of `PlanRunner` and `SharedFilesProofs` are the patterns.
