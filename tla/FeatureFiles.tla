------------------------------ MODULE FeatureFiles ------------------------------
(***************************************************************************)
(* The files of a feature, .context/features/<feature>/: the writers of     *)
(* internal/orchestrator/featurewriter.go, called around the run of every   *)
(* guest (guestdispatch.go, handleGuestMention), and the two providers that *)
(* tell what a step of a plan produced (internal/execute/artifacts.go).     *)
(*                                                                         *)
(* The writers share a lock and publish by renaming a temporary file.  The  *)
(* agents themselves edit artifacts.yaml with their own tools, in place and *)
(* without the lock.  The process may crash anywhere; files stay.           *)
(***************************************************************************)
EXTENDS Integers, Sequences, FiniteSets, SequencesExt

CONSTANTS
    Runs,           \* runs of guests
    AgentOf,        \* the agent of a run
    Reports,        \* the runs of a round, which report; the others are mentions
    Ids,            \* artifact ids; the file of an artifact is known by its id
    Listed,         \* the ids artifacts.yaml has at the start
    HasTasks,       \* there is a task-state.yaml
    Cache,          \* a file both providers ignore, or the context one never sees
    MaxRows, MaxAttempts,
    MaxEvents       \* bounds: rows, attempts; edits, file writes and failed writes

ASSUME FeatureConstants ==
    /\ Reports \subseteq Runs /\ AgentOf \in [Runs -> UNION {{AgentOf[r]} : r \in Runs}]
    /\ Cache \notin Ids /\ Listed \subseteq Ids /\ IsFiniteSet(Listed) /\ HasTasks \in BOOLEAN
    /\ {MaxRows, MaxAttempts, MaxEvents} \subseteq Nat
    /\ {"step", "nobody"} \cap Runs = {}

VARIABLES
    artifacts,      \* artifacts.yaml: [state, rows]
    changelog,      \* the entries of changelog.yaml: [id, run]
    tasks,          \* task-state.yaml: an agent's status; empty without a file
    pc,             \* where a guest's run is
    lock,           \* the runs in featureLock: the file each will publish, and its text
    mtime,          \* modification time of a file; 0: it does not exist
    draft,          \* an agent's copy of artifacts.yaml while it edits: [by, at, rows],
                    \* at the row it writes
    step,           \* the step: "ready" for an attempt, "running"
    marked,         \* MarkStepStart: readable, entries (fingerprints) and files (times)
    bound,          \* what the bounds count: attempts and events
    committed,      \* history: runs in the order of their changelog entries
    since           \* history, since the mark: ids with another row or file, rows the
                    \* step's agent wrote, files written, and with the clock's time

vars == <<artifacts, changelog, tasks, pc, lock, mtime, draft, step, marked, bound,
          committed, since>>

Agents == {AgentOf[r] : r \in Runs}
Files == Ids \cup {Cache}
Stepper == "step"           \* the agent of the step, as an editor
Nobody == "nobody"
Out == [file |-> "none", to |-> <<>>]
NoDraft == [by |-> Nobody, at |-> 0, rows |-> <<>>]
NoMarks == [readable |-> FALSE, entries |-> <<>>, files |-> <<>>]
Untouched == [ids |-> {}, own |-> {}, files |-> {}, now |-> {}]

\* A row: its id, a version standing for updated_at, status and path, whether the
\* status is rejected, and whether created_by is the step's id
Row(id, ver, rejected, stamped) ==
    [id |-> id, ver |-> ver, rejected |-> rejected, stamped |-> stamped]

Init ==
    /\ artifacts = [state |-> "whole", rows |-> SetToSeq({Row(id, 0, FALSE, FALSE) : id \in Listed})]
    /\ changelog = <<>>
    /\ tasks = [a \in IF HasTasks THEN Agents ELSE {} |-> "idle"]
    /\ pc = [r \in Runs |-> "idle"]
    /\ lock = [r \in Runs |-> Out]
    /\ mtime = [f \in Files |-> IF f \in Listed THEN 1 ELSE 0]
    /\ draft = NoDraft /\ step = "ready" /\ marked = NoMarks
    /\ bound = [attempts |-> 0, events |-> 0]
    /\ committed = <<>> /\ since = Untouched

guests == <<changelog, tasks, pc, lock, committed>>
steps == <<step, marked>>

-------------------------------------------------------------------------------
\* The run of a guest (dispatchSelectedGuests, handleGuestMention)

Goes(r, from, to) == pc[r] = from /\ pc' = [pc EXCEPT ![r] = to]

\* A bounded event
Event == bound.events < MaxEvents /\ bound' = [bound EXCEPT !.events = @ + 1]

\* Mutant: a run that failed leaves at once
After_failed(r, ok) == IF ~ok THEN "done" ELSE IF r \in Reports THEN "artifact" ELSE "settle"

\* What follows runner.Run, an error or not: only a round's run reports.  An agent
\* may be killed in the middle of an edit
After(r, ok) == IF r \in Reports THEN "artifact" ELSE "settle"

RunEnds(r) ==
    /\ \E ok \in BOOLEAN : Goes(r, "run", After(r, ok))
    /\ draft' = IF draft.by = r THEN NoDraft ELSE draft
    /\ UNCHANGED <<artifacts, changelog, tasks, lock, mtime, steps, bound, committed, since>>

\* No report, one without an artifact, or no output: nothing to append
Skips(r) ==
    /\ lock[r] = Out
    /\ \/ Goes(r, "artifact", "log") \/ Goes(r, "log", "settle")
    /\ UNCHANGED <<artifacts, changelog, tasks, lock, mtime, draft, steps, bound, committed, since>>

NextPc(r) ==
    CASE pc[r] = "idle" -> "run" [] pc[r] = "artifact" -> "log"
      [] pc[r] = "log" -> "settle" [] OTHER -> "done"

\* Mutant: a lock of its own for every caller
Available_any == TRUE

\* featureLock
Available == \A r \in Runs : lock[r] = Out

\* Under the lock the file is read and changed in memory.  An error of either
\* is logged, and the run goes on
Holds(r, file, to) ==
    /\ Available /\ lock[r] = Out
    /\ lock' = [lock EXCEPT ![r] = [file |-> file, to |-> to]]
    /\ UNCHANGED <<artifacts, changelog, tasks, pc, mtime, draft, steps, bound, committed, since>>
Gives(r) ==
    /\ Available /\ lock[r] = Out
    /\ pc' = [pc EXCEPT ![r] = NextPc(r)]
    /\ UNCHANGED <<artifacts, changelog, tasks, lock, mtime, draft, steps, bound, committed, since>>

\* Both fail without a task-state.yaml
With(a, status) == [b \in DOMAIN tasks \cup {a} |-> IF b = a THEN status ELSE tasks[b]]
SetTaskActive(r) ==
    /\ pc[r] = "idle"
    /\ IF tasks = <<>> THEN Gives(r) ELSE Holds(r, "tasks", With(AgentOf[r], "active"))
UpdateTaskState(r) ==
    /\ pc[r] = "settle"
    /\ IF tasks = <<>> THEN Gives(r) ELSE Holds(r, "tasks", With(AgentOf[r], "idle"))

\* A new row whether or not the id is taken, without updated_at (version 1); a file
\* that does not parse is an error
AppendArtifact(r) ==
    /\ pc[r] = "artifact"
    /\ IF artifacts.state # "whole" THEN Gives(r)
       ELSE /\ Len(artifacts.rows) < MaxRows
            /\ \E id \in Ids :
                 Holds(r, "artifacts", Append(artifacts.rows, Row(id, 1, FALSE, FALSE)))

AppendChangelog(r) ==
    /\ pc[r] = "log"
    /\ Holds(r, "changelog", Append(changelog, [id |-> Len(changelog) + 1, run |-> r]))

\* The rows of an id, each with its place
Placed(rows, id) == {<<i, rows[i]>> : i \in {i \in DOMAIN rows : rows[i].id = id}}

\* History, while an attempt runs: the file gets these rows, of which an agent wrote some.
\* What another wrote since the rows were read is lost, and changed by that
Changes(rows, own) ==
    since' = IF step = "ready" THEN since
             ELSE [since EXCEPT
                     !.ids = @ \cup {id \in Ids : Placed(rows, id) # Placed(artifacts.rows, id)},
                     !.own = @ \cup own]
Writes(f, copy) ==
    since' = IF step = "ready" THEN since
             ELSE [since EXCEPT !.ids = @ \cup {f},
                                !.files = @ \cup {f},
                                !.now = IF copy THEN @ \ {f} ELSE @ \cup {f}]

\* writeYAML: the temporary file takes the name, and the lock is free
Publish(r) ==
    /\ lock[r] # Out /\ lock' = [lock EXCEPT ![r] = Out]
    /\ pc' = [pc EXCEPT ![r] = NextPc(r)]
    /\ tasks' = IF lock[r].file = "tasks" THEN lock[r].to ELSE tasks
    /\ changelog' = IF lock[r].file = "changelog" THEN lock[r].to ELSE changelog
    /\ committed' = IF lock[r].file = "changelog" THEN Append(committed, r) ELSE committed
    /\ IF lock[r].file = "artifacts"
       THEN /\ artifacts' = [state |-> "whole", rows |-> lock[r].to]
            /\ Changes(lock[r].to, {})
       ELSE UNCHANGED <<artifacts, since>>
    /\ UNCHANGED <<mtime, draft, steps, bound>>

\* It could not be written or renamed: the old file stays, the temporary one goes,
\* and the run goes on; "unset" is a run whose agent was not shown idle again
PublishFails(r) ==
    /\ lock[r] # Out /\ lock' = [lock EXCEPT ![r] = Out]
    /\ Event
    /\ pc' = [pc EXCEPT ![r] = IF @ = "settle" THEN "unset" ELSE NextPc(r)]
    /\ UNCHANGED <<artifacts, changelog, tasks, mtime, draft, steps, committed, since>>

-------------------------------------------------------------------------------
\* What agents do with their own tools while they run (not in src/)

Working == {r \in Runs : pc[r] = "run"} \cup (IF step = "running" THEN {Stepper} ELSE {})

\* An agent opens artifacts.yaml and edits its copy: a row added, changed or
\* rejected, with an updated_at of its own.  It writes in place, so the file is cut
\* short for a while.  One agent edits at a time
EditBegins(e) ==
    /\ e \in Working /\ draft = NoDraft /\ Event
    /\ artifacts.state = "whole"
    /\ \/ \E id \in Ids, stamped \in {FALSE, e = Stepper} :
            /\ Len(artifacts.rows) < MaxRows
            /\ draft' = [by |-> e, at |-> Len(artifacts.rows) + 1,
                          rows |-> Append(artifacts.rows, Row(id, bound.events + 2, FALSE, stamped))]
       \/ \E i \in DOMAIN artifacts.rows, rejected \in BOOLEAN :
            draft' = [by |-> e, at |-> i,
                      rows |-> [artifacts.rows EXCEPT ![i].ver = bound.events + 2,
                                                      ![i].rejected = rejected]]
    /\ artifacts' = [artifacts EXCEPT !.state = "cut"]
    /\ UNCHANGED <<guests, mtime, steps, since>>

EditEnds(e) ==
    /\ draft.by = e /\ draft' = NoDraft
    /\ artifacts' = [state |-> "whole", rows |-> draft.rows]
    /\ Changes(draft.rows, IF e = Stepper THEN {draft.rows[draft.at]} ELSE {})
    /\ UNCHANGED <<guests, mtime, steps, bound>>

\* An agent writes the file of an artifact, at the clock's time or with the older
\* time of what it copied
WriteFile(e) ==
    /\ e \in Working /\ Event
    /\ \E f \in Files, copy \in BOOLEAN :
         LET n == bound.events + 2
         IN /\ mtime' = [mtime EXCEPT ![f] = IF copy THEN 0 - n ELSE n]
            /\ Writes(f, copy)
    /\ UNCHANGED <<artifacts, guests, draft, steps>>

-------------------------------------------------------------------------------
\* The step and the two providers (executeStep in runner.go, artifacts.go)

\* fingerprintFor.  Mutant: without the file's times
Fingerprint_yaml(row) == row.ver

Fingerprint(row) == <<row.ver, mtime[row.id]>>

RowsOf(id) == {i \in DOMAIN artifacts.rows : artifacts.rows[i].id = id}

\* readArtifactFingerprints: by id, so the last of two rows counts; empty when
\* the file cannot be read
Fingerprints ==
    IF artifacts.state # "whole" THEN <<>>
    ELSE [id \in {id \in Ids : RowsOf(id) # {}} |-> Fingerprint(artifacts.rows[Max(RowsOf(id))])]

\* shouldSkipFile and shouldSkipDir, of the walk before and of the one after
Skipped == {Cache}

Walked == {f \in Files \ Skipped : mtime[f] # 0}

\* MarkStepStart of both providers, at the start of every attempt
Marks ==
    [readable |-> artifacts.state = "whole", entries |-> Fingerprints,
     files |-> [f \in Walked |-> mtime[f]]]

MarkStepStart ==
    /\ step = "ready" /\ bound.attempts < MaxAttempts
    /\ step' = "running"
    /\ marked' = Marks
    /\ since' = Untouched
    /\ bound' = [bound EXCEPT !.attempts = @ + 1]
    /\ UNCHANGED <<artifacts, guests, mtime, draft>>

\* ContextArtifactProvider.Collect; its dedup by id keeps the first matching row
Surfaces(row) ==
    /\ ~row.rejected
    /\ \/ row.id \notin DOMAIN marked.entries
       \/ marked.entries[row.id] # Fingerprint(row)
       \/ row.stamped
CollectedIds ==
    IF artifacts.state # "whole" THEN {}
    ELSE {artifacts.rows[i].id : i \in {i \in DOMAIN artifacts.rows : Surfaces(artifacts.rows[i])}}

\* FilesystemArtifactProvider.Collect
Newer(f) == mtime[f] > marked.files[f]

CollectedFiles == {f \in Walked : f \notin DOMAIN marked.files \/ Newer(f)}

\* The attempt is over: the agent succeeded, and what it produced was collected, or
\* it failed or was blocked (handleStepFailure), perhaps killed in an edit, and
\* nothing was.  Its marks are never read again
AttemptEnds(draftAfter) ==
    /\ step = "running" /\ step' = "ready"
    /\ draft' = draftAfter
    /\ marked' = NoMarks /\ since' = Untouched
    /\ UNCHANGED <<artifacts, guests, mtime, bound>>
Collecting == step = "running" /\ draft.by # Stepper
Collect == Collecting /\ AttemptEnds(draft)
StepFails == AttemptEnds(IF draft.by = Stepper THEN NoDraft ELSE draft)

-------------------------------------------------------------------------------
Over == \A r \in Runs : pc[r] \in {"done", "unset", "crashed"}

\* The process dies: locks, buffers and marks are gone, files stay
Crash ==
    /\ step = "running" \/ ~Over
    /\ pc' = [r \in Runs |-> "crashed"] /\ lock' = [r \in Runs |-> Out] /\ draft' = NoDraft
    /\ step' = "ready" /\ marked' = NoMarks /\ since' = Untouched
    /\ UNCHANGED <<artifacts, changelog, tasks, mtime, bound, committed>>

RunStep(r) ==
    \/ RunEnds(r) \/ Skips(r) \/ UpdateTaskState(r)
    \/ AppendArtifact(r) \/ AppendChangelog(r) \/ Publish(r) \/ PublishFails(r)
Edit(e) == EditBegins(e) \/ EditEnds(e) \/ WriteFile(e)

Next ==
    \/ \E r \in Runs : SetTaskActive(r) \/ RunStep(r) \/ Edit(r)
    \/ Edit(Stepper) \/ MarkStepStart \/ Collect \/ StepFails
    \/ Crash

\* Runs end, and the mutex is handed on: only finitely many wait for it
Fairness == \A r \in Runs : WF_vars(RunStep(r))
Spec == Init /\ [][Next]_vars
FairSpec == Spec /\ Fairness

-------------------------------------------------------------------------------
\* Properties

\* No append is lost: the changelog has exactly the entries that were written, in
\* order and with unique ids, whatever runs append at once and wherever the
\* process dies (featureLock, AppendChangelog, writeYAML)
ChangelogWhole ==
    /\ [i \in DOMAIN changelog |-> changelog[i].run] = committed
    /\ \A i, j \in DOMAIN changelog : changelog[i].id = changelog[j].id => i = j

\* A row that the step's agent wrote in this attempt, or whose file anybody wrote,
\* surfaces unless it is rejected, as long as it is still in the file: also when only
\* the file was written again, when the id has other rows, and when guests of the chat
\* write the same artifacts.yaml meanwhile (ContextArtifactProvider)
TouchedCollected ==
    Collecting /\ artifacts.state = "whole" =>
        \A i \in DOMAIN artifacts.rows :
            LET row == artifacts.rows[i]
            IN (row \in since.own \/ row.id \in since.files) /\ ~row.rejected
               => row.id \in CollectedIds

\* Nothing is collected that nobody has changed since the step began, a write of
\* older rows included, unless a row bears the step's own id, the mark found the file
\* cut short, or an id has two rows; of files, nothing at all (both providers:
\* "phantom artifacts")
Plain(id) == Cardinality(RowsOf(id)) = 1 /\ \A i \in RowsOf(id) : ~artifacts.rows[i].stamped
OnlyChanged ==
    Collecting =>
        /\ CollectedFiles \subseteq since.files
        /\ marked.readable => \A id \in CollectedIds : Plain(id) => id \in since.ids

\* A file written at the clock's time is collected (FilesystemArtifactProvider)
WrittenCollected ==
    Collecting => since.now \ {Cache} \subseteq CollectedFiles

\* What Collect returns for a step is what the step changed, of rows and of files
Collected == TouchedCollected /\ OnlyChanged /\ WrittenCollected

\* Whoever is shown as active becomes idle, also when its run failed, unless the
\* write that says so fails or the process dies (SetTaskActive, UpdateTaskState)
Status(a) == IF a \in DOMAIN tasks THEN tasks[a] ELSE "none"
TaskSettles ==
    \A r \in Runs :
        Status(AgentOf[r]) = "active"
        ~> (Status(AgentOf[r]) = "idle" \/ pc[r] \in {"unset", "crashed"})
===============================================================================
