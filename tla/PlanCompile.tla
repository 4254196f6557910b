------------------------------ MODULE PlanCompile ------------------------------
(***************************************************************************)
(* From a markdown plan to a dispatch: compiling a plan into its sidecar    *)
(* <plan>.execute.json, editing it, and the Approve / Revise clicks on the  *)
(* previews that were broadcast (internal/plans/{store,compiled}.go,        *)
(* internal/orchestrator/execcompile.go, Orchestrator.finalizePlan).        *)
(*                                                                         *)
(* The channel listener handles messages one at a time; a Revise click      *)
(* compiles in a goroutine of its own.  They share one plan file, its       *)
(* sidecar and the compile mutex, and no lock guards the files.             *)
(* os.WriteFile truncates before it writes, so a file can be found empty;   *)
(* Store.Load then takes it for a plan without an ID and writes one.  A      *)
(* compile that starts from such a read has a compile slot of its own.      *)
(***************************************************************************)
EXTENDS Naturals, FiniteSets

CONSTANTS
    Listener,       \* the goroutine of StartChannelListener
    Reviser,        \* bound on the compile goroutines alive at once
    MaxIDs,         \* bound on the plan IDs in use at once
    MaxCompiles,    \* bound on the compiled plans the agent returns
    MaxEdits,       \* bound on the Plan-mode edits
    MaxCrashes      \* bound on the crashes

ASSUME CompileBounds ==
    /\ Listener \notin Reviser
    /\ MaxIDs \in Nat \ {0}
    /\ MaxCompiles \in Nat /\ MaxEdits \in Nat /\ MaxCrashes \in Nat

VARIABLES
    md,         \* the plan file
    side,       \* the sidecar
    tmp,        \* the sidecar's .tmp file
    inFlight,   \* o.compileInFlight
    shown,      \* execplan previews broadcast so far
    pc, mem,    \* where each goroutine is and what it holds
    run,        \* the last message's dispatch: what was clicked, what was started
    overlapped, \* history: two compiles have been at work at once
    compiles, edits, crashes

files  == <<md, side, tmp>>
bounds == <<compiles, edits, crashes>>
vars   == <<files, inFlight, shown, pc, mem, run, overlapped, bounds>>

Goroutine == {Listener} \cup Reviser

\* Compiled plans and edits are numbered in the order they are made
Compiled == 0..MaxCompiles

\* The frontmatter ID and CompileGeneration of a plan file, whether its status is
\* draft, and its body.  An empty file has none of them
ID      == 1..MaxIDs
Own     == 1
Plan    == [id : ID, gen : Nat, draft : BOOLEAN, text : 0..MaxEdits + 1]
Empty   == [id |-> 0, gen |-> 0, draft |-> FALSE, text |-> 0]
Sidecar == [gen : Nat, comp : Compiled]
Absent  == [gen |-> 0, comp |-> 0]      \* or empty
Preview == [id : ID, gen : Nat, comp : Compiled]

\* What a message wants with the plan
Use == {"look", "edit", "draft", "inline", "rerun", "approve", "revise"}

Label == {"idle", "list", "pick", "change", "alter", "drift", "sidecar",
          "acquire", "prior", "consult", "retry", "embed", "save", "tmp",
          "rename", "show", "release"}
PC    == Label \cup {"truncate", "put"}

\* plan: as loaded for later; out, then: what is being written, and what follows
Memory == [use : Use, click : Preview, plan : Plan, out : Plan, then : Label,
           key : ID, comp : Compiled, embed : Nat]

NewPlan == [id |-> Own, gen |-> 0, draft |-> TRUE, text |-> 1]
NoClick == [id |-> Own, gen |-> 0, comp |-> 0]
NoRun   == [clicked |-> 0, started |-> 0]
Blank   == [use |-> "look", click |-> NoClick, plan |-> NewPlan, out |-> NewPlan,
            then |-> "idle", key |-> Own, comp |-> 0, embed |-> 0]

Init ==
    /\ md = NewPlan /\ side = Absent /\ tmp = Absent
    /\ inFlight = {} /\ shown = {}
    /\ pc = [g \in Goroutine |-> "idle"]
    /\ mem = [g \in Goroutine |-> Blank]
    /\ run = NoRun
    /\ overlapped = FALSE
    /\ compiles = 0 /\ edits = 0 /\ crashes = 0

-------------------------------------------------------------------------------
(* The plan store.                                                          *)

Used == {md.id} \cup inFlight \cup {v.id : v \in shown}
           \cup UNION {{mem[g].plan.id, mem[g].out.id, mem[g].key, mem[g].click.id} :
                          g \in Goroutine}

\* newPlanID: an ID nothing has; the least one, for they are alike
NewID == {id \in ID \ Used : \A other \in ID \ Used : id <= other}

\* What Store.Load can return: an empty file parses to an empty frontmatter,
\* which gets an ID
Loads == IF md = Empty THEN {[md EXCEPT !.id = id] : id \in NewID} ELSE {md}

\* g goes to label next with m in memory; a goroutine that is done keeps nothing
Goto(g, next, m) ==
    /\ pc' = [pc EXCEPT ![g] = next]
    /\ mem' = [mem EXCEPT ![g] = IF next = "idle" THEN Blank ELSE m]

\* writePlan begins: truncate, put, then go on at label next
WritePlan(g, plan, next, m) ==
    Goto(g, "truncate", [m EXCEPT !.out = plan, !.then = next])

\* Load returned plan, and writes it if that backfills its ID, before label next
Load(g, plan, next, m) ==
    IF md = Empty THEN WritePlan(g, plan, next, m) ELSE Goto(g, next, m)

\* os.WriteFile opens with O_TRUNC ...
Truncate(g) ==
    /\ pc[g] = "truncate"
    /\ md' = Empty
    /\ Goto(g, "put", mem[g])
    /\ UNCHANGED <<side, tmp, inFlight, shown, run, overlapped, bounds>>

\* Nothing is being written any more
Written(m) == [m EXCEPT !.out = NewPlan, !.then = "idle"]

\* ... and writes from the beginning
Put(g) ==
    /\ pc[g] = "put"
    /\ md' = mem[g].out
    /\ Goto(g, mem[g].then, Written(mem[g]))
    /\ UNCHANGED <<side, tmp, inFlight, shown, run, overlapped, bounds>>

\* Either fails: Load does not mind, Update and SetStatus return, and
\* SaveCompiled removes the .tmp file and returns
WriteFails(g) ==
    /\ pc[g] \in {"truncate", "put"}
    /\ IF mem[g].then = "rename"
       THEN tmp' = Absent /\ Goto(g, "release", Written(mem[g]))
       ELSE tmp' = tmp /\ Goto(g, mem[g].then, Written(mem[g]))
    /\ UNCHANGED <<md, side, inFlight, shown, run, overlapped, bounds>>

\* The file cannot be read.  LoadCompiled's caller in a compile does without the
\* prior plan, every other caller returns
ReadFails(g) ==
    /\ pc[g] \in {"list", "pick", "change", "drift", "prior", "embed", "save"}
    /\ Goto(g, CASE pc[g] = "prior" -> "consult"
                 [] pc[g] \in {"embed", "save"} -> "release"
                 [] OTHER -> "idle", mem[g])
    /\ UNCHANGED <<files, inFlight, shown, run, overlapped, bounds>>

-------------------------------------------------------------------------------
(* What messages begin with: the plan is looked for, which reads it once,   *)
(* and what was found is loaded, which reads it again.                      *)

Begin(use, click) ==
    /\ pc[Listener] = "idle"
    /\ Goto(Listener, "list", [Blank EXCEPT !.use = use, !.click = click])
    /\ run' = NoRun
    /\ UNCHANGED <<files, inFlight, shown, overlapped, bounds>>

\* Any message: the context of a consult names the plans
Look == Begin("look", NoClick)

\* Plan mode, and /newplan
RequestEdit == edits < MaxEdits /\ Begin("edit", NoClick)

\* handleExecuteMarkdown of the draft or of a text in the message, and
\* handleExecuteRerun
RequestCompile ==
    /\ compiles < MaxCompiles
    /\ \/ Begin("draft", NoClick)
       \/ Begin("inline", NoClick)
       \/ \E v \in shown : Begin("rerun", v)

\* handleExecutePlanApproval
Click == \E v \in shown, use \in {"approve", "revise"} : Begin(use, v)

\* LatestDraft goes by the status, findPlanByID and handleExecuteRerun by the ID
Found(m, plan) ==
    CASE m.use = "look" -> FALSE
      [] m.use \in {"edit", "draft", "inline"} -> plan.draft
      [] OTHER -> plan.id = m.click.id

\* List.  Without a draft Save makes another file, and an inline text is
\* compiled without saving anything
List(g) ==
    /\ pc[g] = "list"
    /\ \E plan \in Loads :
          Load(g, plan, IF Found(mem[g], plan) THEN "pick" ELSE "idle", mem[g])
    /\ UNCHANGED <<files, inFlight, shown, run, overlapped, bounds>>

\* The second load has the last word on ID, generation and body, and nobody
\* looks at the status again.  Only an empty draft is refused a compile, only a
\* click compares the generation
Allows(m, plan) ==
    CASE m.use = "draft" -> plan.text # 0
      [] m.use \in {"approve", "revise"} -> plan.gen = m.click.gen
      [] OTHER -> TRUE

After(m) ==
    CASE m.use = "edit" -> "change"
      [] m.use \in {"approve", "revise"} -> "drift"
      [] OTHER -> "acquire"

\* A compile goes by the plan's ID, a click by what was clicked
Picked(m, plan) == IF After(m) = "acquire" THEN [Blank EXCEPT !.key = plan.id] ELSE m

Pick(g) ==
    /\ pc[g] = "pick"
    /\ \E plan \in Loads :
          Load(g, plan, IF Allows(mem[g], plan) THEN After(mem[g]) ELSE "idle",
               Picked(mem[g], plan))
    /\ UNCHANGED <<files, inFlight, shown, run, overlapped, bounds>>

-------------------------------------------------------------------------------
(* Plan mode: finalizePlan and /newplan, on the listener.                   *)

\* Update and SetStatus load the plan a third time
LoadDraft(g) ==
    /\ pc[g] = "change"
    /\ \E plan \in Loads : Load(g, plan, "alter", [mem[g] EXCEPT !.plan = plan])
    /\ UNCHANGED <<files, inFlight, shown, run, overlapped, bounds>>

\* Update gives it another body, SetStatus archives it
Alter(g) ==
    /\ pc[g] = "alter"
    /\ edits' = edits + 1
    /\ \/ WritePlan(g, [mem[g].plan EXCEPT !.text = edits + 2], "idle", mem[g])
       \/ WritePlan(g, [mem[g].plan EXCEPT !.draft = FALSE], "idle", mem[g])
    /\ UNCHANGED <<files, inFlight, shown, run, overlapped, compiles, crashes>>

-------------------------------------------------------------------------------
(* compileAndBroadcastExecutePlan, on the listener or a goroutine.          *)

\* The label g is at, or gets to once it has written the plan file
Heading(g) == IF pc[g] \in {"truncate", "put"} THEN mem[g].then ELSE pc[g]

\* Goroutines between their compile's start and the end of its broadcast
CompileLabel == {"prior", "consult", "retry", "embed", "save", "tmp", "rename",
                 "show", "release"}
Compiling == {g \in Goroutine : Heading(g) \in CompileLabel}

\* Mutant: two critical sections, one to look and one to set
Acquire_always(g) ==
    /\ pc[g] = "acquire"
    /\ inFlight' = inFlight \cup {mem[g].key}
    /\ overlapped' = (overlapped \/ Compiling # {})
    /\ Goto(g, "prior", mem[g])
    /\ UNCHANGED <<files, shown, run, bounds>>

\* A compile already running for this plan: reply and return
Acquire(g) ==
    /\ pc[g] = "acquire"
    /\ \/ /\ mem[g].key \in inFlight
          /\ Goto(g, "idle", mem[g])
          /\ UNCHANGED <<inFlight, overlapped>>
       \/ /\ mem[g].key \notin inFlight
          /\ inFlight' = inFlight \cup {mem[g].key}
          /\ overlapped' = (overlapped \/ Compiling # {})
          /\ Goto(g, "prior", mem[g])
    /\ UNCHANGED <<files, shown, run, bounds>>

\* LoadCompiled for the prompt's prior compilation
LoadPrior(g) ==
    /\ pc[g] = "prior"
    /\ \E plan \in Loads : Load(g, plan, "consult", mem[g])
    /\ UNCHANGED <<files, inFlight, shown, run, overlapped, bounds>>

\* ConsultCompilePlan returns a plan that Validate accepts for the guests here
ConsultCompilePlan(g) ==
    /\ compiles < MaxCompiles
    /\ compiles' = compiles + 1
    /\ Goto(g, "embed", [mem[g] EXCEPT !.comp = compiles + 1])

\* An error, a profile nobody has, or a plan that is not valid: reply and return
NoPlan(g) == Goto(g, "release", mem[g]) /\ UNCHANGED compiles

\* Mutant: an early return that forgets the mutex
Consult_forgets(g) ==
    /\ pc[g] = "consult"
    /\ Goto(g, "idle", mem[g])
    /\ UNCHANGED <<files, inFlight, shown, run, overlapped, bounds>>

\* The first consult: a plan, a missing profile that is the alias of exactly one
\* guest, or a reply
Consult(g) ==
    /\ pc[g] = "consult"
    /\ \/ ConsultCompilePlan(g)
       \/ Goto(g, "retry", mem[g]) /\ UNCHANGED compiles
       \/ NoPlan(g)
    /\ UNCHANGED <<files, inFlight, shown, run, overlapped, edits, crashes>>

\* The only retry, with the guest's ID as feedback
Retry(g) ==
    /\ pc[g] = "retry"
    /\ ConsultCompilePlan(g) \/ NoPlan(g)
    /\ UNCHANGED <<files, inFlight, shown, run, overlapped, edits, crashes>>

\* PlanGeneration is embedded from a Load of its own ...
Embed(g) ==
    /\ pc[g] = "embed"
    /\ \E plan \in Loads :
          Load(g, plan, "save", [mem[g] EXCEPT !.embed = plan.gen + 1])
    /\ UNCHANGED <<files, inFlight, shown, run, overlapped, bounds>>

\* ... SaveCompiled bumps the one it loads itself
LoadForSave(g) ==
    /\ pc[g] = "save"
    /\ \E plan \in Loads : Load(g, plan, "tmp", [mem[g] EXCEPT !.plan = plan])
    /\ UNCHANGED <<files, inFlight, shown, run, overlapped, bounds>>

Bumped(plan) == [plan EXCEPT !.gen = plan.gen + 1]

WriteTmp(g) ==
    /\ pc[g] = "tmp"
    /\ \/ /\ tmp' = [gen |-> mem[g].embed, comp |-> mem[g].comp]
          /\ WritePlan(g, Bumped(mem[g].plan), "rename", [mem[g] EXCEPT !.embed = 0])
       \/ /\ tmp' \in {tmp, Absent}
          /\ Goto(g, "release", mem[g])
    /\ UNCHANGED <<md, side, inFlight, shown, run, overlapped, bounds>>

Rename(g) ==
    /\ pc[g] = "rename"
    /\ side' = tmp
    /\ tmp' = Absent
    /\ Goto(g, "show", mem[g])
    /\ UNCHANGED <<md, inFlight, shown, run, overlapped, bounds>>

\* Mutant: the generation that comes with the error is shown
RenameFails_shows(g) ==
    /\ pc[g] = "rename"
    /\ Goto(g, "show", mem[g])
    /\ UNCHANGED <<files, inFlight, shown, run, overlapped, bounds>>

\* The frontmatter is ahead of the sidecar now; the .tmp file stays
RenameFails(g) ==
    /\ pc[g] = "rename"
    /\ Goto(g, "release", mem[g])
    /\ UNCHANGED <<files, inFlight, shown, run, overlapped, bounds>>

\* broadcastExecPlanArtifact
Show(g) ==
    /\ pc[g] = "show"
    /\ shown' = shown \cup {[id   |-> mem[g].key,
                             gen  |-> Bumped(mem[g].plan).gen,
                             comp |-> mem[g].comp]}
    /\ Goto(g, "release", mem[g])
    /\ UNCHANGED <<files, inFlight, run, overlapped, bounds>>

\* The deferred delete
Release(g) ==
    /\ pc[g] = "release"
    /\ inFlight' = inFlight \ {mem[g].key}
    /\ Goto(g, "idle", mem[g])
    /\ UNCHANGED <<files, shown, run, overlapped, bounds>>

Compile(g) ==
    \/ Acquire(g) \/ LoadPrior(g) \/ Consult(g) \/ Retry(g) \/ Embed(g) \/ LoadForSave(g)
    \/ WriteTmp(g) \/ Rename(g) \/ RenameFails(g) \/ Show(g) \/ Release(g)

-------------------------------------------------------------------------------
(* The rest of handleExecutePlanApproval, on the listener.                  *)

\* LoadCompiled loads the plan again ...
LoadForDrift(g) ==
    /\ pc[g] = "drift"
    /\ \E plan \in Loads : Load(g, plan, "sidecar", [mem[g] EXCEPT !.plan = plan])
    /\ UNCHANGED <<files, inFlight, shown, run, overlapped, bounds>>

\* ... and rejects a sidecar that is absent or of another generation
Drifted(plan) == side = Absent \/ side.gen # plan.gen

\* A sidecar that cannot be read, or a guest the plan requires that has left the
\* room since: reply and return.  A Revise compiles in a goroutine of its own
ReadSidecar(g) ==
    /\ pc[g] = "sidecar"
    /\ \/ /\ Goto(g, "idle", mem[g])
          /\ UNCHANGED run
       \/ /\ ~Drifted(mem[g].plan) /\ mem[g].use = "approve"
          /\ run' = [clicked |-> mem[g].click.comp, started |-> side.comp]
          /\ Goto(g, "idle", mem[g])
       \/ /\ ~Drifted(mem[g].plan) /\ mem[g].use = "revise"
          /\ \E r \in Reviser, source \in {"draft", "inline"} :
                /\ pc[r] = "idle"
                /\ pc' = [pc EXCEPT ![g] = "idle", ![r] = "list"]
                /\ mem' = [mem EXCEPT ![g] = Blank, ![r] = [Blank EXCEPT !.use = source]]
          /\ UNCHANGED run
    /\ UNCHANGED <<files, inFlight, shown, overlapped, bounds>>

-------------------------------------------------------------------------------
\* The process dies and starts again; the files are what they are
Crash ==
    /\ crashes < MaxCrashes
    /\ crashes' = crashes + 1
    /\ pc' = [g \in Goroutine |-> "idle"]
    /\ mem' = [g \in Goroutine |-> Blank]
    /\ inFlight' = {}
    /\ run' = NoRun
    /\ UNCHANGED <<files, shown, overlapped, compiles, edits>>

Step(g) ==
    \/ Truncate(g) \/ Put(g) \/ WriteFails(g) \/ ReadFails(g)
    \/ List(g) \/ Pick(g) \/ LoadDraft(g) \/ Alter(g)
    \/ Compile(g) \/ LoadForDrift(g) \/ ReadSidecar(g)

Next ==
    \/ \E g \in Goroutine : Step(g)
    \/ Look \/ RequestEdit \/ RequestCompile \/ Click
    \/ Crash

Spec == Init /\ [][Next]_vars

\* Goroutines are scheduled and the agent's consult returns
FairSpec == Spec /\ \A g \in Goroutine : WF_vars(Step(g))
-------------------------------------------------------------------------------
(* Properties.                                                              *)

\* Every variable has its type.
TypeOK ==
    /\ md \in Plan \cup {Empty}
    /\ side \in Sidecar /\ tmp \in Sidecar
    /\ inFlight \in SUBSET ID
    /\ shown \in SUBSET Preview
    /\ pc \in [Goroutine -> PC]
    /\ mem \in [Goroutine -> Memory]
    /\ run \in [clicked : Compiled, started : Compiled]
    /\ overlapped \in BOOLEAN
    /\ compiles \in 0..MaxCompiles /\ edits \in 0..MaxEdits
    /\ crashes \in 0..MaxCrashes

\* Two compiles never run at once under the same plan ID, however clicks and
\* messages overlap and whatever a read of the file has returned: a second one
\* needs a read that found the file truncated and gave the plan another ID.
OneCompile == \A g, h \in Compiling : mem[g].key = mem[h].key => g = h

\* As long as no two compiles have run at once, Approve never starts a compiled
\* plan older than the one whose preview was clicked, across crashes, failed
\* writes and failed renames in the middle of a save, reads of a truncated file,
\* and edits that write an old generation back.
NeverOlder == ~overlapped => run.started >= run.clicked

\* A plan's compile slot is not leaked: whatever the compile meets, the plan
\* can be compiled again later.
SlotReleased == \A id \in ID : []<>(id \notin inFlight)

-------------------------------------------------------------------------------
(* The strengthening that makes OneCompile and NeverOlder inductive.        *)

\* Every plan there is: the file's and what the goroutines hold of it
Plans == {md} \cup {mem[g].plan : g \in Goroutine} \cup {mem[g].out : g \in Goroutine}

\* The mutex: a compile has its slot to itself
Locked ==
    \A g \in Compiling : /\ mem[g].key \in inFlight
                         /\ \A h \in Compiling : mem[g].key = mem[h].key => h = g

\* Without an overlap so far there is one compile at most
Alone == \A g, h \in Compiling : g = h

\* Only the listener edits, one edit at a time
Editing ==
    \A g \in Goroutine :
        /\ mem[g].use = "edit" /\ Heading(g) \in {"list", "pick", "change", "alter"}
              => g = Listener /\ edits < MaxEdits
        /\ Heading(g) \in {"change", "alter"} => mem[g].use = "edit"

\* The sidecar is as new as all that was shown, and a compile in flight newer
Newest ==
    /\ side.comp <= compiles
    /\ \A v \in shown : v.comp <= side.comp
    /\ \A g \in Goroutine :
          /\ mem[g].click.comp <= side.comp
          /\ Heading(g) \in {"embed", "save", "tmp", "rename"}
                => side.comp <= mem[g].comp /\ mem[g].comp <= compiles
          /\ Heading(g) = "rename" => tmp.comp = mem[g].comp
          /\ Heading(g) = "show" => side.comp = mem[g].comp

Coherent == /\ TypeOK /\ Locked /\ Editing /\ NeverOlder
            /\ ~overlapped => Alone /\ Newest

-------------------------------------------------------------------------------
(* What comments and documents of the repository say, and the code refutes. *)

\* docs/architecture/modes.md: "if the user clicked an artifact that has since
\* been revised, the server rejects the tag instead of silently dispatching the
\* wrong plan".
ClickedIsStarted == run.started = run.clicked

\* internal/orchestrator/execcompile.go:131-133: handleExecuteMarkdown takes "the
\* per-plan-ID compile mutex, rejecting concurrent compiles", which "avoids
\* interleaved SaveCompiled writes": no two compiles run at once.
CompilesExclude == ~overlapped

\* plans/store.go Load: a backfilled ID is persisted "so subsequent loads see
\* the stable identity"; plan IDs are what previews and clicks name.
IdentityStable == md # Empty => md.id = Own

\* plans/compiled.go:40: SaveCompiled updates the frontmatter: the text it
\* writes is the one the file has, an edit made meanwhile included.
EditsSurvive ==
    [][\A g \in Goroutine :
          pc[g] = "truncate" /\ mem[g].then = "rename" /\ pc'[g] = "put" /\ md # Empty
              => mem[g].out.text = md.text]_vars
===============================================================================
