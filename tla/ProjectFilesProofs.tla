-------------------------- MODULE ProjectFilesProofs --------------------------
(***************************************************************************)
(* Proofs about the files of a project: PlanCompile, for any number of      *)
(* compile goroutines, compiles, edits and crashes; RunLogFile, for logs of *)
(* any length and any number of crashes and cut writes.                     *)
(***************************************************************************)
EXTENDS MCProjectFiles, FiniteSetTheorems, SequenceTheorems, WellFoundedInduction, TLAPS

-------------------------------------------------------------------------------
(* What moving and loading do to the goroutine that does it.                *)

\* Numbers that stand for nothing yet are in range.
LEMMA Ranges ==
    /\ 0 \in Compiled /\ 0 \in 0..MaxEdits + 1 /\ 1 \in 0..MaxEdits + 1
    /\ Own \in ID /\ Compiled \subseteq Nat
BY CompileBounds DEF CompileBounds, Compiled, Own, ID

\* What a goroutine starts with has its type.
LEMMA BlankType ==
    /\ NewPlan \in Plan /\ NoClick \in Preview /\ Blank \in Memory
    /\ NoRun \in [clicked : Compiled, started : Compiled] /\ Absent \in Sidecar
<1>1. NewPlan \in Plan /\ NoClick \in Preview /\ Absent \in Sidecar
  BY Ranges DEF NewPlan, NoClick, Plan, Preview, Absent, Sidecar
<1>2. Blank \in Memory
  BY <1>1, Ranges DEF Blank, Memory, Use, Label
<1> QED BY <1>1, <1>2, Ranges DEF NoRun

\* What was compiled first is numbered one, nothing is numbered zero.
LEMMA SideNumbered == TypeOK => side.comp \in Nat /\ NoClick.comp <= side.comp
<1> SUFFICES ASSUME TypeOK PROVE side.comp \in Nat /\ NoClick.comp <= side.comp
  OBVIOUS
<1>1. side.comp \in Nat
  BY Ranges DEF TypeOK, Sidecar
<1>2. NoClick.comp = 0
  BY DEF NoClick
<1> QED BY <1>1, <1>2

\* Load returns a plan, with an ID if the file was empty.
LEMMA LoadsType ==
    ASSUME TypeOK, NEW plan \in Loads
    PROVE  plan \in Plan
<1>1. CASE md = Empty
  <2>1. PICK id \in NewID : plan = [md EXCEPT !.id = id]
    BY <1>1 DEF Loads
  <2>2. id \in ID
    BY DEF NewID
  <2>3. plan = [id |-> id, gen |-> 0, draft |-> FALSE, text |-> 0]
    BY <1>1, <2>1 DEF Empty
  <2> QED BY <2>2, <2>3, Ranges DEF Plan
<1>2. CASE md # Empty
  BY <1>2 DEF Loads, TypeOK
<1> QED BY <1>1, <1>2

\* The rest of the state of a step that only moves goroutine g.
Moves(g, next) ==
    /\ pc' \in [Goroutine -> PC] /\ mem' \in [Goroutine -> Memory]
    /\ Heading(g)' = next
    /\ \A h \in Goroutine : h # g => Heading(h)' = Heading(h) /\ mem'[h] = mem[h]

\* What g holds is what m says, or it is done and holds nothing.
Holds(g, next, m) ==
    \/ next = "idle" /\ mem'[g] = Blank
    \/ /\ mem'[g].use = m.use /\ mem'[g].click = m.click
       /\ mem'[g].key = m.key /\ mem'[g].comp = m.comp

\* A step of one goroutine moves that one,
LEMMA GotoMoves ==
    ASSUME TypeOK, NEW g \in Goroutine, NEW next \in Label, NEW m \in Memory,
           Goto(g, next, m)
    PROVE  /\ Moves(g, next) /\ Holds(g, next, m)
           /\ mem'[g] = IF next = "idle" THEN Blank ELSE m
<1> DEFINE held == IF next = "idle" THEN Blank ELSE m
<1>1. held \in Memory
  BY BlankType
<1>2. pc' = [pc EXCEPT ![g] = next] /\ mem' = [mem EXCEPT ![g] = held]
  BY DEF Goto
<1>3. next \in PC /\ next \notin {"truncate", "put"}
  BY DEF Label, PC
<1> HIDE DEF held
<1>4. Moves(g, next) /\ mem'[g] = held
  BY <1>1, <1>2, <1>3 DEF TypeOK, Moves, Heading
<1> QED BY <1>4 DEF Holds, held

\* so does one that also writes the plan's file,
LEMMA WriteMoves ==
    ASSUME TypeOK, NEW g \in Goroutine, NEW plan \in Plan, NEW next \in Label,
           NEW m \in Memory, WritePlan(g, plan, next, m)
    PROVE  Moves(g, next) /\ Holds(g, next, m)
<1> DEFINE held == [m EXCEPT !.out = plan, !.then = next]
<1>1. /\ held \in Memory /\ held.then = next /\ held.use = m.use /\ held.click = m.click
      /\ held.key = m.key /\ held.comp = m.comp
  BY DEF Memory
<1>2. pc' = [pc EXCEPT ![g] = "truncate"] /\ mem' = [mem EXCEPT ![g] = held]
  BY DEF WritePlan, Goto
<1> HIDE DEF held
<1>3. /\ pc' \in [Goroutine -> PC] /\ mem' \in [Goroutine -> Memory]
      /\ pc'[g] = "truncate" /\ mem'[g] = held
      /\ \A h \in Goroutine : h # g => pc'[h] = pc[h] /\ mem'[h] = mem[h]
  BY <1>1, <1>2 DEF TypeOK, PC
<1> QED BY <1>1, <1>3 DEF Moves, Holds, Heading

\* and one that reads it.
LEMMA LoadMoves ==
    ASSUME TypeOK, NEW g \in Goroutine, NEW plan \in Plan, NEW next \in Label,
           NEW m \in Memory, Load(g, plan, next, m)
    PROVE  Moves(g, next) /\ Holds(g, next, m)
BY GotoMoves, WriteMoves DEF Load

-------------------------------------------------------------------------------
(* Steps that leave the sidecar and the previews alone.                     *)

\* Where h ends up is consistent with where it was: it clicked on nothing newer
\* than what was shown, and enters none of the stages that have their own lemmas.
Settles(h) ==
    /\ Heading(h)' \in CompileLabel =>
          h \in Compiling /\ mem'[h].key = mem[h].key /\ mem[h].key \in inFlight'
    /\ mem'[h].use = "edit" /\ Heading(h)' \in {"list", "pick", "change", "alter"}
          => h = Listener /\ edits' < MaxEdits
    /\ Heading(h)' \in {"change", "alter"} => mem'[h].use = "edit"
    /\ Heading(h)' \in {"embed", "save", "tmp"} =>
          Heading(h) \in {"embed", "save", "tmp"} /\ mem'[h].comp = mem[h].comp
    /\ Heading(h)' \in {"rename", "show"} =>
          Heading(h)' = Heading(h) /\ mem'[h].comp = mem[h].comp
    /\ Heading(h)' = "rename" => tmp' = tmp \/ overlapped
    /\ mem'[h].click \in {mem[h].click, NoClick} \cup shown

\* A step that touches neither sidecar nor preview keeps the invariant when every
\* goroutine is where its memory allows.
LEMMA QuietKeeps ==
    ASSUME Coherent, TypeOK', NeverOlder', UNCHANGED <<side, shown, overlapped, compiles>>,
           \A h \in Goroutine : Settles(h)
    PROVE  Coherent'
<1> USE DEF Coherent, Settles
<1>1. Locked'
  BY DEF Locked, Compiling
<1>2. Editing'
  BY DEF Editing
<1>3. ASSUME ~overlapped' PROVE Alone' /\ Newest'
  <2>1. Alone /\ Newest
    BY <1>3
  <2>2. Alone'
    BY <2>1 DEF Alone, Compiling
  <2>3. \A h \in Goroutine : mem'[h].click.comp <= side.comp
    BY <2>1, SideNumbered DEF Newest
  <2> QED BY <1>3, <2>1, <2>2, <2>3 DEF Newest
<1> QED BY <1>1, <1>2, <1>3

\* A goroutine that stays where it is settles there.
LEMMA StaySettles ==
    ASSUME Coherent, NEW h \in Goroutine, Heading(h)' = Heading(h), mem'[h] = mem[h],
           edits' = edits \/ h # Listener,
           h \in Compiling => mem[h].key \in inFlight',
           tmp' = tmp \/ Heading(h) # "rename" \/ overlapped
    PROVE  Settles(h)
BY DEF Coherent, Settles, Locked, Editing, Compiling

\* A step of one goroutine that touches neither sidecar, preview nor slots keeps
\* the invariant.
LEMMA StepKeeps ==
    ASSUME Coherent, NEW g \in Goroutine, NEW next \in Label, NEW m, Moves(g, next),
           Holds(g, next, m), NeverOlder',
           UNCHANGED <<side, inFlight, shown, overlapped, bounds>>,
           md' \in Plan \cup {Empty}, tmp' \in Sidecar,
           run' \in [clicked : Compiled, started : Compiled],
           tmp' = tmp \/ (g \in Compiling /\ next # "rename"),
           next \in CompileLabel => g \in Compiling /\ m.key = mem[g].key,
           m.use = "edit" /\ next \in {"list", "pick", "change", "alter"}
              => g = Listener /\ edits < MaxEdits,
           next \in {"change", "alter"} => m.use = "edit",
           next \in {"embed", "save", "tmp"} =>
              Heading(g) \in {"embed", "save", "tmp"} /\ m.comp = mem[g].comp,
           next \notin {"rename", "show"},
           m.click \in {mem[g].click, NoClick} \cup shown
    PROVE  Coherent'
<1> USE DEF bounds
<1>1. TypeOK'
  BY DEF Coherent, TypeOK, Moves
<1>2. Settles(g)
  <2>1. Heading(g)' = next
    BY DEF Moves
  <2>2. CASE next = "idle" /\ mem'[g] = Blank
    BY <2>1, <2>2 DEF Settles, CompileLabel, Blank
  <2>3. CASE /\ mem'[g].use = m.use /\ mem'[g].click = m.click
             /\ mem'[g].key = m.key /\ mem'[g].comp = m.comp
    BY <2>1, <2>3 DEF Settles, Coherent, Locked
  <2> QED BY <2>2, <2>3 DEF Holds
<1>3. \A h \in Goroutine : h # g => Settles(h)
  <2> SUFFICES ASSUME NEW h \in Goroutine, h # g PROVE Settles(h)
    OBVIOUS
  <2>1. Heading(h)' = Heading(h) /\ mem'[h] = mem[h]
    BY DEF Moves
  <2>2. h \in Compiling => mem[h].key \in inFlight'
    BY DEF Coherent, Locked
  <2>3. tmp' = tmp \/ Heading(h) # "rename" \/ overlapped
    BY DEF Coherent, Alone, Compiling, CompileLabel
  <2> QED BY <2>1, <2>2, <2>3, StaySettles
<1> QED BY <1>1, <1>2, <1>3, QuietKeeps

\* One that leaves every file alone.
LEMMA LocalKeeps ==
    ASSUME Coherent, NEW g \in Goroutine, NEW next \in Label, NEW m, Moves(g, next),
           Holds(g, next, m),
           UNCHANGED <<files, inFlight, shown, overlapped, bounds>>,
           run' \in {run, NoRun},
           next \in CompileLabel => g \in Compiling /\ m.key = mem[g].key,
           m.use = "edit" /\ next \in {"list", "pick", "change", "alter"}
              => g = Listener /\ edits < MaxEdits,
           next \in {"change", "alter"} => m.use = "edit",
           next \in {"embed", "save", "tmp"} =>
              Heading(g) \in {"embed", "save", "tmp"} /\ m.comp = mem[g].comp,
           next \notin {"rename", "show"},
           m.click \in {mem[g].click, NoClick} \cup shown
    PROVE  Coherent'
<1>1. NeverOlder' /\ run' \in [clicked : Compiled, started : Compiled]
  BY BlankType DEF Coherent, TypeOK, NeverOlder, NoRun
<1>2. md' \in Plan \cup {Empty} /\ tmp' \in Sidecar /\ tmp' = tmp /\ side' = side
  BY DEF Coherent, TypeOK, files
<1> QED BY <1>1, <1>2, StepKeeps

\* What a goroutine holds already.
LEMMA HeldMemory ==
    ASSUME Coherent, NEW g \in Goroutine
    PROVE  /\ TypeOK /\ mem[g] \in Memory /\ mem[g].plan \in Plan /\ mem[g].out \in Plan
           /\ mem[g].then \in Label /\ mem[g].comp \in Compiled
BY DEF Coherent, TypeOK, Memory

\* A goroutine that only goes elsewhere, with what it holds.
LEMMA GotoKeeps ==
    ASSUME Coherent, NEW g \in Goroutine, NEW next \in Label,
           Goto(g, next, mem[g]),
           UNCHANGED <<files, inFlight, shown, run, overlapped, bounds>>,
           next \in CompileLabel => g \in Compiling,
           next \notin {"list", "pick", "change", "alter", "embed", "save", "tmp",
                        "rename", "show"}
    PROVE  Coherent'
<1>1. Moves(g, next) /\ Holds(g, next, mem[g])
  BY HeldMemory, GotoMoves
<1> QED BY <1>1, LocalKeeps

\* A goroutine that reads the plan's file.
LEMMA LoadKeeps ==
    ASSUME Coherent, NEW g \in Goroutine, NEW plan \in Loads, NEW next \in Label,
           NEW m \in Memory, Load(g, plan, next, m),
           UNCHANGED <<files, inFlight, shown, run, overlapped, bounds>>,
           next \in CompileLabel => g \in Compiling /\ m.key = mem[g].key,
           m.use = "edit" /\ next \in {"list", "pick", "change", "alter"}
              => g = Listener /\ edits < MaxEdits,
           next \in {"change", "alter"} => m.use = "edit",
           next \in {"embed", "save", "tmp"} =>
              Heading(g) \in {"embed", "save", "tmp"} /\ m.comp = mem[g].comp,
           next \notin {"rename", "show"},
           m.click \in {mem[g].click, NoClick}
    PROVE  Coherent'
<1>1. Moves(g, next) /\ Holds(g, next, m)
  BY HeldMemory, LoadsType, LoadMoves
<1> QED BY <1>1, LocalKeeps

\* A message arrives.
LEMMA BeginKeeps ==
    ASSUME Coherent, NEW use \in Use, NEW click \in shown \cup {NoClick},
           Begin(use, click), use = "edit" => edits < MaxEdits
    PROVE  Coherent'
<1> DEFINE m == [Blank EXCEPT !.use = use, !.click = click]
<1>1. m \in Memory /\ m.use = use /\ m.click = click
  BY BlankType DEF Coherent, TypeOK, Memory
<1>2. /\ Goto(Listener, "list", m) /\ run' = NoRun
      /\ UNCHANGED <<files, inFlight, shown, overlapped, bounds>>
  BY DEF Begin
<1> HIDE DEF m
<1>3. Listener \in Goroutine /\ "list" \in Label
  BY DEF Goroutine, Label
<1>4. Moves(Listener, "list") /\ Holds(Listener, "list", m)
  BY <1>1, <1>2, <1>3, HeldMemory, GotoMoves
<1> QED BY <1>1, <1>2, <1>3, <1>4, LocalKeeps DEF CompileLabel

\* A message of any kind,
LEMMA MessageKeeps ==
    ASSUME Coherent, Look \/ RequestEdit \/ RequestCompile \/ Click
    PROVE  Coherent'
<1>1. NoClick \in shown \cup {NoClick} /\ shown \subseteq shown \cup {NoClick}
  OBVIOUS
<1>2. {"look", "edit", "draft", "inline", "rerun", "approve", "revise"} \subseteq Use
  BY DEF Use
<1>3. \E use \in Use, click \in shown \cup {NoClick} :
         Begin(use, click) /\ (use = "edit" => edits < MaxEdits)
  BY <1>1, <1>2 DEF Look, RequestEdit, RequestCompile, Click
<1> QED BY <1>3, BeginKeeps

\* what it reads before it does anything,
LEMMA FindKeeps ==
    ASSUME Coherent, NEW g \in Goroutine, List(g) \/ Pick(g) \/ LoadDraft(g)
    PROVE  Coherent'
<1> USE DEF Label, CompileLabel
<1>0. mem[g].use \in Use
  BY HeldMemory DEF Memory
<1>1. CASE List(g)
  <2>1. PICK plan \in Loads :
           Load(g, plan, IF Found(mem[g], plan) THEN "pick" ELSE "idle", mem[g])
    BY <1>1 DEF List
  <2>2. mem[g].use = "edit" => g = Listener /\ edits < MaxEdits
    BY <1>1 DEF List, Heading, Coherent, Editing
  <2> QED BY <1>1, <2>1, <2>2, HeldMemory, LoadKeeps DEF List
<1>2. CASE Pick(g)
  <2>1. PICK plan \in Loads :
           Load(g, plan, IF Allows(mem[g], plan) THEN After(mem[g]) ELSE "idle",
                Picked(mem[g], plan))
    BY <1>2 DEF Pick
  <2> DEFINE next == IF Allows(mem[g], plan) THEN After(mem[g]) ELSE "idle"
             m    == Picked(mem[g], plan)
  <2>2. /\ After(mem[g]) \in {"change", "drift", "acquire"}
        /\ After(mem[g]) = "change" => mem[g].use = "edit"
    BY <1>0 DEF After, Use
  <2>3. mem[g].use = "edit" => g = Listener /\ edits < MaxEdits
    BY <1>2 DEF Pick, Heading, Coherent, Editing
  <2>4. /\ m \in Memory /\ m.click \in {mem[g].click, NoClick}
        /\ After(mem[g]) # "acquire" => m = mem[g]
    <3>1. plan.id \in ID
      BY HeldMemory, LoadsType DEF Plan
    <3> QED BY <3>1, HeldMemory, BlankType DEF Picked, Memory, Blank
  <2>5. next \in {"change", "drift", "acquire", "idle"} /\ (next = "change" => m = mem[g])
    BY <2>2, <2>4
  <2>6. Load(g, plan, next, m) /\ UNCHANGED <<files, inFlight, shown, run, overlapped, bounds>>
    BY <1>2, <2>1 DEF Pick
  <2>7. next = "change" => After(mem[g]) = "change"
    OBVIOUS
  <2> HIDE DEF next, m
  <2> QED BY <2>2, <2>3, <2>4, <2>5, <2>6, <2>7, LoadKeeps
<1>3. CASE LoadDraft(g)
  <2>1. PICK plan \in Loads : Load(g, plan, "alter", [mem[g] EXCEPT !.plan = plan])
    BY <1>3 DEF LoadDraft
  <2> DEFINE m == [mem[g] EXCEPT !.plan = plan]
  <2>2. m \in Memory /\ m.use = mem[g].use /\ m.click = mem[g].click
    BY HeldMemory, LoadsType DEF Memory
  <2>3. mem[g].use = "edit" /\ g = Listener /\ edits < MaxEdits
    BY <1>3 DEF LoadDraft, Heading, Coherent, Editing
  <2>4. Load(g, plan, "alter", m) /\ UNCHANGED <<files, inFlight, shown, run, overlapped, bounds>>
    BY <1>3, <2>1 DEF LoadDraft
  <2> HIDE DEF m
  <2> QED BY <2>2, <2>3, <2>4, LoadKeeps
<1> QED BY <1>1, <1>2, <1>3

\* what a compile or a click reads later,
LEMMA CompileLoadKeeps ==
    ASSUME Coherent, NEW g \in Goroutine,
           LoadPrior(g) \/ Embed(g) \/ LoadForSave(g) \/ LoadForDrift(g)
    PROVE  Coherent'
<1> USE DEF Label, CompileLabel
<1>1. CASE LoadPrior(g)
  <2>1. g \in Compiling
    BY <1>1 DEF LoadPrior, Compiling, Heading
  <2> QED BY <1>1, <2>1, HeldMemory, LoadKeeps DEF LoadPrior
<1>2. CASE Embed(g)
  <2>1. PICK plan \in Loads : Load(g, plan, "save", [mem[g] EXCEPT !.embed = plan.gen + 1])
    BY <1>2 DEF Embed
  <2> DEFINE m == [mem[g] EXCEPT !.embed = plan.gen + 1]
  <2>2. g \in Compiling /\ Heading(g) = "embed"
    BY <1>2 DEF Embed, Compiling, Heading
  <2>3. /\ m \in Memory /\ m.key = mem[g].key /\ m.comp = mem[g].comp
        /\ m.click = mem[g].click
    <3>1. plan.gen + 1 \in Nat
      BY HeldMemory, LoadsType DEF Plan
    <3> QED BY <3>1, HeldMemory DEF Memory
  <2>4. Load(g, plan, "save", m) /\ UNCHANGED <<files, inFlight, shown, run, overlapped, bounds>>
    BY <1>2, <2>1 DEF Embed
  <2> HIDE DEF m
  <2> QED BY <2>2, <2>3, <2>4, LoadKeeps
<1>3. CASE LoadForSave(g) \/ LoadForDrift(g)
  <2>1. PICK plan \in Loads, next \in {"tmp", "sidecar"} :
           /\ Load(g, plan, next, [mem[g] EXCEPT !.plan = plan])
           /\ next = "tmp" => LoadForSave(g)
    BY <1>3 DEF LoadForSave, LoadForDrift
  <2> DEFINE m == [mem[g] EXCEPT !.plan = plan]
  <2>2. next = "tmp" => g \in Compiling /\ Heading(g) = "save"
    BY <2>1 DEF LoadForSave, Compiling, Heading
  <2>3. /\ m \in Memory /\ m.key = mem[g].key /\ m.comp = mem[g].comp
        /\ m.click = mem[g].click
    BY HeldMemory, LoadsType DEF Memory
  <2>4. Load(g, plan, next, m) /\ UNCHANGED <<files, inFlight, shown, run, overlapped, bounds>>
    BY <1>3, <2>1 DEF LoadForSave, LoadForDrift
  <2> HIDE DEF m
  <2> QED BY <2>2, <2>3, <2>4, LoadKeeps
<1> QED BY <1>1, <1>2, <1>3

-------------------------------------------------------------------------------
(* Steps that write the plan's file, and failures.                          *)

\* a read that fails, and a rename that does,
LEMMA FailureKeeps ==
    ASSUME Coherent, NEW g \in Goroutine, ReadFails(g) \/ RenameFails(g)
    PROVE  Coherent'
<1> USE DEF Label, CompileLabel
<1>1. CASE RenameFails(g)
  <2>1. g \in Compiling
    BY <1>1 DEF RenameFails, Compiling, Heading
  <2> QED BY <1>1, <2>1, GotoKeeps DEF RenameFails
<1>2. CASE ReadFails(g)
  <2>1. CASE pc[g] \in {"prior", "embed", "save"}
    <3>1. g \in Compiling
      BY <2>1 DEF Compiling, Heading
    <3>2. PICK next \in {"consult", "release"} : Goto(g, next, mem[g])
      BY <1>2, <2>1 DEF ReadFails
    <3> QED BY <1>2, <3>1, <3>2, GotoKeeps DEF ReadFails
  <2>2. CASE pc[g] \notin {"prior", "embed", "save"}
    <3>1. Goto(g, "idle", mem[g])
      BY <1>2, <2>2 DEF ReadFails
    <3> QED BY <1>2, <3>1, GotoKeeps DEF ReadFails
  <2> QED BY <2>1, <2>2
<1> QED BY <1>1, <1>2

\* the truncation of the plan's file,
LEMMA TruncateKeeps ==
    ASSUME Coherent, NEW g \in Goroutine, Truncate(g)
    PROVE  Coherent'
<1> USE DEF files, bounds
<1>1. /\ mem' = mem /\ md' = Empty
      /\ UNCHANGED <<side, tmp, inFlight, shown, run, overlapped, bounds>>
  BY DEF Truncate, Goto, Coherent, TypeOK
<1>2. pc' \in [Goroutine -> PC] /\ \A h \in Goroutine : Heading(h)' = Heading(h)
  BY <1>1 DEF Truncate, Goto, Coherent, TypeOK, Heading, PC
<1>3. TypeOK' /\ NeverOlder'
  BY <1>1, <1>2 DEF Coherent, TypeOK, NeverOlder
<1>4. \A h \in Goroutine : Settles(h)
  <2>1. \A h \in Goroutine : h \in Compiling => mem[h].key \in inFlight'
    BY <1>1 DEF Coherent, Locked
  <2> QED BY <1>1, <1>2, <2>1, StaySettles
<1> QED BY <1>1, <1>3, <1>4, QuietKeeps

\* the write that follows it, or the failure of either,
LEMMA WrittenKeeps ==
    ASSUME Coherent, NEW g \in Goroutine, Put(g) \/ WriteFails(g)
    PROVE  Coherent'
<1> USE DEF files, bounds
<1> DEFINE m == Written(mem[g])
<1>1. /\ m \in Memory /\ m.use = mem[g].use /\ m.click = mem[g].click
      /\ m.key = mem[g].key /\ m.comp = mem[g].comp
  BY HeldMemory, BlankType DEF Written, Memory, Label
<1> HIDE DEF m
<1>2. /\ pc[g] \in {"truncate", "put"}
      /\ UNCHANGED <<side, inFlight, shown, run, overlapped, bounds>>
      /\ \/ Goto(g, mem[g].then, m) /\ tmp' = tmp
         \/ /\ Goto(g, "release", m) /\ tmp' = Absent /\ mem[g].then = "rename"
      /\ md' \in {md, mem[g].out}
  BY DEF Put, WriteFails, m
<1>3. Heading(g) = mem[g].then
  BY <1>2 DEF Heading
<1>4. TypeOK /\ mem[g] \in Memory /\ mem[g].then \in Label /\ "release" \in Label
  BY HeldMemory DEF Label
<1>5. PICK next \in Label :
         /\ Moves(g, next) /\ Holds(g, next, m)
         /\ \/ next = Heading(g) /\ tmp' = tmp
            \/ next = "release" /\ Heading(g) = "rename" /\ tmp' = Absent
  BY <1>1, <1>2, <1>3, <1>4, GotoMoves
<1>6. TypeOK' /\ NeverOlder'
  BY <1>2, <1>5, BlankType, HeldMemory DEF Coherent, TypeOK, NeverOlder, Moves
<1>7. Settles(g)
  <2>1. Heading(g)' = next
    BY <1>5 DEF Moves
  <2>2. CASE next = "idle" /\ mem'[g] = Blank
    BY <2>1, <2>2 DEF Settles, CompileLabel, Blank
  <2>3. CASE /\ mem'[g].use = m.use /\ mem'[g].click = m.click
             /\ mem'[g].key = m.key /\ mem'[g].comp = m.comp
    BY <1>1, <1>2, <1>5, <2>1, <2>3
       DEF Settles, Coherent, Locked, Editing, Compiling, CompileLabel
  <2> QED BY <1>5, <2>2, <2>3 DEF Holds
<1>8. \A h \in Goroutine : h # g => Settles(h)
  <2> SUFFICES ASSUME NEW h \in Goroutine, h # g PROVE Settles(h)
    OBVIOUS
  <2>1. Heading(h)' = Heading(h) /\ mem'[h] = mem[h]
    BY <1>5 DEF Moves
  <2>2. h \in Compiling => mem[h].key \in inFlight'
    BY <1>2 DEF Coherent, Locked
  <2>3. tmp' = tmp \/ Heading(h) # "rename" \/ overlapped
    BY <1>5 DEF Coherent, Alone, Compiling, CompileLabel
  <2> QED BY <1>2, <2>1, <2>2, <2>3, StaySettles
<1> QED BY <1>2, <1>6, <1>7, <1>8, QuietKeeps


\* an edit of the plan,
LEMMA AlterKeeps ==
    ASSUME Coherent, NEW g \in Goroutine, Alter(g)
    PROVE  Coherent'
<1> USE DEF files, bounds
<1>1. /\ UNCHANGED <<files, inFlight, shown, run, overlapped, compiles, crashes>>
      /\ edits' = edits + 1 /\ g = Listener /\ edits < MaxEdits
  BY DEF Alter, Heading, Coherent, Editing
<1>2. edits + 1 \in 0..MaxEdits /\ edits + 2 \in 0..MaxEdits + 1
  BY <1>1, CompileBounds DEF Coherent, TypeOK, CompileBounds
<1>3. PICK plan \in Plan : WritePlan(g, plan, "idle", mem[g])
  <2>1. /\ [mem[g].plan EXCEPT !.text = edits + 2] \in Plan
        /\ [mem[g].plan EXCEPT !.draft = FALSE] \in Plan
    BY <1>2, HeldMemory DEF Plan
  <2> QED BY <2>1 DEF Alter
<1>4. Moves(g, "idle") /\ Holds(g, "idle", mem[g])
  BY <1>3, HeldMemory, WriteMoves DEF Label
<1>5. TypeOK' /\ NeverOlder'
  BY <1>1, <1>2, <1>4 DEF Coherent, TypeOK, NeverOlder, Moves
<1>6. Settles(g)
  <2>1. Heading(g)' = "idle" /\ mem'[g].click \in {mem[g].click, NoClick}
    BY <1>4 DEF Moves, Holds, Blank
  <2> QED BY <2>1 DEF Settles, CompileLabel
<1>7. \A h \in Goroutine : h # g => Settles(h)
  BY <1>1, <1>4, StaySettles DEF Moves, Coherent, Locked
<1> QED BY <1>1, <1>5, <1>6, <1>7, QuietKeeps

-------------------------------------------------------------------------------
(* The steps of a compile that take the slot, change the sidecar or show it. *)

\* Entering the compile: the slot was free, so nobody is compiling under this ID.
LEMMA AcquireKeeps ==
    ASSUME Coherent, NEW g \in Goroutine, Acquire(g)
    PROVE  Coherent'
<1> USE DEF files, bounds, Label, CompileLabel
<1>1. CASE Goto(g, "idle", mem[g]) /\ UNCHANGED <<inFlight, overlapped>>
  BY <1>1, GotoKeeps DEF Acquire
<1>2. CASE /\ mem[g].key \notin inFlight /\ inFlight' = inFlight \cup {mem[g].key}
           /\ overlapped' = (overlapped \/ Compiling # {})
           /\ Goto(g, "prior", mem[g])
  <2>1. UNCHANGED <<files, shown, run, bounds>> /\ Heading(g) = "acquire"
    BY DEF Acquire, Heading
  <2>2. Moves(g, "prior") /\ mem' = mem
    BY <1>2, HeldMemory, GotoMoves DEF Coherent, Goto, TypeOK
  <2>3. mem[g].key \in ID /\ \A h \in Compiling : mem[h].key # mem[g].key
    BY <1>2, HeldMemory DEF Coherent, Locked, Memory
  <2>4. TypeOK'
    BY <1>2, <2>1, <2>2, <2>3 DEF Coherent, TypeOK, Moves
  <2>5. Editing' /\ NeverOlder'
    BY <1>2, <2>1, <2>2 DEF Coherent, Editing, NeverOlder, Moves
  <2>6. Locked'
    BY <1>2, <2>2, <2>3 DEF Coherent, Locked, Moves, Compiling
  <2>7. ASSUME ~overlapped' PROVE Alone' /\ Newest'
    <3>1. Newest /\ Compiling = {}
      BY <1>2, <2>7 DEF Coherent
    <3>2. \A h \in Goroutine : h # g => Heading(h)' \notin CompileLabel
      BY <2>2, <3>1 DEF Moves, Compiling
    <3>3. Alone'
      BY <3>2 DEF Alone, Compiling
    <3>4. Heading(g)' = "prior"
      BY <2>2 DEF Moves
    <3> QED BY <2>1, <2>2, <3>1, <3>2, <3>3, <3>4 DEF Newest
  <2> QED BY <2>4, <2>5, <2>6, <2>7 DEF Coherent
<1> QED BY <1>1, <1>2 DEF Acquire

\* Every clause but those about the sidecar and the previews, for a step of one
\* compile that leaves its slot and the edits alone.
LEMMA CompileStep ==
    ASSUME Coherent, NEW g \in Goroutine, NEW next \in Label, Moves(g, next), TypeOK',
           UNCHANGED <<inFlight, run, overlapped, edits>>,
           g \in Compiling, next \in CompileLabel, mem'[g].key = mem[g].key
    PROVE  /\ Locked' /\ Editing' /\ NeverOlder' /\ (~overlapped' => Alone' /\ Newest)
           /\ (Newest' \/ overlapped => Coherent')
           /\ ~overlapped => \A h \in Goroutine : h # g => Heading(h)' \notin CompileLabel
<1> USE DEF CompileLabel
<1>1. Heading(g)' = next
  BY DEF Moves
<1>2. Compiling' = Compiling
  BY <1>1 DEF Moves, Compiling
<1>3. Locked'
  <2>1. \A h \in Goroutine : mem'[h].key = mem[h].key
    BY DEF Moves
  <2>2. Locked /\ Compiling \subseteq Goroutine
    BY DEF Coherent, Compiling
  <2> QED BY <1>2, <2>1, <2>2 DEF Locked
<1>4. Editing' /\ NeverOlder'
  BY <1>1 DEF Moves, Coherent, Editing, NeverOlder
<1>5. ~overlapped' => Alone' /\ Newest
  BY <1>2 DEF Coherent, Alone
<1>6. ~overlapped => \A h \in Goroutine : h # g => Heading(h)' \notin CompileLabel
  BY DEF Moves, Compiling, Coherent, Alone
<1> QED BY <1>3, <1>4, <1>5, <1>6 DEF Coherent

\* A plan arrives: its number is above everything there is.
LEMMA ConsultKeeps ==
    ASSUME Coherent, NEW g \in Goroutine, Consult(g) \/ Retry(g)
    PROVE  Coherent'
<1> USE DEF files, bounds, Label
<1>0. /\ UNCHANGED <<files, inFlight, shown, run, overlapped, edits, crashes>>
      /\ g \in Compiling
  BY DEF Consult, Retry, Heading, Compiling, CompileLabel
<1>1. CASE \E next \in {"retry", "release"} : Goto(g, next, mem[g]) /\ UNCHANGED compiles
  BY <1>0, <1>1, GotoKeeps
<1>2. CASE ConsultCompilePlan(g)
  <2> DEFINE m == [mem[g] EXCEPT !.comp = compiles + 1]
  <2>1. /\ compiles \in Nat /\ compiles < MaxCompiles /\ compiles' = compiles + 1
        /\ Goto(g, "embed", m)
    BY <1>2, CompileBounds DEF ConsultCompilePlan, Coherent, TypeOK, CompileBounds
  <2>2. compiles + 1 \in Compiled /\ compiles + 1 \in 0..MaxCompiles
    BY <2>1, CompileBounds DEF Compiled, CompileBounds
  <2>3. /\ m \in Memory /\ m.comp = compiles + 1 /\ m.key = mem[g].key
        /\ m.click = mem[g].click
    BY <2>2, HeldMemory DEF Memory
  <2> HIDE DEF m
  <2>4. Moves(g, "embed") /\ mem'[g] = m
    BY <2>1, <2>3, GotoMoves DEF Coherent
  <2>5. TypeOK'
    BY <1>0, <2>1, <2>2, <2>4 DEF Coherent, TypeOK, Moves
  <2>6. ASSUME ~overlapped PROVE Newest'
    <3>1. Newest /\ \A h \in Goroutine : h # g => Heading(h)' \notin CompileLabel
      BY <1>0, <2>3, <2>4, <2>5, <2>6, CompileStep DEF CompileLabel
    <3>2. \A h \in Goroutine : mem'[h].click = mem[h].click
      BY <2>3, <2>4 DEF Moves
    <3>3. side.comp <= compiles /\ side.comp <= compiles + 1
      BY <2>1, <3>1, SideNumbered DEF Newest, Coherent
    <3>4. Heading(g)' = "embed" /\ mem'[g].comp = compiles + 1
      BY <2>3, <2>4 DEF Moves
    <3>5. compiles + 1 <= compiles'
      BY <2>1
    <3> QED BY <1>0, <2>1, <3>1, <3>2, <3>3, <3>4, <3>5 DEF Newest, CompileLabel
  <2> QED BY <1>0, <2>3, <2>4, <2>5, <2>6, CompileStep DEF CompileLabel
<1> QED BY <1>1, <1>2 DEF Consult, Retry, NoPlan

\* The save: what goes into the .tmp file is this compile's, or nothing does.
LEMMA WriteTmpKeeps ==
    ASSUME Coherent, NEW g \in Goroutine, WriteTmp(g)
    PROVE  Coherent'
<1> USE DEF files, bounds, Label
<1>0. /\ UNCHANGED <<md, side, inFlight, shown, run, overlapped, bounds>>
      /\ Heading(g) = "tmp" /\ g \in Compiling
  BY DEF WriteTmp, Heading, Compiling, CompileLabel
<1>1. CASE tmp' \in {tmp, Absent} /\ Goto(g, "release", mem[g])
  <2>1. Moves(g, "release") /\ Holds(g, "release", mem[g])
    BY <1>1, HeldMemory, GotoMoves
  <2>2. /\ tmp' \in Sidecar /\ md' \in Plan \cup {Empty} /\ NeverOlder'
        /\ run' \in [clicked : Compiled, started : Compiled]
    BY <1>0, <1>1, BlankType DEF Coherent, TypeOK, NeverOlder
  <2> QED BY <1>0, <2>1, <2>2, StepKeeps DEF CompileLabel
<1>2. CASE /\ tmp' = [gen |-> mem[g].embed, comp |-> mem[g].comp]
           /\ WritePlan(g, Bumped(mem[g].plan), "rename", [mem[g] EXCEPT !.embed = 0])
  <2> DEFINE plan == Bumped(mem[g].plan)
             m    == [mem[g] EXCEPT !.embed = 0]
  <2>1. plan \in Plan
    BY HeldMemory DEF Bumped, Plan
  <2>2. m \in Memory /\ m.key = mem[g].key /\ m.comp = mem[g].comp /\ m.click = mem[g].click
    BY HeldMemory DEF Memory
  <2>3. WritePlan(g, plan, "rename", m)
    BY <1>2
  <2> HIDE DEF plan, m
  <2>4. Moves(g, "rename") /\ Holds(g, "rename", m)
    BY <2>1, <2>2, <2>3, HeldMemory, WriteMoves
  <2>5. tmp' \in Sidecar /\ tmp'.comp = mem[g].comp
    BY <1>2, HeldMemory DEF Memory, Sidecar
  <2>6. TypeOK'
    BY <1>0, <2>4, <2>5 DEF Coherent, TypeOK, Moves
  <2>7. /\ mem'[g].key = mem[g].key /\ mem'[g].comp = mem[g].comp
        /\ mem'[g].click = mem[g].click /\ Heading(g)' = "rename"
    BY <2>2, <2>4 DEF Holds, Moves
  <2>8. ASSUME ~overlapped PROVE Newest'
    <3>1. Newest /\ \A h \in Goroutine : h # g => Heading(h)' \notin CompileLabel
      BY <1>0, <2>4, <2>6, <2>7, <2>8, CompileStep DEF CompileLabel
    <3>2. \A h \in Goroutine : mem'[h].click = mem[h].click
      BY <2>4, <2>7 DEF Moves
    <3> QED BY <1>0, <2>5, <2>7, <3>1, <3>2 DEF Newest, CompileLabel
  <2> QED BY <1>0, <2>4, <2>6, <2>7, <2>8, CompileStep DEF CompileLabel
<1> QED BY <1>1, <1>2 DEF WriteTmp

\* the rename that puts the sidecar in place,
LEMMA RenameKeeps ==
    ASSUME Coherent, NEW g \in Goroutine, Rename(g)
    PROVE  Coherent'
<1> USE DEF files, bounds, Label
<1>0. /\ UNCHANGED <<md, inFlight, shown, run, overlapped, bounds>>
      /\ side' = tmp /\ tmp' = Absent /\ Goto(g, "show", mem[g])
      /\ Heading(g) = "rename" /\ g \in Compiling
  BY DEF Rename, Heading, Compiling, CompileLabel
<1>1. Moves(g, "show") /\ mem' = mem
  BY <1>0, HeldMemory, GotoMoves DEF Coherent, Goto, TypeOK
<1>2. TypeOK'
  BY <1>0, <1>1, BlankType DEF Coherent, TypeOK, Moves
<1>3. ASSUME ~overlapped PROVE Newest'
  <2>1. Newest /\ \A h \in Goroutine : h # g => Heading(h)' \notin CompileLabel
    BY <1>0, <1>1, <1>2, <1>3, CompileStep DEF CompileLabel
  <2>2. /\ tmp.comp = mem[g].comp /\ side.comp <= tmp.comp /\ tmp.comp <= compiles
        /\ side.comp \in Nat /\ tmp.comp \in Nat
    BY <1>0, <2>1, Ranges DEF Coherent, Newest, TypeOK, Sidecar
  <2>3. \A n \in Compiled : n <= side.comp => n <= tmp.comp
    BY <2>2, Ranges
  <2>4. \A v \in shown : v.comp <= tmp.comp
    <3>1. \A v \in shown : v.comp \in Compiled
      BY DEF Coherent, TypeOK, Preview
    <3> QED BY <2>1, <2>3, <3>1 DEF Newest
  <2>5. \A h \in Goroutine : mem[h].click.comp <= tmp.comp
    <3>1. \A h \in Goroutine : mem[h].click.comp \in Compiled
      BY DEF Coherent, TypeOK, Memory, Preview
    <3> QED BY <2>1, <2>3, <3>1 DEF Newest
  <2>6. Heading(g)' = "show"
    BY <1>1 DEF Moves
  <2> QED BY <1>0, <1>1, <2>1, <2>2, <2>4, <2>5, <2>6 DEF Newest, CompileLabel
<1> QED BY <1>0, <1>1, <1>2, <1>3, CompileStep DEF CompileLabel

\* showing the preview,
LEMMA ShowKeeps ==
    ASSUME Coherent, NEW g \in Goroutine, Show(g)
    PROVE  Coherent'
<1> USE DEF files, bounds, Label
<1> DEFINE v == [id |-> mem[g].key, gen |-> Bumped(mem[g].plan).gen, comp |-> mem[g].comp]
<1>0. /\ UNCHANGED <<files, inFlight, run, overlapped, bounds>> /\ shown' = shown \cup {v}
      /\ Goto(g, "release", mem[g]) /\ Heading(g) = "show" /\ g \in Compiling
  BY DEF Show, Heading, Compiling, CompileLabel
<1>1. v \in Preview /\ v.comp = mem[g].comp
  <2>1. Bumped(mem[g].plan).gen \in Nat
    BY HeldMemory DEF Bumped, Plan
  <2> QED BY <2>1, HeldMemory DEF Preview, Memory
<1> HIDE DEF v
<1>2. Moves(g, "release") /\ mem' = mem
  BY <1>0, HeldMemory, GotoMoves DEF Coherent, Goto, TypeOK
<1>3. TypeOK'
  BY <1>0, <1>1, <1>2 DEF Coherent, TypeOK, Moves
<1>4. ASSUME ~overlapped PROVE Newest'
  <2>1. Newest /\ \A h \in Goroutine : h # g => Heading(h)' \notin CompileLabel
    BY <1>0, <1>2, <1>3, <1>4, CompileStep DEF CompileLabel
  <2>2. v.comp <= side.comp
    BY <1>0, <1>1, <2>1, SideNumbered DEF Newest, Coherent
  <2>3. Heading(g)' = "release"
    BY <1>2 DEF Moves
  <2> QED BY <1>0, <1>2, <2>1, <2>2, <2>3 DEF Newest, CompileLabel
<1> QED BY <1>0, <1>2, <1>3, <1>4, CompileStep DEF CompileLabel

\* giving the compile slot back, which nobody else compiles under,
LEMMA ReleaseKeeps ==
    ASSUME Coherent, NEW g \in Goroutine, Release(g)
    PROVE  Coherent'
<1> USE DEF files, bounds, Label
<1>0. /\ UNCHANGED <<files, shown, run, overlapped, bounds>>
      /\ inFlight' = inFlight \ {mem[g].key} /\ Goto(g, "idle", mem[g])
      /\ g \in Compiling
  BY DEF Release, Heading, Compiling, CompileLabel
<1>1. Moves(g, "idle") /\ Holds(g, "idle", mem[g])
  BY <1>0, HeldMemory, GotoMoves
<1>2. TypeOK' /\ NeverOlder'
  BY <1>0, <1>1 DEF Coherent, TypeOK, Moves, NeverOlder
<1>3. Settles(g)
  <2>1. Heading(g)' = "idle" /\ mem'[g].click \in {mem[g].click, NoClick}
    BY <1>1 DEF Moves, Holds, Blank
  <2> QED BY <2>1 DEF Settles, CompileLabel
<1>4. \A h \in Goroutine : h # g => Settles(h)
  <2> SUFFICES ASSUME NEW h \in Goroutine, h # g PROVE Settles(h)
    OBVIOUS
  <2>1. h \in Compiling => mem[h].key \in inFlight'
    BY <1>0 DEF Coherent, Locked
  <2> QED BY <1>0, <1>1, <2>1, StaySettles DEF Moves
<1> QED BY <1>0, <1>2, <1>3, <1>4, QuietKeeps

-------------------------------------------------------------------------------
(* The click's last step, and the crash.                                    *)

\* reading the sidecar to start the run, which is not older than what was seen,
LEMMA ReadSidecarKeeps ==
    ASSUME Coherent, NEW g \in Goroutine, ReadSidecar(g)
    PROVE  Coherent'
<1> USE DEF files, bounds, Label
<1>0. UNCHANGED <<files, inFlight, shown, overlapped, bounds>> /\ pc[g] = "sidecar"
  BY DEF ReadSidecar
<1>1. CASE Goto(g, "idle", mem[g]) /\ UNCHANGED run
  BY <1>0, <1>1, GotoKeeps DEF CompileLabel
<1>2. CASE /\ run' = [clicked |-> mem[g].click.comp, started |-> side.comp]
           /\ Goto(g, "idle", mem[g])
  <2>1. Moves(g, "idle") /\ Holds(g, "idle", mem[g])
    BY <1>2, HeldMemory, GotoMoves
  <2>2. run' \in [clicked : Compiled, started : Compiled]
    BY <1>2, HeldMemory DEF Coherent, TypeOK, Sidecar, Memory, Preview
  <2>3. NeverOlder'
    <3>1. CASE overlapped
      BY <1>0, <3>1 DEF NeverOlder
    <3>2. CASE ~overlapped
      <4>1. mem[g].click.comp <= side.comp
        BY <3>2 DEF Coherent, Newest
      <4>2. mem[g].click.comp \in Nat /\ side.comp \in Nat
        BY HeldMemory, Ranges DEF Memory, Preview, Coherent, TypeOK, Sidecar
      <4> QED BY <1>2, <4>1, <4>2 DEF NeverOlder
    <3> QED BY <3>1, <3>2
  <2>4. md' \in Plan \cup {Empty} /\ tmp' \in Sidecar
    BY <1>0 DEF Coherent, TypeOK
  <2> QED BY <1>0, <2>1, <2>2, <2>3, <2>4, StepKeeps DEF CompileLabel
<1>3. CASE \E r \in Reviser, source \in {"draft", "inline"} :
              /\ pc[r] = "idle" /\ pc' = [pc EXCEPT ![g] = "idle", ![r] = "list"]
              /\ mem' = [mem EXCEPT ![g] = Blank, ![r] = [Blank EXCEPT !.use = source]]
              /\ UNCHANGED run
  <2>1. PICK r \in Reviser, source \in {"draft", "inline"} :
              /\ pc[r] = "idle" /\ pc' = [pc EXCEPT ![g] = "idle", ![r] = "list"]
              /\ mem' = [mem EXCEPT ![g] = Blank, ![r] = [Blank EXCEPT !.use = source]]
              /\ UNCHANGED run
    BY <1>3
  <2> DEFINE m == [Blank EXCEPT !.use = source]
  <2>2. r \in Goroutine /\ r # g
    BY <1>0, <2>1 DEF Goroutine
  <2>3. m \in Memory /\ m.use = source /\ m.click = NoClick
    BY BlankType DEF Blank, Memory, Use
  <2>4. mem' = [mem EXCEPT ![g] = Blank, ![r] = m]
    BY <2>1
  <2> HIDE DEF m
  <2>5. /\ pc' \in [Goroutine -> PC] /\ mem' \in [Goroutine -> Memory]
        /\ pc'[g] = "idle" /\ pc'[r] = "list" /\ mem'[g] = Blank /\ mem'[r] = m
        /\ \A h \in Goroutine \ {g, r} : pc'[h] = pc[h] /\ mem'[h] = mem[h]
    BY <2>1, <2>2, <2>3, <2>4, BlankType DEF Coherent, TypeOK, PC
  <2>6. TypeOK' /\ NeverOlder'
    BY <1>0, <2>1, <2>5 DEF Coherent, TypeOK, NeverOlder
  <2>7. Settles(g) /\ Settles(r)
    <3>1. source # "edit" /\ Blank.click = NoClick
      BY DEF Blank
    <3> QED BY <2>3, <2>5, <3>1 DEF Settles, Heading, CompileLabel
  <2>8. \A h \in Goroutine \ {g, r} : Settles(h)
    <3> SUFFICES ASSUME NEW h \in Goroutine \ {g, r} PROVE Settles(h)
      OBVIOUS
    <3>1. Heading(h)' = Heading(h) /\ mem'[h] = mem[h]
      BY <2>5 DEF Heading
    <3>2. h \in Compiling => mem[h].key \in inFlight'
      BY <1>0 DEF Coherent, Locked
    <3> QED BY <1>0, <3>1, <3>2, StaySettles
  <2> QED BY <1>0, <2>6, <2>7, <2>8, QuietKeeps
<1> QED BY <1>1, <1>2, <1>3 DEF ReadSidecar

\* and a crash.
LEMMA CrashKeeps ==
    ASSUME Coherent, Crash
    PROVE  Coherent'
<1> USE DEF files, bounds
<1>0. /\ UNCHANGED <<files, shown, overlapped, compiles, edits>> /\ inFlight' = {}
      /\ run' = NoRun
      /\ \A h \in Goroutine : pc'[h] = "idle" /\ mem'[h] = Blank
  BY DEF Crash
<1>1. TypeOK'
  BY <1>0, BlankType, CompileBounds DEF Crash, Coherent, TypeOK, PC, Label, CompileBounds
<1>2. NeverOlder'
  BY <1>0 DEF NeverOlder, NoRun
<1>3. \A h \in Goroutine : Settles(h)
  <2>1. Blank.click = NoClick
    BY DEF Blank
  <2> QED BY <1>0, <2>1 DEF Settles, Heading, CompileLabel
<1> QED BY <1>0, <1>1, <1>2, <1>3, QuietKeeps

-------------------------------------------------------------------------------
(* The theorems.                                                            *)

\* The invariant holds before the first compile.
LEMMA InitCoherent == Init => Coherent
<1> SUFFICES ASSUME Init PROVE Coherent
  OBVIOUS
<1>0. /\ md = NewPlan /\ side = Absent /\ shown = {} /\ compiles = 0 /\ run = NoRun
      /\ \A g \in Goroutine : Heading(g) = "idle" /\ mem[g] = Blank
  BY DEF Init, Heading
<1>1. TypeOK
  <2>1. pc \in [Goroutine -> PC] /\ mem \in [Goroutine -> Memory]
    BY BlankType DEF Init, PC, Label
  <2>2. compiles \in 0..MaxCompiles /\ edits \in 0..MaxEdits /\ crashes \in 0..MaxCrashes
    BY CompileBounds DEF Init, CompileBounds
  <2> QED BY <2>1, <2>2, BlankType DEF Init, TypeOK
<1>2. Locked /\ Editing /\ Alone
  BY <1>0 DEF Locked, Editing, Alone, Compiling, CompileLabel
<1>3. Newest /\ NeverOlder
  BY <1>0 DEF Newest, NeverOlder, NoRun, Absent, Blank, NoClick
<1> QED BY <1>1, <1>2, <1>3 DEF Coherent

\* Every step keeps the invariant.
LEMMA NextCoherent == Coherent /\ [Next]_vars => Coherent'
<1> SUFFICES ASSUME Coherent, [Next]_vars PROVE Coherent'
  OBVIOUS
<1>1. CASE \E g \in Goroutine : Step(g)
  <2>1. PICK g \in Goroutine : Step(g)
    BY <1>1
  <2>2. CASE Compile(g)
    BY <2>2, CompileLoadKeeps, AcquireKeeps, ConsultKeeps, WriteTmpKeeps, RenameKeeps,
       FailureKeeps, ShowKeeps, ReleaseKeeps DEF Compile
  <2>3. CASE ~Compile(g)
    BY <2>1, <2>3, TruncateKeeps, WrittenKeeps, FailureKeeps, FindKeeps, AlterKeeps,
       CompileLoadKeeps, ReadSidecarKeeps DEF Step
  <2> QED BY <2>2, <2>3
<1>2. CASE Look \/ RequestEdit \/ RequestCompile \/ Click
  BY <1>2, MessageKeeps
<1>3. CASE Crash
  BY <1>3, CrashKeeps
<1>4. CASE UNCHANGED vars
  <2> USE DEF vars, files, bounds
  <2>1. Compiling' = Compiling /\ \A g \in Goroutine : Heading(g)' = Heading(g)
    BY <1>4 DEF Compiling, Heading
  <2> QED BY <1>4, <2>1 DEF Coherent, TypeOK, Locked, Editing, Alone, Newest, NeverOlder
<1> QED BY <1>1, <1>2, <1>3, <1>4 DEF Next

\* The inductive invariant holds in every reachable state.
THEOREM AlwaysCoherent == Spec => []Coherent
BY InitCoherent, NextCoherent, PTL DEF Spec

\* Every variable of the compiler and the plan store keeps its type.
THEOREM TypeCorrect == Spec => []TypeOK
<1>1. Coherent => TypeOK
  BY DEF Coherent
<1> QED BY <1>1, AlwaysCoherent, PTL

\* However many messages and clicks compile at once, whatever IDs their reads of
\* the file give the plan, and wherever the process crashes: no two goroutines are
\* between a compile's start and the end of its broadcast under one plan ID.
THEOREM OneCompilePerID == Spec => []OneCompile
<1>1. Coherent => OneCompile
  BY DEF Coherent, Locked, OneCompile
<1> QED BY <1>1, AlwaysCoherent, PTL

\* For any number of compiles, edits, failed writes and crashes: as long as no
\* read of a truncated file has let two compiles run at once, an Approve never
\* starts a compiled plan older than the one whose preview was clicked.
THEOREM StartsNeverOlder == Spec => []NeverOlder
<1>1. Coherent => NeverOlder
  BY DEF Coherent
<1> QED BY <1>1, AlwaysCoherent, PTL

-------------------------------------------------------------------------------
(* The log of a run: what replays, and what a write leaves.                 *)

\* TypeOK without the bound of the instance.
LogTyped ==
    /\ file \in Seq(Log!Line)
    /\ ended \in BOOLEAN
    /\ proc \in Log!Process
    /\ written \in Seq(Log!Event)
    /\ acked \in SUBSET (1..Len(written))

LogIntact == LogTyped /\ Log!LinesInOrder /\ Log!SoundDecodes /\ Log!SoundEndIsLast

\* The events of the first lines.
LEMMA EventsOfLines ==
    ASSUME file \in Seq(Log!Line), NEW k \in 0..Len(file)
    PROVE  /\ Log!EventsBefore(k + 1) = [i \in 1..k |-> file[i].event]
           /\ Log!EventsBefore(k + 1) \in Seq(Log!Event)
           /\ Len(Log!EventsBefore(k + 1)) = k
<1>1. k \in Nat /\ (k + 1) - 1 = k
  OBVIOUS
<1>2. \A i \in 1..k : file[i] \in Log!Line
  BY ElementOfSeq, LenProperties
<1>3. Log!EventsBefore(k + 1) = [i \in 1..k |-> file[i].event]
  BY <1>1 DEF Log!EventsBefore
<1>4. Log!EventsBefore(k + 1) \in [1..k -> Log!Event]
  BY <1>2, <1>3 DEF Log!Line
<1>5. Log!EventsBefore(k + 1) \in Seq(Log!Event)
  BY <1>1, <1>4, SeqDef
<1>6. 1..Len(Log!EventsBefore(k + 1)) = 1..k /\ Len(Log!EventsBefore(k + 1)) \in Nat
  BY <1>4, <1>5, LenProperties
<1> QED BY <1>1, <1>3, <1>5, <1>6

\* What replays are the events of the lines before the first that does not
\* decode.
LEMMA ReplayedLines ==
    ASSUME file \in Seq(Log!Line)
    PROVE  \E k \in 0..Len(file) :
              /\ Log!Replayed = [i \in 1..k |-> file[i].event]
              /\ Log!Replayed \in Seq(Log!Event) /\ Len(Log!Replayed) = k
              /\ Log!Decodes(k)
              /\ k < Len(file) => ~Log!Decodes(k + 1)
<1>0. /\ Len(file) \in Nat /\ DOMAIN file = 1..Len(file)
      /\ \A i \in 1..Len(file) : file[i].text \in {"json", "garbage"}
  <2>1. Len(file) \in Nat /\ DOMAIN file = 1..Len(file)
    BY LenProperties
  <2>2. \A i \in 1..Len(file) : file[i] \in Log!Line
    BY ElementOfSeq
  <2> QED BY <2>1, <2>2 DEF Log!Line
<1>1. CASE Log!Garbage = {}
  <2>1. Log!Decodes(Len(file))
    BY <1>0, <1>1 DEF Log!Garbage, Log!Decodes
  <2>2. Log!Replayed = Log!EventsBefore(Len(file) + 1) /\ Len(file) \in 0..Len(file)
    BY <1>0, <1>1 DEF Log!Replayed
  <2> DEFINE k == Len(file)
  <2>3. k \in 0..Len(file) /\ Log!Replayed = Log!EventsBefore(k + 1) /\ Log!Decodes(k)
    BY <2>1, <2>2
  <2>4. ~ (k < Len(file))
    BY <1>0
  <2> HIDE DEF k
  <2> QED BY <2>3, <2>4, EventsOfLines
<1>2. CASE Log!Garbage # {}
  <2>1. Log!Garbage \in SUBSET Nat
    BY <1>0 DEF Log!Garbage
  <2>2. \E i \in Log!Garbage : \A j \in Log!Garbage : i <= j
    <3>1. PICK i \in Log!Garbage : \A j \in Log!Garbage : ~ (<<j, i>> \in OpToRel(<, Nat))
      BY <1>2, <2>1, WFMin, NatLessThanWellFounded
    <3>2. \A j \in Log!Garbage : ~ (j < i)
      BY <2>1, <3>1 DEF OpToRel
    <3> QED BY <2>1, <3>2
  <2>3. Log!FirstGarbage \in Log!Garbage /\ \A j \in Log!Garbage : Log!FirstGarbage <= j
    BY <2>2 DEF Log!FirstGarbage
  <2>4. /\ Log!FirstGarbage \in 1..Len(file) /\ file[Log!FirstGarbage].text = "garbage"
        /\ \A j \in 1..Len(file) : j < Log!FirstGarbage => file[j].text = "json"
    BY <1>0, <2>1, <2>3 DEF Log!Garbage
  <2> DEFINE k == Log!FirstGarbage - 1
  <2>5. k \in 0..Len(file) /\ k + 1 = Log!FirstGarbage
    BY <1>0, <2>4
  <2>6. Log!Decodes(k) /\ ~Log!Decodes(k + 1)
    BY <1>0, <2>4, <2>5 DEF Log!Decodes
  <2>7. Log!Replayed = Log!EventsBefore(k + 1)
    BY <1>2, <2>5 DEF Log!Replayed
  <2> HIDE DEF k
  <2> QED BY <2>5, <2>6, <2>7, EventsOfLines
<1> QED BY <1>1, <1>2

\* One append that reached the disk: its event is written, and it is a line of its own or spoils the
\* line it was added to.
LEMMA WriteLines ==
    ASSUME LogTyped, Log!LinesInOrder, NEW e \in Log!Event, NEW next, NEW failed, Log!WriteSome(e, next, failed)
    PROVE  /\ written' \in Seq(Log!Event) /\ Len(written') = Len(written) + 1
           /\ \A i \in 1..Len(written) : written'[i] = written[i]
           /\ written'[Len(written) + 1] = e
           /\ file' \in Seq(Log!Line) /\ ended' \in BOOLEAN
           /\ acked' = IF ended' THEN acked \cup {Len(written) + 1} ELSE acked
           /\ proc' \in IF ended' THEN {next} ELSE {failed, "crashed"}
           /\ ended => /\ Len(file') = Len(file) + 1
                       /\ \A i \in 1..Len(file) : file'[i] = file[i]
                       /\ file'[Len(file) + 1].event = e
                       /\ ended' => file'[Len(file) + 1].text = "json"
           /\ ~ended => /\ Len(file) \in 1..Len(file) /\ Len(file') = Len(file)
                        /\ \A i \in 1..Len(file) : i < Len(file) => file'[i] = file[i]
                        /\ file'[Len(file)].text = "garbage"
<1>0. Len(file) \in Nat /\ Len(written) \in Nat
  BY LenProperties DEF LogTyped
<1>1. PICK x \in Log!Extent :
         /\ file' = Log!FileAfter(e, x)
         /\ ended' = (x = "all")
         /\ proc' \in IF x = "all" THEN {next} ELSE {failed, "crashed"}
         /\ acked' = IF x = "all" THEN acked \cup {Len(written')} ELSE acked
  BY DEF Log!WriteSome
<1>2. /\ written' \in Seq(Log!Event) /\ Len(written') = Len(written) + 1
      /\ \A i \in 1..Len(written) : written'[i] = written[i]
      /\ written'[Len(written) + 1] = e
  BY AppendProperties DEF Log!WriteSome, LogTyped
<1>3. CASE ended
  <2> DEFINE line == [text |-> IF x = "part" THEN "garbage" ELSE "json", event |-> e]
  <2>1. /\ line \in Log!Line
        /\ line.event = e
        /\ x = "all" => line.text = "json"
    BY DEF Log!Line
  <2>2. file' = Append(file, line)
    BY <1>1, <1>3 DEF Log!FileAfter
  <2> HIDE DEF line
  <2>3. /\ file' \in Seq(Log!Line) /\ Len(file') = Len(file) + 1
        /\ \A i \in 1..Len(file) : file'[i] = file[i]
        /\ file'[Len(file) + 1] = line
    BY <2>1, <2>2, AppendProperties DEF LogTyped
  <2> QED BY <1>1, <1>2, <1>3, <2>1, <2>3
<1>4. CASE ~ended
  <2> DEFINE line == [file[Len(file)] EXCEPT !.text = "garbage"]
  <2>1. Len(file) \in 1..Len(file)
    BY <1>0, <1>4, EmptySeq DEF LogTyped, Log!LinesInOrder
  <2>2. line \in Log!Line /\ line.text = "garbage"
    <3>1. file[Len(file)] \in Log!Line
      BY <2>1, ElementOfSeq DEF LogTyped
    <3> QED BY <3>1 DEF Log!Line
  <2>3. file' = [file EXCEPT ![Len(file)] = line]
    BY <1>1, <1>4 DEF Log!FileAfter
  <2> HIDE DEF line
  <2>4. /\ file' \in Seq(Log!Line) /\ Len(file') = Len(file)
        /\ \A i \in 1..Len(file) : file'[i] = IF i = Len(file) THEN line ELSE file[i]
    BY <2>1, <2>2, <2>3, ExceptSeq DEF LogTyped
  <2>5. \A i \in 1..Len(file) : i < Len(file) => file'[i] = file[i]
    BY <1>0, <2>4
  <2>6. file'[Len(file)].text = "garbage"
    BY <2>1, <2>2, <2>4
  <2>7. ended' \in BOOLEAN /\ (acked' = IF ended' THEN acked \cup {Len(written) + 1} ELSE acked)
        /\ proc' \in IF ended' THEN {next} ELSE {failed, "crashed"}
    BY <1>1, <1>2
  <2> QED BY <1>2, <1>4, <2>1, <2>4, <2>5, <2>6, <2>7
<1> QED BY <1>3, <1>4 DEF LogTyped

-------------------------------------------------------------------------------
(* A write, and what a restart reads.                                       *)

\* When every event so far is acknowledged, each has its line, and the next line
\* is a new one.
LEMMA AllAcknowledged ==
    ASSUME LogIntact, 1..Len(written) \subseteq acked
    PROVE  Len(file) = Len(written) /\ Log!Decodes(Len(file)) /\ ended
<1>0. /\ Len(file) \in Nat /\ Len(written) \in Nat
      /\ Len(file) <= Len(written) /\ (~ended => file # <<>>)
  BY LenProperties DEF LogIntact, LogTyped, Log!LinesInOrder
<1>1. CASE Len(written) = 0
  <2>1. Len(file) = 0
    BY <1>0, <1>1
  <2>2. file = <<>>
    BY <2>1, EmptySeq DEF LogIntact, LogTyped
  <2> QED BY <1>0, <1>1, <2>1, <2>2 DEF Log!Decodes
<1>2. CASE Len(written) # 0
  <2>1. Len(written) \in Log!Sound
    BY <1>0, <1>2 DEF Log!Sound
  <2> QED BY <1>0, <2>1 DEF LogIntact, Log!SoundDecodes
<1> QED BY <1>1, <1>2

\* A write makes at most its own event sound, and that only if every event
\* before it is acknowledged.
LEMMA SoundAfterWrite ==
    ASSUME LogIntact, NEW e \in Log!Event, NEW next, NEW failed, Log!WriteSome(e, next, failed), NEW n \in Log!Sound'
    PROVE  \/ n \in Log!Sound
           \/ n = Len(written) + 1 /\ ended' /\ 1..Len(written) \subseteq acked
<1>1. /\ acked' = IF ended' THEN acked \cup {Len(written) + 1} ELSE acked
      /\ acked \in SUBSET (1..Len(written)) /\ Len(written) \in Nat
  BY WriteLines, LenProperties DEF LogIntact, LogTyped
<1>2. n \in acked' /\ 1..n \subseteq acked'
  BY DEF Log!Sound
<1>3. n \in 1..(Len(written) + 1)
  BY <1>1, <1>2
<1>4. CASE n \in 1..Len(written)
  <2>1. \A i \in 1..n : i \in acked' /\ i # Len(written) + 1
    BY <1>1, <1>2, <1>4
  <2>2. n \in 1..n
    BY <1>4
  <2> QED BY <1>1, <2>1, <2>2 DEF Log!Sound
<1>5. CASE n = Len(written) + 1
  <2>1. Len(written) + 1 \notin acked
    BY <1>1
  <2>2. \A i \in 1..Len(written) : i \in acked' /\ i # Len(written) + 1
    BY <1>1, <1>2, <1>5
  <2> QED BY <1>1, <1>2, <1>5, <2>1, <2>2
<1> QED BY <1>1, <1>3, <1>4, <1>5

\* A write keeps the log intact as long as no sound end is behind it.
LEMMA WriteKeepsIntact ==
    ASSUME LogIntact, NEW e \in Log!Event, NEW next \in Log!Process, NEW failed \in Log!Process,
           Log!WriteSome(e, next, failed),
           \A n \in Log!Sound : written[n] # "terminal",
           e = "terminal" => next = "over"
    PROVE  LogIntact'
<1> USE DEF LogIntact
<1>0. /\ Len(file) \in Nat /\ Len(written) \in Nat
      /\ DOMAIN file = 1..Len(file) /\ Len(file) <= Len(written)
      /\ acked \in SUBSET (1..Len(written))
  BY LenProperties DEF LogTyped, Log!LinesInOrder
<1>1. /\ written' \in Seq(Log!Event) /\ Len(written') = Len(written) + 1
      /\ \A i \in 1..Len(written) : written'[i] = written[i]
      /\ written'[Len(written) + 1] = e
      /\ file' \in Seq(Log!Line) /\ ended' \in BOOLEAN
      /\ acked' = IF ended' THEN acked \cup {Len(written) + 1} ELSE acked
      /\ proc' \in IF ended' THEN {next} ELSE {failed, "crashed"}
  BY WriteLines
<1>2. ended => /\ Len(file') = Len(file) + 1
               /\ \A i \in 1..Len(file) : file'[i] = file[i]
               /\ file'[Len(file) + 1].event = e
               /\ ended' => file'[Len(file) + 1].text = "json"
  BY WriteLines
<1>3. ~ended => /\ Len(file) \in 1..Len(file) /\ Len(file') = Len(file)
                /\ \A i \in 1..Len(file) : i < Len(file) => file'[i] = file[i]
                /\ file'[Len(file)].text = "garbage"
  BY WriteLines
<1>4. DOMAIN file' = 1..Len(file') /\ Len(file') \in Nat
  BY <1>1, LenProperties
<1>5. ended \in BOOLEAN
  BY DEF LogTyped
<1> DEFINE NowDecodes(n) == \A i \in 1..n : file'[i].text = "json"
<1>6. \A n \in 1..Len(file) : (ended \/ n < Len(file)) => (NowDecodes(n) <=> Log!Decodes(n))
  <2> TAKE n \in 1..Len(file)
  <2> HAVE ended \/ n < Len(file)
  <2>1. \A i \in 1..n : i \in 1..Len(file) /\ (ended \/ i < Len(file))
    BY <1>0
  <2>2. \A i \in 1..n : file'[i] = file[i]
    BY <1>2, <1>3, <2>1
  <2> QED BY <2>2 DEF Log!Decodes
<1>7. ended /\ NowDecodes(Len(file) + 1) => Log!Decodes(Len(file)) /\ Len(file) = Len(written)
  <2> SUFFICES ASSUME ended, NowDecodes(Len(file) + 1)
               PROVE  Log!Decodes(Len(file)) /\ Len(file) = Len(written)
    OBVIOUS
  <2>1. \A i \in 1..(Len(file) + 1) : file'[i].text = "json"
    OBVIOUS
  <2>2. \A i \in 1..Len(file) : file'[i] = file[i] /\ i \in 1..(Len(file) + 1)
    BY <1>0, <1>2
  <2>3. Log!Decodes(Len(file))
    BY <2>1, <2>2 DEF Log!Decodes
  <2> QED BY <2>3 DEF Log!LinesInOrder
<1>8. ~ended => ~ NowDecodes(Len(file))
  BY <1>3
<1>9. LogTyped'
  <2>1. acked' \in SUBSET (1..(Len(written) + 1))
    <3>1. \A i \in acked' : i \in acked \/ i = Len(written) + 1
      BY <1>1
    <3>2. \A i \in 1..Len(written) : i \in 1..(Len(written) + 1)
      BY <1>0
    <3>3. Len(written) + 1 \in 1..(Len(written) + 1)
      BY <1>0
    <3> QED BY <1>0, <3>1, <3>2, <3>3
  <2>2. proc' \in Log!Process
    BY <1>1 DEF Log!Process
  <2> QED BY <1>1, <2>1, <2>2 DEF LogTyped
<1>10. Log!LinesInOrder'
  <2>1. file' # <<>>
    BY <1>0, <1>1, <1>2, <1>3, <1>5, EmptySeq
  <2>2. Len(file') <= Len(written')
    BY <1>0, <1>1, <1>2, <1>3, <1>5
  <2>3. NowDecodes(Len(file')) => Len(file') = Len(written')
    BY <1>1, <1>2, <1>3, <1>5, <1>7, <1>8
  <2>4. \A n \in 1..Len(file') : NowDecodes(n) => file'[n].event = written'[n]
    <3> SUFFICES ASSUME NEW n \in 1..Len(file'), NowDecodes(n)
                 PROVE  file'[n].event = written'[n]
      OBVIOUS
    <3>1. CASE n \in 1..Len(file) /\ (ended \/ n < Len(file))
      <4>1. Log!Decodes(n)
        BY <1>6, <3>1
      <4>2. file[n].event = written[n]
        BY <1>0, <3>1, <4>1 DEF Log!LinesInOrder
      <4>3. file'[n] = file[n] /\ written'[n] = written[n]
        BY <1>0, <1>1, <1>2, <1>3, <1>5, <3>1
      <4> QED BY <4>2, <4>3
    <3>2. CASE ended /\ n = Len(file) + 1
      BY <1>1, <1>2, <1>7, <3>2
    <3>3. CASE ~ended /\ n = Len(file)
      BY <1>8, <3>3
    <3>4. \/ n \in 1..Len(file) /\ (ended \/ n < Len(file))
          \/ ended /\ n = Len(file) + 1
          \/ ~ended /\ n = Len(file)
      <4>1. n \in Nat /\ 1 <= n /\ n <= Len(file') /\ Len(file) \in Nat
        BY <1>0, <1>4
      <4>2. CASE ended
        BY <1>2, <4>1, <4>2
      <4>3. CASE ~ended
        BY <1>3, <4>1, <4>3
      <4> QED BY <4>2, <4>3
    <3> QED BY <3>1, <3>2, <3>3, <3>4
  <2>5. (Log!Decodes(Len(file)))' => Len(file') = Len(written')
    BY <2>3 DEF Log!Decodes
  <2>6. \A n \in DOMAIN file' : Log!Decodes(n)' => file'[n].event = written'[n]
    BY <1>4, <2>4 DEF Log!Decodes
  <2> QED BY <2>1, <2>2, <2>5, <2>6 DEF Log!LinesInOrder
<1>11. Log!SoundDecodes'
  <2> SUFFICES ASSUME NEW n \in Log!Sound'
               PROVE  n <= Len(file') /\ NowDecodes(n) /\ (n = Len(file') => ended')
    BY DEF Log!SoundDecodes, Log!Decodes
  <2>1. CASE n \in Log!Sound
    <3>1. n <= Len(file) /\ Log!Decodes(n) /\ (n = Len(file) => ended)
      BY <2>1 DEF Log!SoundDecodes
    <3>2. n \in 1..Len(file) /\ (ended \/ n < Len(file))
      <4>1. n \in 1..Len(written)
        BY <1>0, <2>1 DEF Log!Sound
      <4>2. n \in Nat /\ 1 <= n /\ Len(file) \in Nat
        BY <1>0, <4>1
      <4>3. n < Len(file) \/ n = Len(file)
        BY <3>1, <4>2
      <4> QED BY <3>1, <4>2, <4>3
    <3>3. NowDecodes(n)
      BY <1>6, <3>1, <3>2
    <3>4. n <= Len(file') /\ n # Len(file')
      <4>1. CASE ended
        BY <1>0, <1>2, <3>2, <4>1
      <4>2. CASE ~ended
        BY <1>0, <1>3, <3>2, <4>2
      <4> QED BY <4>1, <4>2
    <3> QED BY <3>3, <3>4
  <2>2. CASE n = Len(written) + 1 /\ ended' /\ 1..Len(written) \subseteq acked
    <3>1. Len(file) = Len(written) /\ Log!Decodes(Len(file)) /\ ended
      BY <2>2, AllAcknowledged
    <3>2. /\ Len(file') = n /\ file'[n].text = "json"
          /\ \A i \in 1..Len(file) : file'[i].text = "json"
      BY <1>2, <2>2, <3>1 DEF Log!Decodes
    <3>3. \A i \in 1..n : i \in 1..Len(file) \/ i = n
      BY <1>0, <2>2, <3>1
    <3>4. NowDecodes(n)
      BY <3>2, <3>3
    <3> QED BY <1>0, <2>2, <3>2, <3>4
  <2> QED BY <2>1, <2>2, SoundAfterWrite
<1>12. Log!SoundEndIsLast'
  <2> SUFFICES ASSUME NEW n \in Log!Sound', written'[n] = "terminal"
               PROVE  n = Len(written') /\ proc' \in {"over", "crashed", "skipped"}
    BY DEF Log!SoundEndIsLast
  <2>1. n \notin Log!Sound
    <3>1. n \in Log!Sound => n \in 1..Len(written)
      BY <1>0 DEF Log!Sound
    <3> QED BY <1>1, <3>1
  <2>2. n = Len(written) + 1 /\ ended'
    BY <2>1, SoundAfterWrite
  <2> QED BY <1>1, <2>2
<1> QED BY <1>9, <1>10, <1>11, <1>12

\* An append that fails before its first byte leaves the file as it was.
LEMMA FailureKeepsIntact ==
    ASSUME LogIntact, NEW failed \in Log!Process, Log!WriteNone(failed),
           \A n \in Log!Sound : written[n] # "terminal"
    PROVE  LogIntact'
<1>1. UNCHANGED <<file, ended, written, acked>> /\ proc' \in Log!Process
  BY DEF Log!WriteNone
<1>2. Log!SoundEndIsLast'
  BY <1>1 DEF Log!SoundEndIsLast, Log!Sound
<1> QED BY <1>1, <1>2 DEF LogIntact, LogTyped, Log!LinesInOrder, Log!SoundDecodes,
                          Log!Sound, Log!Decodes

\* A sound end is what a restart reads last.
LEMMA SoundEndReplays ==
    ASSUME LogIntact, NEW n \in Log!Sound, written[n] = "terminal"
    PROVE  Log!Replayed # <<>> /\ Log!Last(Log!Replayed) = "terminal"
<1>1. /\ n = Len(written) /\ n <= Len(file) /\ Log!Decodes(n)
      /\ Len(file) <= Len(written) /\ Len(file) \in Nat /\ Len(written) \in Nat
      /\ n \in 1..Len(written)
  BY LenProperties DEF LogIntact, LogTyped, Log!LinesInOrder, Log!SoundDecodes,
                       Log!SoundEndIsLast, Log!Sound
<1>2. Len(file) = n
  BY <1>1
<1>3. PICK k \in 0..Len(file) :
         /\ Log!Replayed = [i \in 1..k |-> file[i].event]
         /\ Log!Replayed \in Seq(Log!Event) /\ Len(Log!Replayed) = k
         /\ k < Len(file) => ~Log!Decodes(k + 1)
  BY ReplayedLines DEF LogIntact, LogTyped
<1>4. k < Len(file) => Log!Decodes(k + 1)
  <2>1. k < Len(file) => \A i \in 1..(k + 1) : i \in 1..n
    BY <1>1, <1>2
  <2> QED BY <1>1, <2>1 DEF Log!Decodes
<1>5. k = n
  BY <1>1, <1>2, <1>3, <1>4
<1>6. file[n].event = written[n]
  BY <1>1, <1>2, LenProperties DEF LogIntact, LogTyped, Log!LinesInOrder
<1> QED BY <1>1, <1>3, <1>5, <1>6, EmptySeq DEF Log!Last

-------------------------------------------------------------------------------
(* The invariant, and what it implies.                                      *)

\* Every step of a process, and every restart, keeps the log intact.
LEMMA StepKeepsIntact == LogIntact /\ [Log!Next]_Log!vars => LogIntact'
<1> SUFFICES ASSUME LogIntact, [Log!Next]_Log!vars PROVE LogIntact'
  OBVIOUS
<1>1. CASE Log!Drive
  <2>1. proc \in {"new", "driving", "parked"}
    BY <1>1 DEF Log!Drive
  <2>2. \A n \in Log!Sound : written[n] # "terminal"
    BY <2>1 DEF LogIntact, Log!SoundEndIsLast
  <2>3. \E e \in Log!Event, next \in Log!Process :
           \/ Log!WriteSome(e, next, next) /\ (e = "terminal" => next = "over")
           \/ Log!WriteNone(next)
    BY <1>1 DEF Log!Drive, Log!Logged, Log!Write, Log!Event, Log!Process
  <2> QED BY <2>2, <2>3, WriteKeepsIntact, FailureKeepsIntact
<1>2. CASE Log!Crash
  BY <1>2 DEF Log!Crash, LogIntact, LogTyped, Log!Process, Log!LinesInOrder,
              Log!SoundDecodes, Log!SoundEndIsLast,
              Log!Sound, Log!Decodes
<1>3. CASE Log!SkipLog
  BY <1>3 DEF Log!SkipLog, LogIntact, LogTyped, Log!Process, Log!LinesInOrder,
              Log!SoundDecodes, Log!SoundEndIsLast,
              Log!Sound, Log!Decodes
<1>4. CASE Log!LeaveOrResume
  <2>1. /\ UNCHANGED <<file, ended, written, acked>>
        /\ proc' = IF Log!Last(Log!Replayed) = "terminal" THEN "over" ELSE "parked"
    BY <1>4 DEF Log!LeaveOrResume
  <2>2. Log!SoundEndIsLast'
    <3> SUFFICES ASSUME NEW n \in Log!Sound, written[n] = "terminal"
                 PROVE  n = Len(written) /\ proc' = "over"
      BY <2>1 DEF Log!SoundEndIsLast, Log!Sound
    <3>1. n = Len(written)
      BY DEF LogIntact, Log!SoundEndIsLast
    <3>2. proc' = "over"
      BY <2>1, SoundEndReplays
    <3> QED BY <3>1, <3>2
  <2>3. LogTyped' /\ Log!LinesInOrder' /\ Log!SoundDecodes'
    BY <2>1 DEF LogIntact, LogTyped, Log!Process, Log!LinesInOrder, Log!SoundDecodes,
                Log!Sound, Log!Decodes
  <2> QED BY <2>2, <2>3 DEF LogIntact
<1>5. CASE Log!AbortDangling
  <2>1. Log!Last(Log!Replayed) # "terminal" /\ Log!Write("terminal", "over", "skipped")
    BY <1>5 DEF Log!AbortDangling
  <2>2. \A n \in Log!Sound : written[n] # "terminal"
    BY <2>1, SoundEndReplays
  <2>3. CASE Log!WriteSome("terminal", "over", "skipped")
    BY <2>2, <2>3, WriteKeepsIntact DEF Log!Event, Log!Process
  <2>4. CASE Log!WriteNone("skipped")
    BY <2>2, <2>4, FailureKeepsIntact DEF Log!Process
  <2> QED BY <2>1, <2>3, <2>4 DEF Log!Write
<1>6. CASE UNCHANGED Log!vars
  BY <1>6 DEF Log!vars, LogIntact, LogTyped, Log!LinesInOrder, Log!SoundDecodes,
              Log!SoundEndIsLast, Log!Sound, Log!Decodes
<1> QED BY <1>1, <1>2, <1>3, <1>4, <1>5, <1>6 DEF Log!Next

\* An intact log replays to a prefix of what was written, with every sound event.
LEMMA LogIntactReplays == LogIntact => Log!ReplayIsSound
<1> SUFFICES ASSUME LogIntact PROVE Log!ReplayIsSound
  OBVIOUS
<1>0. /\ Len(file) \in Nat /\ Len(written) \in Nat /\ DOMAIN file = 1..Len(file)
      /\ Len(file) <= Len(written) /\ written \in Seq(Log!Event)
  BY LenProperties DEF LogIntact, LogTyped, Log!LinesInOrder
<1>1. PICK k \in 0..Len(file) :
         /\ Log!Replayed = [i \in 1..k |-> file[i].event]
         /\ Log!Replayed \in Seq(Log!Event) /\ Len(Log!Replayed) = k
         /\ Log!Decodes(k)
         /\ k < Len(file) => ~Log!Decodes(k + 1)
  BY ReplayedLines DEF LogIntact, LogTyped
<1>2. \A i \in 1..k : Log!Replayed[i] = written[i]
  <2> TAKE i \in 1..k
  <2>1. Log!Decodes(i) /\ i \in 1..Len(file)
    BY <1>0, <1>1 DEF Log!Decodes
  <2> QED BY <1>0, <1>1, <2>1 DEF LogIntact, Log!LinesInOrder
<1>3. Log!IsPrefix(Log!Replayed, written)
  <2>1. k \in Nat /\ k <= Len(written)
    BY <1>0
  <2>2. /\ SubSeq(Log!Replayed, 1, k) = [i \in 1..k |-> Log!Replayed[i]]
        /\ SubSeq(written, 1, k) = [i \in 1..k |-> written[i]]
    BY <1>0, <1>1, <2>1
  <2> QED BY <1>1, <1>2, <2>1, <2>2 DEF Log!IsPrefix
<1>4. Log!Sound \subseteq 1..k
  <2> SUFFICES ASSUME NEW n \in Log!Sound PROVE n \in 1..k
    OBVIOUS
  <2>1. n \in 1..Len(written) /\ n <= Len(file) /\ Log!Decodes(n)
    BY DEF LogIntact, LogTyped, Log!Sound, Log!SoundDecodes
  <2>2. k < n => Log!Decodes(k + 1)
    <3>1. k < n => \A i \in 1..(k + 1) : i \in 1..n
      BY <1>0, <2>1
    <3> QED BY <2>1, <3>1 DEF Log!Decodes
  <2> QED BY <1>0, <1>1, <2>1, <2>2
<1>5. DOMAIN Log!Replayed = 1..k
  BY <1>1
<1> QED BY <1>3, <1>4, <1>5 DEF Log!ReplayIsSound

\* The file of a run is intact in every reachable state: up to the first line
\* that does not decode, the lines are the events that reached the disk, in order, and the lines
\* of sound events are never written into.
THEOREM AlwaysIntact == Log!Spec => []LogIntact
<1>1. Log!Init => LogIntact
  <2> SUFFICES ASSUME Log!Init PROVE LogIntact
    OBVIOUS
  <2>1. file = <<>> /\ ended = TRUE /\ proc = "new" /\ written = <<>> /\ acked = {}
    BY DEF Log!Init
  <2>2. LogTyped /\ Log!Sound = {} /\ Len(file) = 0 /\ Len(written) = 0 /\ DOMAIN file = {}
    BY <2>1 DEF LogTyped, Log!Process, Log!Sound
  <2> QED BY <2>1, <2>2 DEF LogIntact, Log!LinesInOrder, Log!SoundDecodes, Log!SoundEndIsLast
<1> QED BY <1>1, StepKeepsIntact, PTL DEF Log!Spec

\* What runs.Replay returns is always a prefix of the events that reached the disk
\* at all, with every one acknowledged before the first cut write, whatever the
\* Scanner's look-ahead, through any number of crashes, of writes cut short and
\* of appends that fail before their first byte.
THEOREM ReplayAlwaysSound == Log!Spec => []ReplayIsSound
<1>1. LogIntact => ReplayIsSound
  BY LogIntactReplays DEF ReplayIsSound
<1> QED BY <1>1, AlwaysIntact, PTL

\* A run whose end is sound is never driven or resumed again, through any number
\* of restarts: triage reads that end and leaves the run alone.
THEOREM SoundEndAlwaysFinal == Log!Spec => []SoundEndIsFinal
<1>1. LogIntact => SoundEndIsFinal
  BY DEF LogIntact, Log!SoundEndIsLast, Log!SoundEndIsFinal, SoundEndIsFinal
<1> QED BY <1>1, AlwaysIntact, PTL
===============================================================================
