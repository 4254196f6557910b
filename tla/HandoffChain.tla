----------------------------- MODULE HandoffChain -----------------------------
(***************************************************************************)
(* What Execute mode promises of one run: a handoff chain (docs/            *)
(* architecture/modes.md, README "Execute").  Steps are done one at a time  *)
(* in dependency order; a step with a gate stops the chain until the user   *)
(* answers; a failure stops it too; an ended run never moves again.         *)
(* There is no log, no channel and no crash here, only what a reader of the *)
(* run's history may see happen.                                            *)
(***************************************************************************)
EXTENDS Naturals

CONSTANTS Step, Gate, DependsOn, AfterStep

VARIABLES
    st,         \* what each step is: "todo", "doing", "done" or "broken"
    due,        \* the gate the chain is stopped at, 0 when none
    promised,   \* gates that will still stop the chain
    outcome     \* "open", "completed" or "aborted"

chain == <<st, due, promised, outcome>>

Init ==
    /\ st = [s \in Step |-> "todo"]
    /\ due = 0
    /\ promised \in SUBSET Gate
    /\ outcome = "open"

Moving == \A s \in Step : st[s] \in {"todo", "done"}

Begin(s) ==
    /\ due = 0 /\ Moving /\ st[s] = "todo"
    /\ DependsOn[s] # 0 => st[DependsOn[s]] = "done"
    /\ st' = [st EXCEPT ![s] = "doing"]
    /\ UNCHANGED <<due, promised, outcome>>

\* The first promised gate after the step stops the chain
Finish(s) ==
    /\ st[s] = "doing"
    /\ st' = [st EXCEPT ![s] = "done"]
    /\ LET here == {g \in promised : AfterStep[g] = s} IN
          \/ due' \in here /\ \A h \in here : due' <= h
          \/ due' = 0 /\ here = {}
    /\ UNCHANGED <<promised, outcome>>

Break(s) ==
    /\ st[s] = "doing"
    /\ st' = [st EXCEPT ![s] = "broken"]
    /\ UNCHANGED <<due, promised, outcome>>

\* The user sends the broken step back
Retry(s) ==
    /\ st[s] = "broken"
    /\ st' = [st EXCEPT ![s] = "todo"]
    /\ UNCHANGED <<due, promised, outcome>>

Approve ==
    /\ due # 0
    /\ due' = 0
    /\ UNCHANGED <<st, promised, outcome>>

Revise ==
    /\ due # 0
    /\ st' = [st EXCEPT ![AfterStep[due]] = "todo"]
    /\ due' = 0
    /\ UNCHANGED <<promised, outcome>>

\* A restart keeps the gate the chain is stopped at and forgets the others
ForgetGates ==
    /\ due # 0
    /\ promised' = {due}
    /\ UNCHANGED <<st, due, outcome>>

Complete ==
    /\ due = 0 /\ \A s \in Step : st[s] = "done"
    /\ outcome' = "completed"
    /\ UNCHANGED <<st, due, promised>>

\* By the user at a gate or a failure, or by a restart in the middle of a step
Abort ==
    /\ outcome' = "aborted"
    /\ due' = 0
    /\ UNCHANGED <<st, promised>>

Next ==
    /\ outcome = "open"
    /\ \/ \E s \in Step : Begin(s) \/ Finish(s) \/ Break(s) \/ Retry(s)
       \/ Approve \/ Revise \/ ForgetGates \/ Complete \/ Abort

Spec == Init /\ [][Next]_chain
===============================================================================
