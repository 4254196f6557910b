---------------------------- MODULE MCProjectFiles ----------------------------
(* The files of a project in one instance for TLC: the plan with its compiled *)
(* sidecar (PlanCompile) and the log of a run (RunLogFile).  Neither reads    *)
(* what the other writes, so each is explored with the other at rest.         *)
EXTENDS PlanCompile

CONSTANTS Lookahead, MaxEvents
VARIABLES file, ended, proc, written, acked

ASSUME FileConstants == Lookahead \in Nat /\ MaxEvents \in Nat

Log == INSTANCE RunLogFile

MCInit == Init /\ Log!Init
LogVars == <<file, ended, proc, written, acked>>

PlansAtRest == bounds = <<0, 0, 0>> /\ pc = [g \in Goroutine |-> "idle"]
LogAtRest   == written = <<>> /\ proc = "new"

MCNext == \/ LogAtRest /\ Next /\ UNCHANGED LogVars
          \/ PlansAtRest /\ Log!Next /\ UNCHANGED vars

MCSpec == /\ MCInit /\ [][MCNext]_<<vars, LogVars>>
          /\ \A g \in Goroutine : WF_vars(Step(g))

\* What replays is a prefix of the events that reached the disk, and no shorter
\* than those acknowledged before the first cut write (RunLogFile, runs.Replay)
ReplayIsSound == Log!ReplayIsSound

\* A run whose end replays is not driven again (RunLogFile, triageRunLog)
SoundEndIsFinal == Log!SoundEndIsFinal
===============================================================================
