------------------------------- MODULE RunLogFile -------------------------------
(***************************************************************************)
(* The bytes of one run log: how runs.Append and a crash in the middle of   *)
(* its write leave the .jsonl file, what runs.Replay reads back, and what   *)
(* the startup triage does with it, over any number of restarts             *)
(* (internal/plans/runs/log.go, Orchestrator.triageRunLog).                 *)
(*                                                                         *)
(* A line is the JSON text between two newlines.  A write cut short leaves  *)
(* a last line with no newline; Append opens the file with O_APPEND and     *)
(* adds its text to whatever is there.                                      *)
(***************************************************************************)
EXTENDS Naturals, Sequences, FiniteSets, SequencesExt

CONSTANTS
    Lookahead,      \* lines the Scanner has buffered beyond the current one
    MaxEvents       \* bound on the appends that write something

VARIABLES
    file,       \* the lines of the file
    ended,      \* the last line has its newline
    proc,       \* what the current process does with the run
    written,    \* history: the events of which a write put anything on the disk,
                \* in order
    acked       \* history: which of them Append returned from

vars == <<file, ended, proc, written, acked>>

Event == {"run_started", "step", "gate_opened", "gate_resolved", "terminal"}

\* What reaches the disk: all of it, all but the newline, or less
Extent == {"all", "no newline", "part"}

Line == [text : {"json", "garbage"}, event : Event]

Process == {"new", "driving", "parked", "over", "crashed", "skipped"}

-------------------------------------------------------------------------------
\* runs.Append of event e, cut short after extent x: text added to an
\* unterminated line makes that line undecodable, whatever it was
FileAfter(e, x) ==
    IF ended
    THEN Append(file, [text  |-> IF x = "part" THEN "garbage" ELSE "json",
                       event |-> e])
    ELSE [file EXCEPT ![Len(file)].text = "garbage"]

Garbage == {i \in DOMAIN file : file[i].text = "garbage"}
FirstGarbage == CHOOSE i \in Garbage : \A j \in Garbage : i <= j

EventsBefore(n) == [i \in 1..(n - 1) |-> file[i].event]

\* runs.Replay: stop at the first line that does not decode.  It is taken for
\* a truncated last line (isLastLineTruncation) when the Scanner has already
\* read the rest of the file, otherwise the whole log is unreadable
Unreadable == Garbage # {} /\ Len(file) - FirstGarbage > Lookahead

\* Mutant: lines that do not decode are skipped
Replayed_skips ==
    LET good == SelectSeq(file, LAMBDA line : line.text = "json")
    IN  [i \in DOMAIN good |-> good[i].event]

Replayed == EventsBefore(IF Garbage = {} THEN Len(file) + 1 ELSE FirstGarbage)

-------------------------------------------------------------------------------
Init ==
    /\ file = <<>> /\ ended = TRUE
    /\ proc = "new"
    /\ written = <<>> /\ acked = {}

\* An append that puts all of its line on the disk, or a part of it: then the
\* process dies in it, or goes on as after any append that failed
WriteSome(e, next, failed) ==
    /\ Len(written) < MaxEvents
    /\ written' = Append(written, e)
    /\ \E x \in Extent :
          /\ file' = FileAfter(e, x)
          /\ ended' = (x = "all")
          /\ proc' \in IF x = "all" THEN {next} ELSE {failed, "crashed"}
          /\ acked' = IF x = "all" THEN acked \cup {Len(written')} ELSE acked

\* An append that fails before its first byte: the file cannot be opened, or
\* the disk is full
WriteNone(failed) ==
    /\ proc' = failed
    /\ UNCHANGED <<file, ended, written, acked>>

Write(e, next, failed) == WriteSome(e, next, failed) \/ WriteNone(failed)

\* FileAppender logs the error of an append and the runner goes on
Logged(e, next) == Write(e, next, next)

\* The events of a run in their order; PlanRunner has the detail
Drive ==
    \/ proc = "new"     /\ Logged("run_started", "driving")
    \/ proc = "driving" /\ Logged("step", "driving")
    \/ proc = "driving" /\ Logged("gate_opened", "parked")
    \/ proc = "parked"  /\ Logged("gate_resolved", "driving")
    \/ proc = "driving" /\ Logged("terminal", "over")

\* The process dies between two writes; the run may long be over
Crash ==
    /\ proc # "crashed"
    /\ proc' = "crashed"
    /\ UNCHANGED <<file, ended, written, acked>>

\* ListActive skips a log that is unreadable or has no event
SkipLog ==
    /\ proc = "crashed"
    /\ Unreadable \/ Replayed = <<>>
    /\ proc' = "skipped"
    /\ UNCHANGED <<file, ended, written, acked>>

\* Mutant: resumes whenever a gate was ever opened
LeaveOrResume_anyGate ==
    /\ proc = "crashed" /\ ~Unreadable
    /\ \E i \in DOMAIN Replayed : Replayed[i] = "gate_opened"
    /\ proc' = "parked"
    /\ UNCHANGED <<file, ended, written, acked>>

\* A terminal tail is left alone, a gate_opened tail is resumed
LeaveOrResume ==
    /\ proc = "crashed"
    /\ ~Unreadable /\ Replayed # <<>>
    /\ Last(Replayed) \in {"terminal", "gate_opened"}
    /\ proc' = IF Last(Replayed) = "terminal" THEN "over" ELSE "parked"
    /\ UNCHANGED <<file, ended, written, acked>>

\* Any other tail gets run_aborted; triage gives up when that append fails
AbortDangling ==
    /\ proc = "crashed"
    /\ ~Unreadable /\ Replayed # <<>>
    /\ Last(Replayed) \notin {"terminal", "gate_opened"}
    /\ Write("terminal", "over", "skipped")

Next == Drive \/ Crash \/ SkipLog \/ LeaveOrResume \/ AbortDangling

Spec == Init /\ [][Next]_vars

-------------------------------------------------------------------------------
(* Properties.                                                              *)

\* Every variable has its type.
TypeOK ==
    /\ file \in Seq(Line) /\ Len(file) <= MaxEvents
    /\ ended \in BOOLEAN
    /\ proc \in Process
    /\ written \in Seq(Event) /\ Len(written) <= MaxEvents
    /\ acked \in SUBSET (1..Len(written))

\* The events acknowledged before any write was cut short
Sound == {n \in acked : 1..n \subseteq acked}

\* What replays is a prefix of the events that reached the disk at all, in that
\* order, and no shorter than those acknowledged before the first cut write: a
\* cut or merged line hides what is behind it, it never drops or reorders an
\* event in between, through any number of later crashes, cuts and merged lines.
\* Only an event whose append failed before its first byte is missing from the
\* middle, for runs.Append retries nothing and FileAppender drops its error.
ReplayIsSound == IsPrefix(Replayed, written) /\ Sound \subseteq DOMAIN Replayed

\* A run whose end is among the sound events is never driven or resumed by a later process.
SoundEndIsFinal ==
    (\E n \in Sound : written[n] = "terminal") => proc \in {"over", "crashed", "skipped"}

-------------------------------------------------------------------------------
(* The strengthening that makes ReplayIsSound and SoundEndIsFinal inductive. *)

\* The first n lines decode
Decodes(n) == \A i \in 1..n : file[i].text = "json"

\* Up to the first line that does not decode, the lines are the events written, in
\* order; behind it there may be fewer lines than events, since lines merge
LinesInOrder ==
    /\ ~ended => file # <<>>
    /\ Len(file) <= Len(written)
    /\ Decodes(Len(file)) => Len(file) = Len(written)
    /\ \A n \in DOMAIN file : Decodes(n) => file[n].event = written[n]

\* The lines of sound events decode, and nothing is going to be merged into them
SoundDecodes ==
    \A n \in Sound : n <= Len(file) /\ Decodes(n) /\ (n = Len(file) => ended)

\* Nothing is written behind an end that is sound
SoundEndIsLast ==
    \A n \in Sound : written[n] = "terminal"
                       => n = Len(written) /\ proc \in {"over", "crashed", "skipped"}

-------------------------------------------------------------------------------
(* What comments of the repository say, and the code refutes.               *)

\* runs/log.go:82-86: after a truncated line "the next Append will overwrite
\* that truncated slot", "a partial event is equivalent to no event": every
\* acknowledged event replays.
AppendedIsReplayed == Cardinality(acked) <= Len(Replayed)

\* orchestrator.go:2976: "Tail event run_completed / run_aborted: already
\* terminal, skip": a run whose end was logged is not resumed by a restart.
TerminalIsSkipped ==
    [][(\E n \in acked : written[n] = "terminal") => ~(proc = "crashed" /\ proc' = "parked")]_vars
===============================================================================
