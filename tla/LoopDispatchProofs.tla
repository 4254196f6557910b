-------------------------- MODULE LoopDispatchProofs --------------------------
(***************************************************************************)
(* Proofs about LoopDispatch, for any tasks, dependencies, limits and       *)
(* number of dispatch goroutines.                                           *)
(***************************************************************************)
EXTENDS LoopDispatch, FiniteSetTheorems, TLAPS

CallerState == [pc : {"idle", "reconciled", "dispatching", "claiming", "creating", "registering"},
                rest : SUBSET Listed, follows : BOOLEAN, pick : 0..NTasks,
                hash : Hash, made : SUBSET Task, subs : SUBSET Task]

WaveState == [status : {"none", "active", "exhausted"}, frontier : SUBSET Task]

Typed == TypeOK /\ PicksTask

-------------------------------------------------------------------------------
(* The calls of the tracker keep its types.                                 *)

\* What is listed, and remembered as listed.
LEMMA ListTypes ==
    ASSUME TypeOK
    PROVE  /\ ListActive \in SUBSET Listed
           /\ SnapshotHash(Tasks(ListActive)) \in Hash
<1>1. \A S \in SUBSET Task : AsListed(S) \in SUBSET Listed
  <2> TAKE S \in SUBSET Task
  <2>1. \A t \in Task : [task |-> t, approved |-> "approved" \in labels[t]] \in Listed
    <3> TAKE t \in Task
    <3>1. ("approved" \in labels[t]) \in BOOLEAN
      OBVIOUS
    <3> QED BY <3>1 DEF Listed
  <2> QED BY <2>1 DEF AsListed
<1>2. ListActive \in SUBSET Listed
  <2>1. /\ ActiveTasks \in SUBSET Task
        /\ {t \in ActiveTasks : labels[t] \cap stale # {}} \in SUBSET Task
        /\ lastTasks \in SUBSET Listed
    BY DEF ActiveTasks, TypeOK
  <2>2. ListActive \in {AsListed(ActiveTasks), lastTasks,
                        AsListed({t \in ActiveTasks : labels[t] \cap stale # {}})}
    BY DEF ListActive
  <2> QED BY <1>1, <2>1, <2>2
<1>3. Tasks(ListActive) \in SUBSET Task
  BY <1>2 DEF Tasks, Listed
<1>4. wave.status \in {"unset", "none", "active", "exhausted"}
  BY DEF TypeOK
<1> QED BY <1>2, <1>3, <1>4 DEF SnapshotHash, Hash

\* Asking for the list.
LEMMA FetchTypes ==
    ASSUME TypeOK, Fetch
    PROVE  stale' \subseteq ActiveLabels /\ lastTasks' \subseteq Listed
BY ListTypes DEF Fetch

\* A change of an issue, or of its labels.
LEMMA TouchTypes ==
    ASSUME TypeOK, NEW t, NEW had, Touch(t, had)
    PROVE  stale' \subseteq ActiveLabels /\ lastTasks' \subseteq Listed
BY DEF Touch, TypeOK

\* A new issue.
LEMMA OpensTypes ==
    ASSUME TypeOK, NEW t, Opens(t)
    PROVE  /\ issue' \in [Task -> {"absent", "open", "closed"}]
           /\ labels' \in [Task -> SUBSET Label]
           /\ stale' \subseteq ActiveLabels /\ lastTasks' \subseteq Listed
<1>1. /\ issue' \in [Task -> {"absent", "open", "closed"}]
      /\ labels' \in [Task -> SUBSET Label]
  BY DEF Opens, TypeOK, Label
<1> QED BY <1>1, TouchTypes DEF Opens

\* A change of labels keeps the tracker's variables in their types.
LEMMA RelabelTypes ==
    ASSUME TypeOK, NEW t, NEW new \in SUBSET Label, Relabel(t, new)
    PROVE  /\ labels' \in [Task -> SUBSET Label]
           /\ stale' \subseteq ActiveLabels /\ lastTasks' \subseteq Listed
<1>1. labels' \in [Task -> SUBSET Label]
  BY DEF Relabel, TypeOK
<1>2. stale' \subseteq ActiveLabels /\ lastTasks' \subseteq Listed
  BY TouchTypes DEF Relabel, TypeOK
<1> QED BY <1>1, <1>2

\* Closing an issue.
LEMMA CloseTypes ==
    ASSUME TypeOK, NEW t, CloseIssue(t)
    PROVE  /\ issue' \in [Task -> {"absent", "open", "closed"}]
           /\ stale' \subseteq ActiveLabels /\ lastTasks' \subseteq Listed
<1>1. issue' \in [Task -> {"absent", "open", "closed"}]
  BY DEF CloseIssue, TypeOK
<1>2. stale' \subseteq ActiveLabels /\ lastTasks' \subseteq Listed
  BY TouchTypes DEF CloseIssue, TypeOK
<1> QED BY <1>1, <1>2

\* A step of a dispatch goroutine.
LEMMA GoesTypes ==
    ASSUME TypeOK, NEW w \in Run, NEW from, NEW to \in Phase, Goes(w, from, to)
    PROVE  run' \in [Run -> [task : 0..NTasks, at : Phase]]
<1>1. NoRun \in [task : 0..NTasks, at : Phase]
  BY LoopConfig DEF LoopConfig, NoRun, Phase
<1>2. [run[w] EXCEPT !.at = to] \in [task : 0..NTasks, at : Phase]
  BY DEF TypeOK
<1> QED BY <1>1, <1>2 DEF Goes, TypeOK

-------------------------------------------------------------------------------
(* Types.                                                                   *)

\* A caller that has nothing in hand.
LEMMA IdleType == Idle \in CallerState /\ Unseen \in Hash
BY LoopConfig DEF LoopConfig, Idle, CallerState, Unseen, Hash

\* What create_subtasks creates are tasks.
LEMMA CreatedTasks == Created \subseteq Task
BY LoopConfig DEF Created, LoopConfig

\* The steps of the ticker and the listener.
LEMMA CallersKeepTypes ==
    ASSUME Typed, Tick \/ Chat
    PROVE  Typed'
<1> USE DEF Typed
<1>0. caller \in [Caller -> CallerState] /\ "ticker" \in Caller /\ "listener" \in Caller
  BY DEF TypeOK, CallerState, Caller
<1>1. CASE Reconcile
  <2>1. active' \subseteq Task
    BY <1>1 DEF Reconcile, TypeOK
  <2>2. caller' \in [Caller -> CallerState]
    BY <1>0, <1>1 DEF Reconcile, CallerState
  <2>3. PicksTask'
    BY <1>0, <1>1 DEF Reconcile, PicksTask, Claiming, CallerState
  <2> QED BY <1>1, <2>1, <2>2, <2>3 DEF Reconcile, TypeOK, CallerState, tracker
<1>2. CASE ListTasks
  <2>1. /\ caller' \in [Caller -> CallerState]
        /\ PicksTask'
    <3>1. \E st \in CallerState : /\ st.pc # "claiming"
                                  /\ caller' = [caller EXCEPT !["ticker"] = st]
      <4>1. CASE caller' = [caller EXCEPT !["ticker"] = Idle]
        <5>1. Idle \in CallerState /\ Idle.pc # "claiming"
          BY IdleType DEF Idle
        <5> QED BY <4>1, <5>1
      <4>2. CASE \E follows \in Followed :
                    caller' = [caller EXCEPT !["ticker"] =
                       [Idle EXCEPT !.pc = "dispatching", !.rest = ListActive,
                                    !.follows = follows,
                                    !.hash = SnapshotHash(Tasks(ListActive))]]
        <5>1. PICK follows \in BOOLEAN :
                    caller' = [caller EXCEPT !["ticker"] =
                       [Idle EXCEPT !.pc = "dispatching", !.rest = ListActive,
                                    !.follows = follows,
                                    !.hash = SnapshotHash(Tasks(ListActive))]]
          BY <4>2 DEF Followed
        <5> DEFINE st == [Idle EXCEPT !.pc = "dispatching", !.rest = ListActive,
                                      !.follows = follows,
                                      !.hash = SnapshotHash(Tasks(ListActive))]
        <5>2. st \in CallerState /\ st.pc = "dispatching"
          BY IdleType, ListTypes DEF CallerState, Idle
        <5>3. caller' = [caller EXCEPT !["ticker"] = st]
          BY <5>1
        <5> HIDE DEF st
        <5> QED BY <5>2, <5>3
      <4>3. \/ caller' = [caller EXCEPT !["ticker"] = Idle]
            \/ \E follows \in Followed :
                    caller' = [caller EXCEPT !["ticker"] =
                       [Idle EXCEPT !.pc = "dispatching", !.rest = ListActive,
                                    !.follows = follows,
                                    !.hash = SnapshotHash(Tasks(ListActive))]]
        <5>1. CASE ~Reachable
          BY <1>2, <5>1 DEF ListTasks
        <5>2. CASE Reachable /\ SnapshotHash(Tasks(ListActive)) = seen
          BY <1>2, <5>2 DEF ListTasks
        <5>3. CASE Reachable /\ SnapshotHash(Tasks(ListActive)) # seen
          BY <1>2, <5>3 DEF ListTasks
        <5> QED BY <5>1, <5>2, <5>3
      <4> QED BY <4>1, <4>2, <4>3
    <3>2. PICK st \in CallerState : /\ st.pc # "claiming"
                                    /\ caller' = [caller EXCEPT !["ticker"] = st]
      BY <3>1
    <3> QED BY <1>0, <3>2 DEF PicksTask, Claiming
  <2>2. stale' \subseteq ActiveLabels /\ lastTasks' \subseteq Listed
    BY <1>2, FetchTypes DEF ListTasks, TypeOK
  <2> QED BY <1>2, <2>1, <2>2 DEF ListTasks, TypeOK, CallerState, memory
<1>3. CASE ListForMessage
  <2> DEFINE st == [Idle EXCEPT !.pc = "dispatching", !.rest = ListActive, !.follows = TRUE]
  <2>1. st \in CallerState /\ st.pc = "dispatching"
    BY IdleType, ListTypes DEF CallerState, Idle
  <2>2. caller' = [caller EXCEPT !["listener"] = st]
    BY <1>3 DEF ListForMessage
  <2> HIDE DEF st
  <2>3. caller' \in [Caller -> CallerState] /\ PicksTask'
    BY <1>0, <2>1, <2>2 DEF PicksTask, Claiming
  <2>4. stale' \subseteq ActiveLabels /\ lastTasks' \subseteq Listed
    BY <1>3, FetchTypes DEF ListForMessage
  <2> QED BY <1>3, <2>3, <2>4 DEF ListForMessage, TypeOK, CallerState, memory
<1>4. ASSUME NEW c \in Caller, Check(c) PROVE Typed'
  <2>1. PICK l \in caller[c].rest :
          caller' = [caller EXCEPT
                        ![c].rest = @ \ {l},
                        ![c].pick = IF Passes(c, l) THEN l.task ELSE 0,
                        ![c].pc = IF Passes(c, l) THEN "claiming" ELSE @]
    BY <1>4 DEF Check, Turn
  <2>2. l \in Listed /\ caller[c] \in CallerState
    BY <1>0 DEF CallerState
  <2>3. l.task \in Task /\ l.task \in 0..NTasks /\ 0 \in 0..NTasks
    BY <2>2, LoopConfig DEF Listed, Task, LoopConfig
  <2>4. caller' \in [Caller -> CallerState]
    BY <1>0, <2>1, <2>2, <2>3 DEF CallerState
  <2>5. PicksTask'
    <3> SUFFICES ASSUME NEW d \in Caller, caller'[d].pc = "claiming"
                 PROVE  caller'[d].pick \in Task
      BY DEF PicksTask, Claiming
    <3>1. CASE d = c
      <4>1. caller[c].pc = "dispatching"
        BY <1>4 DEF Check
      <4>2. Passes(c, l)
        BY <1>0, <2>1, <2>2, <3>1, <4>1 DEF CallerState
      <4>3. caller'[c].pick = l.task
        BY <1>0, <2>1, <2>2, <4>2 DEF CallerState
      <4> QED BY <2>3, <3>1, <4>3
    <3>2. CASE d # c
      <4>1. caller'[d] = caller[d]
        BY <1>0, <2>1, <3>2
      <4> QED BY <4>1 DEF PicksTask, Claiming
    <3> QED BY <3>1, <3>2
  <2> QED BY <1>4, <2>4, <2>5 DEF Check, TypeOK, CallerState, tracker, memory
<1>5. ASSUME NEW c \in Caller, Claim(c) PROVE Typed'
  <2>1. caller[c].pick \in Task /\ caller[c].pick \in 0..NTasks
    BY <1>5, LoopConfig DEF Claim, PicksTask, Claiming, Task, LoopConfig
  <2>2. active' \subseteq Task
    BY <1>5, <2>1 DEF Claim, TypeOK
  <2>3. run' \in [Run -> [task : 0..NTasks, at : Phase]]
    BY <1>5, <2>1 DEF Claim, TypeOK, Phase
  <2>4. caller' \in [Caller -> CallerState] /\ PicksTask'
    <3>1. 0 \in 0..NTasks
      BY LoopConfig DEF LoopConfig
    <3> DEFINE st == [caller[c] EXCEPT !.pc = "dispatching", !.pick = 0,
                                       !.made = @ \cup {caller[c].pick}]
    <3>2. st \in CallerState /\ st.pc = "dispatching"
      BY <1>0, <2>1, <3>1 DEF CallerState
    <3>3. caller' = [caller EXCEPT ![c] = st]
      BY <1>0, <1>5 DEF Claim, CallerState
    <3> HIDE DEF st
    <3> QED BY <1>0, <3>2, <3>3 DEF PicksTask, Claiming
  <2> QED BY <1>5, <2>2, <2>3, <2>4 DEF Claim, TypeOK, CallerState, tracker
<1>6. ASSUME NEW c \in Caller, Finish(c) PROVE Typed'
  <2>1. \A closes \in BOOLEAN : WaveAfter(c, closes) \in WaveState
    <3>1. wave \in WaveState /\ NoWave \in WaveState /\ caller[c].made \in SUBSET Task
      BY <1>0 DEF TypeOK, WaveState, NoWave, CallerState
    <3> QED BY <3>1 DEF WaveAfter, WaveState
  <2>2. wave' \in WaveState
    <3>1. PICK wv \in WaveState :
             wave' = IF c = "ticker" /\ Exhausted(wv)
                     THEN [wv EXCEPT !.status = "exhausted"] ELSE wv
      BY <1>6, <2>1 DEF Finish
    <3> QED BY <3>1 DEF WaveState
  <2>3. seen' \in Hash
    BY <1>0, <1>6 DEF Finish, TypeOK, CallerState
  <2>4. caller' \in [Caller -> CallerState] /\ PicksTask'
    BY <1>0, <1>6, IdleType DEF Finish, PicksTask, Claiming, Idle
  <2> QED BY <1>6, <2>2, <2>3, <2>4 DEF Finish, TypeOK, CallerState, WaveState, tracker, memory
<1>7. ASSUME NEW c \in Caller, CreateIssue(c) PROVE Typed'
  <2>1. PICK t \in Task :
          /\ Opens(t)
          /\ caller' = [caller EXCEPT ![c].pc = "creating", ![c].subs = @ \cup {t}]
    BY <1>7, CreatedTasks DEF CreateIssue
  <2>2. caller' \in [Caller -> CallerState]
    BY <1>0, <2>1 DEF CallerState
  <2>3. PicksTask'
    BY <1>0, <2>1 DEF PicksTask, Claiming, CallerState
  <2> QED BY <1>7, <2>1, <2>2, <2>3, OpensTypes DEF CreateIssue, TypeOK, CallerState, memory
<1>8. ASSUME NEW c \in Caller, RegisterDeps(c) PROVE Typed'
  <2>1. PICK t \in Task :
          /\ deps' = [deps EXCEPT ![t] = Deps[t]]
          /\ caller' = [caller EXCEPT
                            ![c].subs = @ \ {t},
                            ![c].pc = IF caller[c].subs = {t} THEN "dispatching"
                                                              ELSE "registering"]
    BY <1>0, <1>8 DEF RegisterDeps, CallerState
  <2> DEFINE st == [caller[c] EXCEPT
                       !.subs = @ \ {t},
                       !.pc = IF caller[c].subs = {t} THEN "dispatching" ELSE "registering"]
  <2>5. st \in CallerState /\ st.pc # "claiming"
    BY <1>0 DEF CallerState
  <2>6. caller' = [caller EXCEPT ![c] = st]
    BY <1>0, <2>1
  <2> HIDE DEF st
  <2>2. caller' \in [Caller -> CallerState]
    BY <1>0, <2>5, <2>6
  <2>3. PicksTask'
    BY <1>0, <2>5, <2>6 DEF PicksTask, Claiming
  <2>4. deps' \in [Task -> SUBSET Task]
    BY <2>1, LoopConfig DEF TypeOK, LoopConfig
  <2> QED BY <1>8, <2>2, <2>3, <2>4 DEF RegisterDeps, TypeOK, CallerState, tracker
<1> QED BY <1>0, <1>1, <1>2, <1>3, <1>4, <1>5, <1>6, <1>7, <1>8 DEF Tick, Chat, Dispatching

\* The steps of a dispatch goroutine.
LEMMA DispatchKeepsTypes ==
    ASSUME Typed, NEW w \in Run, Dispatch(w)
    PROVE  Typed'
<1> USE DEF Typed
<1>0. Phase = {"free", "claimed", "marked", "running", "failed", "passed", "closing"}
  BY DEF Phase
<1>1. ASSUME UNCHANGED caller PROVE PicksTask'
  BY <1>1 DEF PicksTask, Claiming
<1>2. run' \in [Run -> [task : 0..NTasks, at : Phase]]
  BY <1>0, GoesTypes DEF Dispatch, Mark, SetupFails, StartAgent, AgentEnds, RecordFailure,
                         ReviewFails, Complete, Close
<1>3. CASE Mark(w)
  <2>1. /\ labels' \in [Task -> SUBSET Label]
        /\ stale' \subseteq ActiveLabels /\ lastTasks' \subseteq Listed
    <3>1. CASE Reachable
      <4> DEFINE t == run[w].task
                 new == (labels[t] \ ActiveLabels) \cup {"in-progress"}
      <4>1. Relabel(t, new)
        BY <1>3, <3>1 DEF Mark
      <4>2. CASE t \in Task
        <5>1. new \in SUBSET Label
          BY <4>2 DEF TypeOK, Label
        <5> QED BY <4>1, <5>1, RelabelTypes
      <4>3. CASE t \notin Task
        <5>1. labels' \in [Task -> SUBSET Label]
          BY <4>1, <4>3 DEF Relabel, TypeOK
        <5>2. stale' \subseteq ActiveLabels /\ lastTasks' \subseteq Listed
          BY <4>1, TouchTypes DEF Relabel, TypeOK
        <5> QED BY <5>1, <5>2
      <4> QED BY <4>2, <4>3
    <3>2. CASE ~Reachable
      BY <1>3, <3>2 DEF Mark, TypeOK
    <3> QED BY <3>1, <3>2
  <2> QED BY <1>1, <1>2, <1>3, <2>1 DEF Mark, TypeOK, memory
<1>4. CASE SetupFails(w)
  BY <1>1, <1>2, <1>4 DEF SetupFails, TypeOK, tracker
<1>5. CASE StartAgent(w)
  BY <1>1, <1>2, <1>5 DEF StartAgent, TypeOK, tracker, memory
<1>6. CASE AgentEnds(w)
  BY <1>1, <1>2, <1>6 DEF AgentEnds, TypeOK, tracker
<1>7. CASE RecordFailure(w)
  <2>1. stale' \subseteq ActiveLabels /\ lastTasks' \subseteq Listed
    BY <1>7, TouchTypes DEF RecordFailure, TypeOK
  <2>2. retry' \in [Task -> Backoff]
    BY <1>7 DEF RecordFailure, TypeOK, Backoff
  <2> QED BY <1>1, <1>2, <1>7, <2>1, <2>2 DEF RecordFailure, TypeOK
<1>8. CASE Complete(w)
  <2>1. /\ labels' \in [Task -> SUBSET Label]
        /\ stale' \subseteq ActiveLabels /\ lastTasks' \subseteq Listed
    <3>1. CASE Reachable
      <4> DEFINE t == run[w].task
                 new == labels[t] \ {"in-progress"}
      <4>1. Relabel(t, new)
        BY <1>8, <3>1 DEF Complete
      <4>2. CASE t \in Task
        <5>1. new \in SUBSET Label
          BY <4>2 DEF TypeOK
        <5> QED BY <4>1, <5>1, RelabelTypes
      <4>3. CASE t \notin Task
        <5>1. labels' \in [Task -> SUBSET Label]
          BY <4>1, <4>3 DEF Relabel, TypeOK
        <5>2. stale' \subseteq ActiveLabels /\ lastTasks' \subseteq Listed
          BY <4>1, TouchTypes DEF Relabel, TypeOK
        <5> QED BY <5>1, <5>2
      <4> QED BY <4>2, <4>3
    <3>2. CASE ~Reachable
      BY <1>8, <3>2 DEF Complete, TypeOK
    <3> QED BY <3>1, <3>2
  <2>2. retry' \in [Task -> Backoff]
    BY <1>8 DEF Complete, TypeOK, Backoff
  <2> QED BY <1>1, <1>2, <1>8, <2>1, <2>2 DEF Complete, TypeOK
<1>9. CASE Close(w)
  <2>1. /\ issue' \in [Task -> {"absent", "open", "closed"}]
        /\ stale' \subseteq ActiveLabels /\ lastTasks' \subseteq Listed
    BY <1>9, CloseTypes DEF Close, TypeOK
  <2> QED BY <1>1, <1>2, <1>9, <2>1 DEF Close, TypeOK, memory
<1> QED BY <1>3, <1>4, <1>5, <1>6, <1>7, <1>8, <1>9 DEF Dispatch

\* What the user and the clock do.
LEMMA UserKeepsTypes ==
    ASSUME Typed, User \/ \E t \in Task : BackoffOver(t)
    PROVE  Typed'
<1> USE DEF Typed
<1>1. ASSUME UNCHANGED caller PROVE PicksTask'
  BY <1>1 DEF PicksTask, Claiming
<1>2. ASSUME NEW t \in Task, Open(t) PROVE Typed'
  BY <1>1, <1>2, OpensTypes DEF Open, TypeOK, memory
<1>3. ASSUME NEW t \in Task, Withdraw(t) PROVE Typed'
  <2>1. /\ issue' \in [Task -> {"absent", "open", "closed"}]
        /\ stale' \subseteq ActiveLabels /\ lastTasks' \subseteq Listed
    BY <1>3, CloseTypes DEF Withdraw
  <2> QED BY <1>1, <1>3, <2>1 DEF Withdraw, TypeOK, memory
<1>4. ASSUME NEW t \in Task, Approve(t) PROVE Typed'
  <2>1. labels[t] \cup {"approved"} \in SUBSET Label
    BY DEF TypeOK, Label
  <2>2. /\ labels' \in [Task -> SUBSET Label]
        /\ stale' \subseteq ActiveLabels /\ lastTasks' \subseteq Listed
    BY <1>4, <2>1, RelabelTypes DEF Approve
  <2> QED BY <1>1, <1>4, <2>2 DEF Approve, TypeOK, memory
<1>5. ASSUME NEW t \in Task, Comment(t) PROVE Typed'
  <2>1. stale' \subseteq ActiveLabels /\ lastTasks' \subseteq Listed
    BY <1>5, TouchTypes DEF Comment
  <2> QED BY <1>1, <1>5, <2>1 DEF Comment, TypeOK, memory
<1>6. ASSUME NEW t \in Task, BackoffOver(t) PROVE Typed'
  <2>1. retry' \in [Task -> Backoff]
    BY <1>6 DEF BackoffOver, TypeOK, Backoff
  <2> QED BY <1>1, <1>6, <2>1 DEF BackoffOver, TypeOK, tracker
<1> QED BY <1>2, <1>3, <1>4, <1>5, <1>6 DEF User

\* Shutdown, crash and restart.
LEMMA StopKeepsTypes ==
    ASSUME Typed, Interrupt \/ Shutdown \/ Crash \/ Boot
    PROVE  Typed'
<1> USE DEF Typed
<1>1. ASSUME UNCHANGED caller PROVE PicksTask'
  BY <1>1 DEF PicksTask, Claiming
<1>2. stops \in Nat /\ MaxStops \in Nat
  BY LoopConfig DEF TypeOK, LoopConfig
<1>3. CASE Interrupt
  <2>1. stops' \in 0..MaxStops
    BY <1>2, <1>3 DEF Interrupt
  <2> QED BY <1>1, <1>3, <2>1 DEF Interrupt, TypeOK, tracker, memory
<1>4. ASSUME Gone
      PROVE  /\ PicksTask'
             /\ stale' \subseteq ActiveLabels /\ lastTasks' \subseteq Listed
             /\ active' \subseteq Task /\ retry' \in [Task -> Backoff]
             /\ deps' \in [Task -> SUBSET Task] /\ seen' \in Hash
             /\ wave' \in WaveState /\ run' \in [Run -> [task : 0..NTasks, at : Phase]]
             /\ caller' \in [Caller -> CallerState] /\ proc' \in {"up", "stopping", "down"}
  <2>1. NoRun \in [task : 0..NTasks, at : Phase] /\ NoWave \in WaveState /\ "none" \in Backoff
    BY LoopConfig DEF LoopConfig, NoRun, Phase, NoWave, WaveState, Backoff
  <2>2. PicksTask' /\ caller' \in [Caller -> CallerState]
    BY <1>4, IdleType DEF Gone, PicksTask, Claiming, Idle
  <2>3. /\ stale' \subseteq ActiveLabels /\ lastTasks' = {}
        /\ active' = {} /\ retry' = [t \in Task |-> "none"]
        /\ deps' = [t \in Task |-> {}] /\ seen' = Unseen /\ wave' = NoWave
        /\ run' = [v \in Run |-> NoRun] /\ proc' = "down"
    BY <1>4 DEF Gone
  <2> QED BY <2>1, <2>2, <2>3, IdleType
<1>5. CASE Shutdown
  <2>1. labels' \in [Task -> SUBSET Label]
    BY <1>5 DEF Shutdown, TypeOK
  <2>2. saved' \in [retry : [Task -> Backoff], deps : [Task -> SUBSET Task]]
    BY <1>5 DEF Shutdown, SaveState, TypeOK
  <2>3. Gone /\ UNCHANGED <<issue, stops>>
    BY <1>5 DEF Shutdown
  <2> QED BY <1>4, <2>1, <2>2, <2>3 DEF TypeOK, WaveState, CallerState
<1>6. CASE Crash
  <2>1. stops' \in 0..MaxStops
    BY <1>2, <1>6 DEF Crash
  <2>2. Gone /\ UNCHANGED <<issue, labels, saved>>
    BY <1>6 DEF Crash
  <2> QED BY <1>4, <2>1, <2>2 DEF TypeOK, WaveState, CallerState
<1>7. CASE Boot
  <2>1. retry' \in [Task -> Backoff] /\ deps' \in [Task -> SUBSET Task]
    BY <1>7 DEF Boot, RestoredRetry, TypeOK, Backoff
  <2> QED BY <1>1, <1>7, <2>1 DEF Boot, TypeOK, tracker
<1> QED BY <1>3, <1>5, <1>6, <1>7

\* Every step keeps the types.
LEMMA StepKeepsTypes == Typed /\ [Next]_vars => Typed'
<1>1. ASSUME Typed, UNCHANGED vars PROVE Typed'
  BY <1>1 DEF vars, tracker, memory, Typed, TypeOK, PicksTask, Claiming
<1> QED BY <1>1, CallersKeepTypes, DispatchKeepsTypes, UserKeepsTypes, StopKeepsTypes DEF Next

\* Every variable keeps its type.
LEMMA AlwaysTyped == Spec => []Typed
<1>1. Init => Typed
  <2> SUFFICES ASSUME Init PROVE Typed
    OBVIOUS
  <2>1. caller \in [Caller -> CallerState] /\ PicksTask
    BY IdleType DEF Init, PicksTask, Claiming, Idle
  <2>2. run \in [Run -> [task : 0..NTasks, at : Phase]] /\ wave \in WaveState
    BY LoopConfig DEF LoopConfig, Init, NoRun, Phase, NoWave, WaveState
  <2>3. /\ issue \in [Task -> {"absent", "open", "closed"}]
        /\ labels \in [Task -> SUBSET Label]
        /\ retry \in [Task -> Backoff]
    BY DEF Init, Label, Backoff
  <2>4. /\ deps \in [Task -> SUBSET Task]
        /\ saved \in [retry : [Task -> Backoff], deps : [Task -> SUBSET Task]]
    BY <2>3, LoopConfig DEF LoopConfig, Init
  <2>5. /\ stale \subseteq ActiveLabels /\ lastTasks \subseteq Listed /\ active \subseteq Task
        /\ seen \in Hash /\ proc \in {"up", "stopping", "down"} /\ stops \in 0..MaxStops
    BY IdleType, LoopConfig DEF LoopConfig, Init
  <2> QED BY <2>1, <2>2, <2>3, <2>4, <2>5 DEF Typed, TypeOK, CallerState, WaveState
<1> QED BY <1>1, StepKeepsTypes, PTL DEF Spec

\* TypeOK in every reachable state.
THEOREM TypeCorrect == Spec => []TypeOK
<1>1. Typed => TypeOK
  BY DEF Typed
<1> QED BY <1>1, AlwaysTyped, PTL
-------------------------------------------------------------------------------
(* The limits.                                                              *)

\* Counting claims.
LEMMA Counts ==
    ASSUME NEW S \in SUBSET Task, NEW T \in SUBSET S
    PROVE  /\ IsFiniteSet(S) /\ Cardinality(S) \in Nat
           /\ Cardinality(T) \in Nat /\ Cardinality(T) <= Cardinality(S)
<1>1. IsFiniteSet(Task)
  BY FS_Interval, LoopConfig DEF Task, LoopConfig
<1>2. IsFiniteSet(S) /\ IsFiniteSet(T)
  BY <1>1, FS_Subset
<1> QED BY <1>2, FS_Subset, FS_CardinalityType

\* Adding one task to a set makes it larger by one at most.
LEMMA OneMore ==
    ASSUME NEW S \in SUBSET Task, NEW t \in Task
    PROVE  /\ Cardinality(S) \in Nat /\ Cardinality(S \cup {t}) \in Nat
           /\ Cardinality(S \cup {t}) <= Cardinality(S) + 1
           /\ t \notin S => Cardinality(S \cup {t}) = Cardinality(S) + 1
<1>1. IsFiniteSet(S) /\ Cardinality(S) \in Nat
  BY Counts
<1>2. CASE t \in S
  <2>1. S \cup {t} = S
    BY <1>2
  <2> QED BY <1>1, <1>2, <2>1
<1>3. CASE t \notin S
  <2>1. Cardinality(S \cup {t}) = Cardinality(S) + 1
    BY <1>1, <1>3, FS_AddElement
  <2> QED BY <1>1, <2>1
<1> QED BY <1>2, <1>3

\* Nothing is claimed and no claim is on its way that was not before
NoNewClaim ==
    /\ active' \subseteq active
    /\ \A c \in Caller : Claiming(c)' => Claiming(c) /\ caller'[c].pick = caller[c].pick

\* A check that passes, for a task of its caller's list, and no other change
Checked(c) ==
    /\ caller[c].pc = "dispatching"
    /\ \E l \in caller[c].rest : Passes(c, l) /\ caller'[c].pick = l.task
    /\ \A d \in Caller \ {c} : caller'[d] = caller[d]
    /\ UNCHANGED <<tracker, memory, seen, wave, run, saved, proc, stops>>

\* Claims are made by Check and Claim only.
LEMMA ClaimSteps ==
    ASSUME Typed, [Next]_vars
    PROVE  \/ \E c \in Caller : Claim(c) \/ Checked(c)
           \/ NoNewClaim
<1>0. /\ caller \in [Caller -> CallerState]
      /\ "ticker" \in Caller /\ "listener" \in Caller
  BY DEF Typed, TypeOK, CallerState, Caller
<1>1. CASE Reconcile
  BY <1>0, <1>1 DEF Reconcile, NoNewClaim, Claiming, CallerState
<1>2. CASE ListTasks
  <2>1. UNCHANGED active
    BY <1>2 DEF ListTasks, memory
  <2>2. \A c \in Caller : c # "ticker" => caller'[c] = caller[c]
    BY <1>0, <1>2 DEF ListTasks
  <2>3. caller'["ticker"].pc # "claiming"
    <3>1. CASE ~Reachable
      BY <1>0, <1>2, <3>1 DEF ListTasks, Idle
    <3>2. CASE Reachable /\ SnapshotHash(Tasks(ListActive)) = seen
      BY <1>0, <1>2, <3>2 DEF ListTasks, Idle
    <3>3. CASE Reachable /\ SnapshotHash(Tasks(ListActive)) # seen
      BY <1>0, <1>2, <3>3 DEF ListTasks, Idle
    <3> QED BY <3>1, <3>2, <3>3
  <2> QED BY <2>1, <2>2, <2>3 DEF NoNewClaim, Claiming
<1>3. CASE ListForMessage
  BY <1>0, <1>3 DEF ListForMessage, memory, NoNewClaim, Claiming, Idle
<1>4. ASSUME NEW c \in Caller, Check(c) PROVE Checked(c) \/ NoNewClaim
  <2>1. PICK l \in caller[c].rest :
          caller' = [caller EXCEPT
                        ![c].rest = @ \ {l},
                        ![c].pick = IF Passes(c, l) THEN l.task ELSE 0,
                        ![c].pc = IF Passes(c, l) THEN "claiming" ELSE @]
    BY <1>4 DEF Check, Turn
  <2>2. l \in Listed /\ caller[c] \in CallerState /\ caller[c].pc = "dispatching"
    BY <1>0, <1>4 DEF CallerState, Check
  <2>3. UNCHANGED <<tracker, memory, seen, wave, run, saved, proc, stops>>
    BY <1>4 DEF Check
  <2>4. \A d \in Caller \ {c} : caller'[d] = caller[d]
    BY <1>0, <2>1
  <2>5. CASE Passes(c, l)
    <3>1. caller'[c].pick = l.task
      BY <1>0, <2>1, <2>2, <2>5 DEF CallerState
    <3> QED BY <2>2, <2>3, <2>4, <2>5, <3>1 DEF Checked
  <2>6. CASE ~Passes(c, l)
    <3>1. caller'[c].pc = "dispatching"
      BY <1>0, <2>1, <2>2, <2>6 DEF CallerState
    <3>2. UNCHANGED active
      BY <2>3 DEF memory
    <3> QED BY <2>4, <3>1, <3>2 DEF NoNewClaim, Claiming
  <2> QED BY <2>5, <2>6
<1>5. ASSUME NEW c \in Caller, Finish(c) PROVE NoNewClaim
  BY <1>0, <1>5 DEF Finish, memory, NoNewClaim, Claiming, Idle
<1>6. ASSUME NEW w \in Run, Dispatch(w) PROVE NoNewClaim
  <2>1. UNCHANGED caller /\ active' \subseteq active
    BY <1>6 DEF Dispatch, Mark, SetupFails, StartAgent, AgentEnds, RecordFailure, Complete,
                Close, memory
  <2> QED BY <2>1 DEF NoNewClaim, Claiming
<1>7. CASE User \/ (\E t \in Task : BackoffOver(t)) \/ Interrupt \/ Boot
  <2>1. UNCHANGED <<caller, active>>
    BY <1>7 DEF User, Open, Withdraw, Approve, Comment, BackoffOver, Interrupt, Boot, memory
  <2> QED BY <2>1 DEF NoNewClaim, Claiming
<1>8. CASE Shutdown \/ Crash
  BY <1>8 DEF Shutdown, Crash, Gone, NoNewClaim, Claiming, Idle
<1>9. CASE UNCHANGED vars
  BY <1>9 DEF vars, memory, NoNewClaim, Claiming
<1>10. ASSUME NEW c \in Caller, CreateIssue(c) \/ RegisterDeps(c) PROVE NoNewClaim
  <2>1. UNCHANGED active /\ \A d \in Caller \ {c} : caller'[d] = caller[d]
    BY <1>0, <1>10 DEF CreateIssue, RegisterDeps, memory
  <2>2. caller'[c].pc \in {"creating", "dispatching", "registering"}
    <3>1. CASE CreateIssue(c)
      BY <1>0, <3>1 DEF CreateIssue, CallerState
    <3>2. CASE RegisterDeps(c)
      <4>1. PICK t \in caller[c].subs :
              caller' = [caller EXCEPT
                            ![c].subs = @ \ {t},
                            ![c].pc = IF caller[c].subs = {t} THEN "dispatching"
                                                              ELSE "registering"]
        BY <3>2 DEF RegisterDeps
      <4>2. caller'[c].pc = IF caller[c].subs = {t} THEN "dispatching" ELSE "registering"
        BY <1>0, <4>1 DEF CallerState
      <4> QED BY <4>2
    <3> QED BY <1>10, <3>1, <3>2
  <2> QED BY <2>1, <2>2 DEF NoNewClaim, Claiming
<1>12. ASSUME NEW c \in Caller, Dispatching(c)
       PROVE  Claim(c) \/ Checked(c) \/ NoNewClaim
  BY <1>4, <1>5, <1>10, <1>12 DEF Dispatching
<1>11. CASE Tick \/ Chat
  BY <1>0, <1>1, <1>2, <1>3, <1>11, <1>12 DEF Tick, Chat
<1> QED BY <1>6, <1>7, <1>8, <1>9, <1>11 DEF Next

\* Claims that are released leave room.
LEMMA StillASlot ==
    ASSUME active \subseteq Task, active' \subseteq active, NEW t, HasSlot(t)
    PROVE  HasSlot(t)'
<1>1. /\ Cardinality(active') \in Nat /\ Cardinality(active') <= Cardinality(active)
      /\ Cardinality(active) \in Nat
  BY Counts
<1>2. /\ Cardinality(active' \cap Heavy) \in Nat /\ Cardinality(active \cap Heavy) \in Nat
      /\ Cardinality(active' \cap Heavy) <= Cardinality(active \cap Heavy)
  <2>1. active \cap Heavy \in SUBSET Task /\ active' \cap Heavy \in SUBSET (active \cap Heavy)
    OBVIOUS
  <2> QED BY <2>1, Counts
<1> QED BY <1>1, <1>2, LoopConfig DEF HasSlot, LoopConfig
\* A claim of one task more.
LEMMA AfterClaim ==
    ASSUME Typed, NEW c \in Caller, Claim(c)
    PROVE  /\ Claiming(c) /\ caller[c].pick \in Task /\ ~Claiming(c)'
           /\ active' = active \cup {caller[c].pick}
           /\ \A d \in Caller \ {c} : caller'[d] = caller[d]
           /\ Cardinality(active) \in Nat /\ Cardinality(active') \in Nat
           /\ Cardinality(active') <= Cardinality(active) + 1
           /\ Cardinality(active \cap Heavy) \in Nat /\ Cardinality(active' \cap Heavy) \in Nat
           /\ Cardinality(active' \cap Heavy) <=
                 Cardinality(active \cap Heavy) + (IF caller[c].pick \in Heavy THEN 1 ELSE 0)
<1>0. caller \in [Caller -> CallerState] /\ active \in SUBSET Task
  BY DEF Typed, TypeOK, CallerState
<1>1. Claiming(c) /\ caller[c].pick \in Task
  BY DEF Claim, Claiming, Typed, PicksTask
<1>2. /\ active' = active \cup {caller[c].pick}
      /\ \A d \in Caller \ {c} : caller'[d] = caller[d]
      /\ ~Claiming(c)'
  BY <1>0 DEF Claim, Claiming, CallerState
<1>3. /\ Cardinality(active) \in Nat /\ Cardinality(active') \in Nat
      /\ Cardinality(active') <= Cardinality(active) + 1
  BY <1>0, <1>1, <1>2, OneMore
<1>4. active \cap Heavy \in SUBSET Task
  BY <1>0
<1>5. CASE caller[c].pick \in Heavy
  <2>1. active' \cap Heavy = (active \cap Heavy) \cup {caller[c].pick}
    BY <1>2, <1>5
  <2> QED BY <1>1, <1>2, <1>3, <1>4, <1>5, <2>1, OneMore
<1>6. CASE caller[c].pick \notin Heavy
  <2>1. active' \cap Heavy = active \cap Heavy
    BY <1>2, <1>6
  <2>2. Cardinality(active \cap Heavy) \in Nat
    BY <1>4, Counts
  <2> QED BY <1>1, <1>2, <1>3, <1>6, <2>1, <2>2
<1> QED BY <1>5, <1>6

\* The claims on their way after a step.
LEMMA PendingSteps ==
    ASSUME NEW c \in Caller, NEW S
    PROVE  /\ Pending(c, S) \in {0, 1}
           /\ caller'[c] = caller[c] => Pending(c, S)' = Pending(c, S)
           /\ ~Claiming(c)' => Pending(c, S)' = 0
           /\ NoNewClaim => Pending(c, S)' \in {0, 1} /\ Pending(c, S)' <= Pending(c, S)
           /\ Pending(c, S)' \in {0, 1}
           /\ Pending(c, S)' = 1 => caller'[c].pick \in S
BY DEF Pending, Claiming, NoNewClaim

\* The ticker and the listener together stay within one of each limit.
LEMMA StepsOverByOne ==
    Typed /\ OverByOne /\ [Next]_vars => OverByOne'
<1> SUFFICES ASSUME Typed, OverByOne, [Next]_vars PROVE OverByOne'
  OBVIOUS
<1>0. /\ active \in SUBSET Task /\ active \cap Heavy \in SUBSET Task
      /\ Cardinality(active) \in Nat /\ Cardinality(active \cap Heavy) \in Nat
      /\ MaxConcurrent \in Nat /\ MaxHeavy \in Nat
      /\ Caller = {"ticker", "listener"}
  <2>1. active \in SUBSET Task /\ active \cap Heavy \in SUBSET Task
    BY DEF Typed, TypeOK
  <2> QED BY <2>1, Counts, LoopConfig DEF LoopConfig, Caller
<1>1. CASE NoNewClaim
  <2>1. /\ Cardinality(active') \in Nat /\ Cardinality(active') <= Cardinality(active)
    BY <1>0, <1>1, Counts DEF NoNewClaim
  <2>2. /\ Cardinality(active' \cap Heavy) \in Nat
        /\ Cardinality(active' \cap Heavy) <= Cardinality(active \cap Heavy)
    <3>1. active' \cap Heavy \in SUBSET (active \cap Heavy)
      BY <1>1 DEF NoNewClaim
    <3> QED BY <1>0, <3>1, Counts
  <2>3. \A c \in Caller : /\ Pending(c, Task)' \in {0, 1} /\ Pending(c, Task) \in {0, 1}
                          /\ Pending(c, Task)' <= Pending(c, Task)
                          /\ Pending(c, Heavy)' \in {0, 1} /\ Pending(c, Heavy) \in {0, 1}
                          /\ Pending(c, Heavy)' <= Pending(c, Heavy)
    BY <1>1, PendingSteps
  <2> QED BY <1>0, <2>1, <2>2, <2>3 DEF OverByOne
<1>2. ASSUME NEW c \in Caller, Checked(c) PROVE OverByOne'
  <2>1. PICK l \in caller[c].rest : Passes(c, l) /\ caller'[c].pick = l.task
    BY <1>2 DEF Checked
  <2>2. UNCHANGED active /\ \A d \in Caller \ {c} : caller'[d] = caller[d]
    BY <1>2 DEF Checked, memory
  <2>3. /\ Cardinality(active) < MaxConcurrent
        /\ l.task \in Heavy => Cardinality(active \cap Heavy) < MaxHeavy
    BY <2>1 DEF Passes, HasSlot
  <2>4. \A d \in Caller : /\ Pending(d, Task)' \in {0, 1} /\ Pending(d, Task) \in {0, 1}
                          /\ Pending(d, Heavy)' \in {0, 1} /\ Pending(d, Heavy) \in {0, 1}
                          /\ d # c => /\ Pending(d, Task)' = Pending(d, Task)
                                      /\ Pending(d, Heavy)' = Pending(d, Heavy)
    BY <2>2, PendingSteps
  <2>5. Pending(c, Heavy)' = 1 => l.task \in Heavy
    BY <2>1, PendingSteps
  <2>6. Cardinality(active) + Pending("ticker", Task)' + Pending("listener", Task)'
           <= MaxConcurrent + 1
    BY <1>0, <2>3, <2>4
  <2>7. Cardinality(active \cap Heavy) + Pending("ticker", Heavy)' + Pending("listener", Heavy)'
           <= MaxHeavy + 1
    <3>1. CASE l.task \in Heavy
      BY <1>0, <2>3, <2>4, <3>1
    <3>2. CASE l.task \notin Heavy
      <4>1. Pending(c, Heavy)' = 0
        BY <2>4, <2>5, <3>2
      <4>2. \A d \in Caller : Pending(d, Heavy)' <= Pending(d, Heavy)
        BY <2>4, <4>1
      <4> QED BY <1>0, <2>4, <4>2 DEF OverByOne
    <3> QED BY <3>1, <3>2
  <2> QED BY <2>2, <2>6, <2>7 DEF OverByOne
<1>3. ASSUME NEW c \in Caller, Claim(c) PROVE OverByOne'
  <2>1. /\ Claiming(c) /\ caller[c].pick \in Task /\ ~Claiming(c)'
        /\ \A d \in Caller \ {c} : caller'[d] = caller[d]
        /\ Cardinality(active') \in Nat
        /\ Cardinality(active') <= Cardinality(active) + 1
        /\ Cardinality(active' \cap Heavy) \in Nat
        /\ Cardinality(active' \cap Heavy) <=
              Cardinality(active \cap Heavy) + (IF caller[c].pick \in Heavy THEN 1 ELSE 0)
    BY <1>3, AfterClaim
  <2>2. /\ Pending(c, Task) = 1 /\ Pending(c, Task)' = 0
        /\ Pending(c, Heavy) = (IF caller[c].pick \in Heavy THEN 1 ELSE 0)
        /\ Pending(c, Heavy)' = 0
    BY <2>1, PendingSteps DEF Pending
  <2>3. \A d \in Caller : /\ Pending(d, Task) \in {0, 1} /\ Pending(d, Heavy) \in {0, 1}
                          /\ d # c => /\ Pending(d, Task)' = Pending(d, Task)
                                      /\ Pending(d, Heavy)' = Pending(d, Heavy)
    BY <2>1, PendingSteps
  <2>4. Cardinality(active') + Pending("ticker", Task)' + Pending("listener", Task)'
           <= MaxConcurrent + 1
    BY <1>0, <2>1, <2>2, <2>3 DEF OverByOne
  <2>5. Cardinality(active' \cap Heavy) + Pending("ticker", Heavy)' + Pending("listener", Heavy)'
           <= MaxHeavy + 1
    <3>1. Cardinality(active' \cap Heavy) <= Cardinality(active \cap Heavy) + Pending(c, Heavy)
      BY <2>1, <2>2
    <3> QED BY <1>0, <2>1, <2>2, <2>3, <3>1 DEF OverByOne
  <2> QED BY <2>4, <2>5 DEF OverByOne
<1> QED BY <1>1, <1>2, <1>3, ClaimSteps

\* Whatever the listener does while the ticker runs, no limit is exceeded by more
\* than one, for any limits and any number of tasks: each of the two can have
\* checked the last slot before the other claimed it, and no third claim follows.
THEOREM AtMostOneOver ==
    Spec => [](/\ Cardinality(active) <= MaxConcurrent + 1
               /\ Cardinality(active \cap Heavy) <= MaxHeavy + 1)
<1>1. Init => OverByOne
  <2> SUFFICES ASSUME Init PROVE OverByOne
    OBVIOUS
  <2>1. /\ active = {} /\ active \cap Heavy = {} /\ Cardinality({}) = 0
        /\ \A c \in Caller : \A S : Pending(c, S) = 0
    BY FS_EmptySet DEF Init, Pending, Claiming, Idle
  <2> QED BY <2>1, LoopConfig DEF OverByOne, LoopConfig, Caller
<1>2. Typed /\ OverByOne => /\ Cardinality(active) <= MaxConcurrent + 1
                            /\ Cardinality(active \cap Heavy) <= MaxHeavy + 1
  <2> SUFFICES ASSUME Typed, OverByOne
               PROVE  /\ Cardinality(active) <= MaxConcurrent + 1
                      /\ Cardinality(active \cap Heavy) <= MaxHeavy + 1
    OBVIOUS
  <2>1. Cardinality(active) \in Nat /\ Cardinality(active \cap Heavy) \in Nat
    BY Counts DEF Typed, TypeOK
  <2>2. \A S : Pending("ticker", S) \in {0, 1} /\ Pending("listener", S) \in {0, 1}
    BY DEF Pending
  <2> QED BY <2>1, <2>2, LoopConfig DEF OverByOne, LoopConfig
<1> QED BY <1>1, <1>2, AlwaysTyped, StepsOverByOne, PTL DEF Spec
\* Without messages the listener dispatches nothing.
LEMMA ListenerRests ==
    ASSUME Typed, ~Chats, caller["listener"].pc = "idle", [Next]_vars
    PROVE  caller'["listener"].pc = "idle"
<1>0. caller \in [Caller -> CallerState] /\ "listener" \in Caller
  BY DEF Typed, TypeOK, CallerState, Caller
<1>1. CASE Tick
  <2>1. \A c \in Caller : (Check(c) \/ Claim(c)) => c # "listener"
    BY DEF Check, Claim
  <2>2. CASE Reconcile
    BY <1>0, <2>2 DEF Reconcile
  <2>3. CASE ListTasks
    BY <1>0, <2>3 DEF ListTasks
  <2>4. CASE Dispatching("ticker")
    BY <1>0, <2>4 DEF Dispatching, Check, Claim, CreateIssue, RegisterDeps, Finish
  <2> QED BY <1>1, <2>2, <2>3, <2>4 DEF Tick
<1>2. CASE Chat
  BY <1>2 DEF Chat, ListForMessage, Dispatching, Check, Claim, CreateIssue, RegisterDeps, Finish
<1>3. CASE \E w \in Run : Dispatch(w)
  BY <1>3 DEF Dispatch, Mark, SetupFails, StartAgent, AgentEnds, RecordFailure, Complete, Close
<1>4. CASE User \/ (\E t \in Task : BackoffOver(t)) \/ Interrupt \/ Boot
  BY <1>4 DEF User, Open, Withdraw, Approve, Comment, BackoffOver, Interrupt, Boot
<1>5. CASE Shutdown \/ Crash
  BY <1>0, <1>5 DEF Shutdown, Crash, Gone, Idle
<1>6. CASE UNCHANGED vars
  BY <1>6 DEF vars
<1> QED BY <1>1, <1>2, <1>3, <1>4, <1>5, <1>6 DEF Next

\* Between the ticker's check and its claim, claims are only released.
LEMMA StepsTickerAlone ==
    ASSUME ~Chats
    PROVE  Typed /\ TickerAlone /\ [Next]_vars => TickerAlone'
<1> SUFFICES ASSUME Typed, TickerAlone, [Next]_vars PROVE TickerAlone'
  OBVIOUS
<1>0. active \subseteq Task /\ "ticker" \in Caller
  BY DEF Typed, TypeOK, Caller
<1>1. caller'["listener"].pc = "idle"
  BY ListenerRests DEF TickerAlone
<1>2. CASE NoNewClaim
  <2> SUFFICES ASSUME Claiming("ticker")'
               PROVE  HasSlot(caller["ticker"].pick)' /\ caller'["ticker"].pick \notin active'
    BY <1>1 DEF TickerAlone
  <2>1. Claiming("ticker") /\ caller'["ticker"].pick = caller["ticker"].pick
    BY <1>0, <1>2 DEF NoNewClaim
  <2> DEFINE t == caller["ticker"].pick
  <2>2. HasSlot(t) /\ t \notin active /\ active' \subseteq active
    BY <1>2, <2>1 DEF TickerAlone, NoNewClaim
  <2>3. \A u : HasSlot(u) => HasSlot(u)'
    BY <1>0, <2>2, StillASlot
  <2>4. HasSlot(caller["ticker"].pick)'
    BY <2>1, <2>2, <2>3 DEF HasSlot
  <2> QED BY <2>1, <2>2, <2>4
<1>3. ASSUME NEW c \in Caller, Checked(c) PROVE TickerAlone'
  <2>1. PICK l \in caller[c].rest : Passes(c, l) /\ caller'[c].pick = l.task
    BY <1>3 DEF Checked
  <2>2. UNCHANGED active /\ \A d \in Caller \ {c} : caller'[d] = caller[d]
    BY <1>3 DEF Checked, memory
  <2>3. HasSlot(l.task) /\ l.task \notin active
    BY <2>1 DEF Passes
  <2>4. CASE c = "ticker"
    BY <1>1, <2>1, <2>2, <2>3, <2>4 DEF TickerAlone, HasSlot
  <2>5. CASE c # "ticker"
    <3>1. caller'["ticker"] = caller["ticker"]
      BY <1>0, <2>2, <2>5
    <3> QED BY <1>1, <2>2, <3>1 DEF TickerAlone, Claiming, HasSlot
  <2> QED BY <2>4, <2>5
<1>4. ASSUME NEW c \in Caller, Claim(c) PROVE TickerAlone'
  <2>1. Claiming(c) /\ ~Claiming(c)'
    BY <1>4, AfterClaim
  <2>2. c = "ticker"
    BY <2>1 DEF TickerAlone, Claiming, Caller
  <2> QED BY <1>1, <2>1, <2>2 DEF TickerAlone
<1> QED BY <1>2, <1>3, <1>4, ClaimSteps

\* Without a chat in the room only the ticker dispatches.
LEMMA AlwaysTickerAlone ==
    ASSUME ~Chats
    PROVE  Spec => []TickerAlone
<1>1. Init => TickerAlone
  BY DEF Init, TickerAlone, Claiming, Idle, Caller
<1> QED BY <1>1, StepsTickerAlone, AlwaysTyped, PTL DEF Spec

\* The claim of a ticker that is alone stays within the limits.
LEMMA StepsWithinLimits ==
    Typed /\ TickerAlone /\ WithinLimits /\ [Next]_vars => WithinLimits'
<1> SUFFICES ASSUME Typed, TickerAlone, WithinLimits, [Next]_vars PROVE WithinLimits'
  OBVIOUS
<1>0. /\ active \in SUBSET Task /\ active \cap Heavy \in SUBSET Task
      /\ Cardinality(active) \in Nat /\ Cardinality(active \cap Heavy) \in Nat
      /\ MaxConcurrent \in Nat /\ MaxHeavy \in Nat
  <2>1. active \in SUBSET Task /\ active \cap Heavy \in SUBSET Task
    BY DEF Typed, TypeOK
  <2> QED BY <2>1, Counts, LoopConfig DEF LoopConfig
<1>1. CASE NoNewClaim
  <2>1. Cardinality(active') \in Nat /\ Cardinality(active') <= Cardinality(active)
    BY <1>0, <1>1, Counts DEF NoNewClaim
  <2>2. active' \cap Heavy \in SUBSET (active \cap Heavy)
    BY <1>1 DEF NoNewClaim
  <2>3. /\ Cardinality(active' \cap Heavy) \in Nat
        /\ Cardinality(active' \cap Heavy) <= Cardinality(active \cap Heavy)
    BY <1>0, <2>2, Counts
  <2> QED BY <1>0, <2>1, <2>3 DEF WithinLimits
<1>2. ASSUME NEW c \in Caller, Checked(c) PROVE WithinLimits'
  BY <1>2 DEF Checked, memory, WithinLimits
<1>3. ASSUME NEW c \in Caller, Claim(c) PROVE WithinLimits'
  <2> DEFINE t == caller[c].pick
  <2>1. /\ Claiming(c)
        /\ Cardinality(active') \in Nat
        /\ Cardinality(active') <= Cardinality(active) + 1
        /\ Cardinality(active' \cap Heavy) \in Nat
        /\ Cardinality(active' \cap Heavy) <=
              Cardinality(active \cap Heavy) + (IF t \in Heavy THEN 1 ELSE 0)
    BY <1>3, AfterClaim
  <2>2. c = "ticker"
    BY <2>1 DEF TickerAlone, Claiming, Caller
  <2>3. /\ Cardinality(active) < MaxConcurrent
        /\ t \in Heavy => Cardinality(active \cap Heavy) < MaxHeavy
    BY <2>1, <2>2 DEF TickerAlone, HasSlot
  <2> QED BY <1>0, <2>1, <2>3 DEF WithinLimits
<1> QED BY <1>1, <1>2, <1>3, ClaimSteps

\* When only the ticker dispatches, max_concurrent and the per-label limit are
\* kept, for any limits, tasks, trackers and number of dispatch goroutines, though
\* the check and the claim are two acquisitions of the lock.
THEOREM LimitsKept ==
    ASSUME ~Chats
    PROVE  Spec => []WithinLimits
<1>1. Init => WithinLimits
  BY FS_EmptySet, LoopConfig DEF Init, WithinLimits, LoopConfig
<1> QED BY <1>1, AlwaysTyped, AlwaysTickerAlone, StepsWithinLimits, PTL DEF Spec
-------------------------------------------------------------------------------
(* Claims and agents.                                                       *)

\* A goroutine that moves on, and may release its claim.
LEMMA DispatchKeepsClaims ==
    ASSUME Typed, AgentIsClaimed, NEW w \in Run, Dispatch(w)
    PROVE  AgentIsClaimed'
<1>0. run \in [Run -> [task : 0..NTasks, at : Phase]]
  BY DEF Typed, TypeOK
<1>1. \A v \in Run \ {w} : run'[v] = run[v]
  BY <1>0 DEF Dispatch, Mark, SetupFails, StartAgent, AgentEnds, RecordFailure, ReviewFails,
              Complete, Close, Goes
<1>2. CASE Mark(w) \/ StartAgent(w) \/ RecordFailure(w) \/ Complete(w) \/ Close(w)
  <2>1. UNCHANGED active
    BY <1>2 DEF Mark, StartAgent, RecordFailure, Complete, Close, memory
  <2>2. w \in Claimants' => w \in Claimants /\ run'[w].task = run[w].task
    BY <1>0, <1>2 DEF Mark, StartAgent, RecordFailure, ReviewFails, Complete, Close, Goes,
                      Claimants, NoRun
  <2>3. \A v \in Claimants' : v \in Claimants /\ run'[v].task = run[v].task
    BY <1>1, <2>2 DEF Claimants
  <2> QED BY <2>1, <2>3 DEF AgentIsClaimed
<1>3. CASE SetupFails(w) \/ AgentEnds(w)
  <2>1. active' = active \ {run[w].task}
    BY <1>3 DEF SetupFails, AgentEnds
  <2>2. w \in Claimants /\ w \notin Claimants'
    BY <1>0, <1>3 DEF SetupFails, AgentEnds, Goes, Claimants, NoRun
  <2>3. \A v \in Claimants' : /\ v # w /\ v \in Claimants
                              /\ run'[v].task = run[v].task
    BY <1>1, <2>2 DEF Claimants
  <2>4. \A v \in Claimants' : run[v].task # run[w].task
    BY <2>2, <2>3 DEF AgentIsClaimed
  <2> QED BY <2>1, <2>3, <2>4 DEF AgentIsClaimed
<1> QED BY <1>2, <1>3 DEF Dispatch

\* With no other path that takes claims away, every step keeps them.
LEMMA StepsAgentIsClaimed ==
    ASSUME ~Local, ~MayStall
    PROVE  Typed /\ TickerAlone /\ AgentIsClaimed /\ [Next]_vars => AgentIsClaimed'
<1> SUFFICES ASSUME Typed, TickerAlone, AgentIsClaimed, [Next]_vars
             PROVE  AgentIsClaimed'
  OBVIOUS
<1>0. run \in [Run -> [task : 0..NTasks, at : Phase]] /\ caller \in [Caller -> CallerState]
  BY DEF Typed, TypeOK, CallerState
<1>1. ASSUME UNCHANGED <<active, run>> PROVE AgentIsClaimed'
  BY <1>1 DEF AgentIsClaimed, Claimants
<1>2. CASE Reconcile
  <2>1. UNCHANGED active
    BY <1>2 DEF Reconcile, Terminal
  <2> QED BY <1>1, <1>2, <2>1 DEF Reconcile
<1>3. CASE ListTasks \/ ListForMessage
  BY <1>1, <1>3 DEF ListTasks, ListForMessage, memory
<1>4. ASSUME NEW c \in Caller, Check(c) \/ CreateIssue(c) \/ RegisterDeps(c) \/ Finish(c)
      PROVE  AgentIsClaimed'
  BY <1>1, <1>4 DEF Check, CreateIssue, RegisterDeps, Finish, memory
<1>5. ASSUME NEW c \in Caller, Claim(c) PROVE AgentIsClaimed'
  <2> DEFINE t == caller[c].pick
  <2>1. t \notin active
    <3>1. c = "ticker"
      BY <1>5 DEF Claim, TickerAlone, Claiming, Caller
    <3> QED BY <1>5, <3>1 DEF Claim, TickerAlone, Claiming
  <2>2. PICK w \in Run : /\ run[w].at = "free"
                         /\ run' = [run EXCEPT ![w] = [task |-> t, at |-> "claimed"]]
    BY <1>5 DEF Claim
  <2>3. run'[w].task = t /\ \A v \in Run \ {w} : run'[v] = run[v]
    BY <1>0, <2>2
  <2>4. \A v \in Claimants' : v # w => /\ v \in Claimants
                                       /\ run'[v].task \in active /\ run'[v].task # t
    BY <2>1, <2>3 DEF Claimants, AgentIsClaimed
  <2>5. active' = active \cup {t}
    BY <1>5 DEF Claim
  <2>6. \A v, u \in Claimants' : run'[v].task = run'[u].task => v = u
    BY <2>3, <2>4 DEF Claimants, AgentIsClaimed
  <2> QED BY <2>3, <2>4, <2>5, <2>6 DEF AgentIsClaimed
<1>6. ASSUME NEW w \in Run, Dispatch(w) PROVE AgentIsClaimed'
  BY <1>6, DispatchKeepsClaims
<1>7. CASE User \/ (\E t \in Task : BackoffOver(t)) \/ Interrupt \/ Boot
  BY <1>1, <1>7 DEF User, Open, Withdraw, Approve, Comment, BackoffOver, Interrupt, Boot, memory
<1>8. CASE Shutdown \/ Crash
  <2>1. run' = [w \in Run |-> NoRun]
    BY <1>8 DEF Shutdown, Crash, Gone
  <2>2. Claimants' = {}
    BY <2>1 DEF Claimants, NoRun
  <2> QED BY <2>2 DEF AgentIsClaimed
<1>9. CASE UNCHANGED vars
  BY <1>1, <1>9 DEF vars, memory
<1>10. CASE Tick \/ Chat
  <2>1. ASSUME NEW c \in Caller, Dispatching(c) PROVE AgentIsClaimed'
    BY <1>4, <1>5, <2>1 DEF Dispatching
  <2> QED BY <1>2, <1>3, <1>10, <2>1 DEF Tick, Chat, Caller
<1> QED BY <1>6, <1>7, <1>8, <1>9, <1>10 DEF Next

\* On GitHub, when only the ticker dispatches and no run is given up as stalled: a
\* goroutine that works on a task has its claim, and no second one works on it,
\* through failures, reviews, retries, shutdowns and crashes, for any number of
\* tasks and goroutines.
THEOREM AgentsKeepClaims ==
    ASSUME ~Chats, ~Local, ~MayStall
    PROVE  Spec => []AgentIsClaimed
<1>1. Init => AgentIsClaimed
  BY DEF Init, AgentIsClaimed, Claimants, NoRun
<1> QED BY <1>1, AlwaysTyped, AlwaysTickerAlone, StepsAgentIsClaimed, PTL DEF Spec

-------------------------------------------------------------------------------
(* Dependencies.                                                            *)

\* What works in a process that is down: nothing.
LEMMA StepsDownIsQuiet == Typed /\ DownIsQuiet /\ [Next]_vars => DownIsQuiet'
<1> SUFFICES ASSUME Typed, DownIsQuiet, [Next]_vars PROVE DownIsQuiet'
  OBVIOUS
<1>1. ASSUME proc' # "down" PROVE DownIsQuiet'
  BY <1>1 DEF DownIsQuiet
<1>2. ASSUME proc' = proc, proc # "down" PROVE DownIsQuiet'
  BY <1>1, <1>2
<1>3. ASSUME UNCHANGED <<active, run, caller, proc>> PROVE DownIsQuiet'
  BY <1>3 DEF DownIsQuiet
<1>4. \A c \in Caller : caller[c].pc # "idle" => proc # "down"
  BY DEF DownIsQuiet, Idle
<1>5. \A w \in Run : run[w].at # "free" => proc # "down"
  BY DEF DownIsQuiet, NoRun
<1>6. ASSUME NEW c \in Caller, Dispatching(c) PROVE DownIsQuiet'
  <2>1. caller[c].pc # "idle" /\ UNCHANGED proc
    BY <1>6 DEF Dispatching, Check, Claim, CreateIssue, RegisterDeps, Finish
  <2> QED BY <1>2, <1>4, <2>1
<1>7. CASE Tick \/ Chat
  <2>1. CASE Reconcile \/ ListForMessage
    BY <1>2, <2>1 DEF Reconcile, ListForMessage, Up
  <2>2. CASE ListTasks
    BY <1>2, <1>4, <2>2 DEF ListTasks, Caller
  <2> QED BY <1>6, <1>7, <2>1, <2>2 DEF Tick, Chat, Caller
<1>8. ASSUME NEW w \in Run, Dispatch(w) PROVE DownIsQuiet'
  <2>1. run[w].at # "free" /\ UNCHANGED proc
    BY <1>8 DEF Dispatch, Mark, SetupFails, StartAgent, AgentEnds, RecordFailure, ReviewFails,
                Complete, Close, Goes
  <2> QED BY <1>2, <1>5, <2>1
<1>9. CASE User \/ \E t \in Task : BackoffOver(t)
  BY <1>3, <1>9 DEF User, Open, Withdraw, Approve, Comment, BackoffOver, memory
<1>10. CASE Interrupt \/ Boot
  BY <1>1, <1>10 DEF Interrupt, Boot
<1>11. CASE Shutdown \/ Crash
  BY <1>11 DEF Shutdown, Crash, Gone, DownIsQuiet
<1>12. CASE UNCHANGED vars
  BY <1>3, <1>12 DEF vars, memory
<1> QED BY <1>7, <1>8, <1>9, <1>10, <1>11, <1>12 DEF Next

\* An issue that has closed stays closed, and none ceases to exist.
LEMMA ClosedStays ==
    ASSUME Typed, [Next]_vars, NEW t \in Task
    PROVE  /\ issue[t] = "closed" => issue'[t] = "closed"
           /\ issue[t] # "absent" => issue'[t] # "absent"
<1>0. issue \in [Task -> {"absent", "open", "closed"}]
  BY DEF Typed, TypeOK
<1>1. CASE Tick \/ Chat
  <2>1. ASSUME NEW c \in Caller, CreateIssue(c)
        PROVE  issue[t] # "absent" => issue'[t] = issue[t]
    BY <1>0, <2>1 DEF CreateIssue, Opens
  <2>2. CASE UNCHANGED issue
    BY <2>2
  <2>3. UNCHANGED issue \/ \E c \in Caller : CreateIssue(c)
    BY <1>1 DEF Tick, Chat, Reconcile, ListTasks, ListForMessage, Dispatching, Check, Claim,
                RegisterDeps, Finish, tracker, Caller
  <2> QED BY <2>1, <2>2, <2>3
<1>2. CASE \E w \in Run : Dispatch(w)
  BY <1>0, <1>2 DEF Dispatch, Mark, SetupFails, StartAgent, AgentEnds, RecordFailure, Complete,
                    Close, CloseIssue, tracker
<1>3. CASE User
  BY <1>0, <1>3 DEF User, Open, Opens, Withdraw, CloseIssue, Approve, Comment
<1>4. CASE (\E u \in Task : BackoffOver(u)) \/ Interrupt \/ Shutdown \/ Crash \/ Boot
  BY <1>4 DEF BackoffOver, Interrupt, Shutdown, Crash, Boot, tracker
<1>5. CASE UNCHANGED vars
  BY <1>5 DEF vars, tracker
<1> QED BY <1>1, <1>2, <1>3, <1>4, <1>5 DEF Next

\* What a caller has still to go through, it had or has just listed.
LEMMA RestSteps ==
    ASSUME Typed, [Next]_vars, NEW c \in Caller
    PROVE  caller'[c].rest \subseteq caller[c].rest \cup ListActive
<1>0. /\ caller \in [Caller -> CallerState]
      /\ "ticker" \in Caller /\ "listener" \in Caller
  BY DEF Typed, TypeOK, CallerState, Caller
<1>1. CASE caller' = caller \/ caller' = [d \in Caller |-> Idle]
  BY <1>1 DEF Idle
<1>2. CASE Reconcile
  BY <1>0, <1>2 DEF Reconcile, CallerState
<1>3. CASE ListTasks
  <2>1. \A d \in Caller : d # "ticker" => caller'[d] = caller[d]
    BY <1>0, <1>3 DEF ListTasks
  <2>2. caller'["ticker"].rest \in {{}, ListActive}
    <3>1. CASE ~Reachable
      BY <1>0, <1>3, <3>1 DEF ListTasks, Idle
    <3>2. CASE Reachable /\ SnapshotHash(Tasks(ListActive)) = seen
      BY <1>0, <1>3, <3>2 DEF ListTasks, Idle
    <3>3. CASE Reachable /\ SnapshotHash(Tasks(ListActive)) # seen
      BY <1>0, <1>3, <3>3 DEF ListTasks, Idle
    <3> QED BY <3>1, <3>2, <3>3
  <2> QED BY <2>1, <2>2
<1>4. CASE ListForMessage
  BY <1>0, <1>4 DEF ListForMessage, Idle
<1>5. ASSUME NEW d \in Caller, Dispatching(d)
      PROVE  caller'[c].rest \subseteq caller[c].rest \cup ListActive
  <2>1. CASE Check(d)
    BY <1>0, <2>1 DEF Check, Turn, CallerState
  <2>2. CASE Claim(d)
    BY <1>0, <2>2 DEF Claim, CallerState
  <2>3. CASE CreateIssue(d)
    BY <1>0, <2>3 DEF CreateIssue, CallerState
  <2>4. CASE RegisterDeps(d)
    BY <1>0, <2>4 DEF RegisterDeps, CallerState
  <2>5. CASE Finish(d)
    BY <1>0, <2>5 DEF Finish, Idle
  <2> QED BY <1>5, <2>1, <2>2, <2>3, <2>4, <2>5 DEF Dispatching
<1>6. CASE Tick \/ Chat
  BY <1>0, <1>2, <1>3, <1>4, <1>5, <1>6 DEF Tick, Chat
<1>7. CASE \E w \in Run : Dispatch(w)
  BY <1>1, <1>7 DEF Dispatch, Mark, SetupFails, StartAgent, AgentEnds, RecordFailure, Complete,
                    Close
<1>8. CASE User \/ (\E t \in Task : BackoffOver(t)) \/ Interrupt \/ Boot
  BY <1>1, <1>8 DEF User, Open, Withdraw, Approve, Comment, BackoffOver, Interrupt, Boot
<1>9. CASE Shutdown \/ Crash
  BY <1>1, <1>9 DEF Shutdown, Crash, Gone
<1>10. CASE UNCHANGED vars
  BY <1>1, <1>10 DEF vars
<1> QED BY <1>6, <1>7, <1>8, <1>9, <1>10 DEF Next

\* A goroutine works on the task it was started for.
LEMMA RunSteps ==
    ASSUME Typed, [Next]_vars, NEW w \in Run, run'[w].at # "free"
    PROVE  \/ run[w].at # "free" /\ run'[w].task = run[w].task
           \/ \E c \in Caller : Claiming(c) /\ run'[w].task = caller[c].pick
<1>0. /\ run \in [Run -> [task : 0..NTasks, at : Phase]]
      /\ "ticker" \in Caller /\ "listener" \in Caller
  BY DEF Typed, TypeOK, Caller
<1>1. CASE run' = run
  BY <1>1
<1>2. ASSUME NEW c \in Caller, Claim(c)
      PROVE  \/ run[w].at # "free" /\ run'[w].task = run[w].task
             \/ Claiming(c) /\ run'[w].task = caller[c].pick
  <2>1. PICK v \in Run : run' = [run EXCEPT ![v] = [task |-> caller[c].pick, at |-> "claimed"]]
    BY <1>2 DEF Claim
  <2>2. CASE v = w
    BY <1>0, <1>2, <2>1, <2>2 DEF Claim, Claiming
  <2>3. CASE v # w
    BY <1>0, <2>1, <2>3
  <2> QED BY <2>2, <2>3
<1>3. CASE Tick \/ Chat
  BY <1>0, <1>1, <1>2, <1>3 DEF Tick, Chat, Reconcile, ListTasks, ListForMessage, Dispatching, Check,
                                CreateIssue, RegisterDeps, Finish
<1>4. ASSUME NEW v \in Run, Dispatch(v)
      PROVE  run[w].at # "free" /\ run'[w].task = run[w].task
  <2>1. PICK from \in Phase \ {"free"}, to \in Phase : Goes(v, from, to)
    BY <1>4 DEF Dispatch, Mark, SetupFails, StartAgent, AgentEnds, RecordFailure, ReviewFails,
                Complete, Close, Phase
  <2>2. CASE v = w
    <3>1. run[v].at # "free"
      BY <2>1 DEF Goes
    <3>2. to # "free"
      BY <1>0, <2>1, <2>2 DEF Goes, NoRun
    <3> QED BY <1>0, <2>1, <2>2, <3>1, <3>2 DEF Goes
  <2>3. CASE v # w
    BY <1>0, <2>1, <2>3 DEF Goes
  <2> QED BY <2>2, <2>3
<1>5. CASE User \/ (\E t \in Task : BackoffOver(t)) \/ Interrupt \/ Boot
  BY <1>1, <1>5 DEF User, Open, Withdraw, Approve, Comment, BackoffOver, Interrupt, Boot
<1>6. CASE Shutdown \/ Crash
  BY <1>6 DEF Shutdown, Crash, Gone, NoRun
<1>7. CASE UNCHANGED vars
  BY <1>1, <1>7 DEF vars
<1> QED BY <1>3, <1>4, <1>5, <1>6, <1>7 DEF Next

\* What is listed, claimed and worked on exists.
LEMMA StepsListedExist ==
    Typed /\ ListedExist /\ [Next]_vars => ListedExist'
<1> SUFFICES ASSUME Typed, ListedExist, [Next]_vars PROVE ListedExist'
  OBVIOUS
<1>0. /\ caller \in [Caller -> CallerState] /\ lastTasks \subseteq Listed
      /\ run \in [Run -> [task : 0..NTasks, at : Phase]]
      /\ \A l \in Listed : l.task \in Task
      /\ "ticker" \in Caller /\ "listener" \in Caller
  BY DEF Typed, TypeOK, CallerState, Caller, Listed
<1>1. \A t \in Task : issue[t] # "absent" => issue'[t] # "absent"
  BY ClosedStays
<1>2. \A l \in ListActive : issue'[l.task] # "absent"
  <2>1. \A l \in AsListed(ActiveTasks) : issue'[l.task] # "absent"
    BY <1>1 DEF AsListed, ActiveTasks
  <2>2. \A l \in lastTasks : issue'[l.task] # "absent"
    BY <1>0, <1>1 DEF ListedExist
  <2>3. ListActive \subseteq AsListed(ActiveTasks) \cup lastTasks
    BY DEF ListActive, AsListed
  <2> QED BY <2>1, <2>2, <2>3
<1>3. \A l \in lastTasks' : issue'[l.task] # "absent"
  <2>1. lastTasks' \subseteq lastTasks \cup ListActive
    <3>1. CASE Tick \/ Chat
      BY <3>1 DEF Tick, Chat, Reconcile, ListTasks, ListForMessage, Fetch, Dispatching, Check,
                  Claim, CreateIssue, Opens, Touch, RegisterDeps, Finish, tracker
    <3>2. CASE \E w \in Run : Dispatch(w)
      BY <3>2 DEF Dispatch, Mark, SetupFails, StartAgent, AgentEnds, RecordFailure, Complete,
                  Close, CloseIssue, Relabel, Touch, tracker
    <3>3. CASE User \/ \E t \in Task : BackoffOver(t)
      BY <3>3 DEF User, Open, Opens, Withdraw, CloseIssue, Approve, Relabel, Comment, Touch,
                  BackoffOver, tracker
    <3>4. CASE Interrupt \/ Shutdown \/ Crash \/ Boot
      BY <3>4 DEF Interrupt, Shutdown, Crash, Gone, Boot, tracker
    <3>5. CASE UNCHANGED vars
      BY <3>5 DEF vars, tracker
    <3> QED BY <3>1, <3>2, <3>3, <3>4, <3>5 DEF Next
  <2>2. \A l \in lastTasks : issue'[l.task] # "absent"
    BY <1>0, <1>1 DEF ListedExist
  <2> QED BY <1>2, <2>1, <2>2
<1>4. ASSUME NEW c \in Caller, NEW l \in caller'[c].rest PROVE issue'[l.task] # "absent"
  <2>1. caller'[c].rest \subseteq caller[c].rest \cup ListActive
    BY RestSteps
  <2>2. \A k \in caller[c].rest : issue'[k.task] # "absent"
    BY <1>0, <1>1 DEF ListedExist, CallerState
  <2> QED BY <1>2, <2>1, <2>2
<1>5. \A c \in Caller : Claiming(c) => issue'[caller[c].pick] # "absent"
  BY <1>1 DEF ListedExist, Typed, PicksTask
<1>6. ASSUME NEW c \in Caller, Claiming(c)' PROVE issue'[caller'[c].pick] # "absent"
  <2>1. CASE NoNewClaim
    BY <1>5, <1>6, <2>1 DEF NoNewClaim
  <2>2. ASSUME NEW d \in Caller, Checked(d) PROVE issue'[caller'[c].pick] # "absent"
    <3>1. CASE c = d
      <4>1. PICK l \in caller[d].rest : Passes(d, l) /\ caller'[d].pick = l.task
        BY <2>2 DEF Checked
      <4>2. issue[l.task] # "absent" /\ l.task \in Task
        BY <1>0 DEF ListedExist, CallerState
      <4> QED BY <1>1, <3>1, <4>1, <4>2
    <3>2. CASE c # d
      BY <1>5, <1>6, <2>2, <3>2 DEF Checked, Claiming
    <3> QED BY <3>1, <3>2
  <2>3. ASSUME NEW d \in Caller, Claim(d) PROVE issue'[caller'[c].pick] # "absent"
    <3>1. c # d /\ caller'[c] = caller[c]
      BY <1>6, <2>3, AfterClaim
    <3> QED BY <1>5, <1>6, <3>1 DEF Claiming
  <2> QED BY <2>1, <2>2, <2>3, ClaimSteps
<1>7. ASSUME NEW w \in Run, run'[w].at # "free"
      PROVE  run'[w].task \in Task /\ issue'[run'[w].task] # "absent"
  <2>1. CASE run[w].at # "free" /\ run'[w].task = run[w].task
    <3>1. run[w].task \in Task /\ issue[run[w].task] # "absent"
      BY <2>1 DEF ListedExist
    <3> QED BY <1>1, <2>1, <3>1
  <2>2. CASE \E c \in Caller : Claiming(c) /\ run'[w].task = caller[c].pick
    BY <1>5, <2>2 DEF Typed, PicksTask
  <2> QED BY <1>7, <2>1, <2>2, RunSteps
<1> QED BY <1>3, <1>4, <1>6, <1>7 DEF ListedExist

\* Memory keeps the dependencies while issues are created and closed; Shutdown saves
\* what Boot restores.
LEMMA StepsDepsKept ==
    ASSUME "crash" \notin StopsBy, Typed, TickerAlone, DownIsQuiet, ListedExist, DepsKept,
           [Next]_vars, ~Chats
    PROVE  DepsKept'
<1>0. /\ caller \in [Caller -> CallerState] /\ Caller = {"ticker", "listener"}
      /\ issue \in [Task -> {"absent", "open", "closed"}]
      /\ deps \in [Task -> SUBSET Task]
  BY DEF Typed, TypeOK, CallerState, Caller
<1>1. ASSUME UNCHANGED <<issue, deps, saved, proc>>, caller'["ticker"].subs = caller["ticker"].subs,
             \/ caller'["ticker"].pc \notin {"creating", "registering"}
                   => caller["ticker"].pc \notin {"creating", "registering"}
      PROVE  DepsKept'
  BY <1>1 DEF DepsKept
<1>2. ASSUME UNCHANGED <<deps, saved, proc, caller>>,
             \A t \in Task : issue'[t] = "absent" <=> issue[t] = "absent"
      PROVE  DepsKept'
  BY <1>0, <1>2 DEF DepsKept, CallerState
<1>3. CASE UNCHANGED <<issue, deps, saved, proc, caller>>
  BY <1>2, <1>3
<1>4. CASE Tick \/ Chat
  <2>1. ASSUME NEW c \in Caller, Dispatching(c) PROVE c = "ticker"
    BY <1>0, <2>1 DEF TickerAlone, Dispatching, Check, Claim, CreateIssue, RegisterDeps, Finish
  <2>2. CASE Reconcile
    BY <1>0, <1>1, <2>2 DEF Reconcile, CallerState, tracker
  <2>3. CASE ListTasks
    <3>1. /\ UNCHANGED <<issue, deps, saved, proc>>
          /\ caller["ticker"].pc = "reconciled"
      BY <2>3 DEF ListTasks, memory
    <3>2. caller'["ticker"].subs = {}
      <4>1. CASE ~Reachable
        BY <1>0, <2>3, <4>1 DEF ListTasks, Idle
      <4>2. CASE Reachable /\ SnapshotHash(Tasks(ListActive)) = seen
        BY <1>0, <2>3, <4>2 DEF ListTasks, Idle
      <4>3. CASE Reachable /\ SnapshotHash(Tasks(ListActive)) # seen
        BY <1>0, <2>3, <4>3 DEF ListTasks, Idle
      <4> QED BY <4>1, <4>2, <4>3
    <3>3. caller["ticker"].subs = {}
      BY <3>1 DEF DepsKept
    <3> QED BY <1>1, <3>1, <3>2, <3>3
  <2>4. CASE Check("ticker")
    <3>1. /\ UNCHANGED <<issue, deps, saved, proc>>
          /\ caller["ticker"].pc = "dispatching"
      BY <2>4 DEF Check, memory, tracker
    <3>2. caller'["ticker"].subs = caller["ticker"].subs
      BY <1>0, <2>4 DEF Check, Turn, CallerState
    <3> QED BY <1>1, <3>1, <3>2
  <2>5. CASE Claim("ticker")
    BY <1>0, <1>1, <2>5 DEF Claim, CallerState, tracker
  <2>6. CASE Finish("ticker")
    <3>1. /\ UNCHANGED <<issue, deps, saved, proc>>
          /\ caller["ticker"].pc = "dispatching"
          /\ caller' = [caller EXCEPT !["ticker"] = Idle]
      BY <2>6 DEF Finish, memory, tracker
    <3>2. caller["ticker"].subs = {} /\ caller'["ticker"].subs = {}
      BY <1>0, <3>1 DEF DepsKept, Idle
    <3> QED BY <1>1, <3>1, <3>2
  <2>7. CASE CreateIssue("ticker")
    <3>1. PICK t \in Task :
            /\ Opens(t)
            /\ caller' = [caller EXCEPT !["ticker"].pc = "creating",
                                        !["ticker"].subs = @ \cup {t}]
      BY <2>7, CreatedTasks DEF CreateIssue
    <3>2. /\ caller'["ticker"].pc = "creating"
          /\ caller'["ticker"].subs = caller["ticker"].subs \cup {t}
      BY <1>0, <3>1 DEF CallerState
    <3>3. issue[t] = "absent" /\ \A u \in Task \ {t} : issue'[u] = issue[u]
      BY <1>0, <3>1 DEF Opens
    <3>4. UNCHANGED <<deps, saved, proc>>
      BY <2>7 DEF CreateIssue, memory
    <3>5. ASSUME NEW u \in Task
          PROVE  (IF proc' = "down" THEN saved'.deps[u] ELSE deps'[u]) =
                 IF issue'[u] = "absent" \/ u \in caller'["ticker"].subs THEN {} ELSE Deps[u]
      <4>1. CASE u = t
        BY <3>2, <3>3, <3>4, <4>1 DEF DepsKept
      <4>2. CASE u # t
        BY <3>2, <3>3, <3>4, <4>2 DEF DepsKept
      <4> QED BY <4>1, <4>2
    <3>6. \A u \in caller'["ticker"].subs : issue'[u] # "absent"
      <4>1. issue'[t] = "open"
        BY <1>0, <3>1 DEF Opens
      <4> QED BY <1>0, <3>2, <3>3, <4>1 DEF DepsKept, CallerState
    <3> QED BY <3>2, <3>5, <3>6 DEF DepsKept
  <2>8. CASE RegisterDeps("ticker")
    <3>1. PICK t \in caller["ticker"].subs :
          /\ deps' = [deps EXCEPT ![t] = Deps[t]]
          /\ caller' = [caller EXCEPT
                            !["ticker"].subs = @ \ {t},
                            !["ticker"].pc = IF caller["ticker"].subs = {t} THEN "dispatching"
                                                                            ELSE "registering"]
      BY <2>8 DEF RegisterDeps
    <3>2. /\ caller'["ticker"].subs = caller["ticker"].subs \ {t}
          /\ caller'["ticker"].pc = IF caller["ticker"].subs = {t} THEN "dispatching"
                                                                  ELSE "registering"
      BY <1>0, <3>1 DEF CallerState
    <3>3. proc # "down" /\ UNCHANGED <<issue, saved, proc>>
      BY <2>8 DEF RegisterDeps, tracker, DownIsQuiet, Idle, Caller
    <3>4. t \in Task
      BY <1>0 DEF CallerState
    <3>5. issue[t] # "absent"
      BY DEF DepsKept
    <3>6. ASSUME NEW u \in Task
          PROVE  deps'[u] = IF issue'[u] = "absent" \/ u \in caller'["ticker"].subs
                            THEN {} ELSE Deps[u]
      <4>1. CASE u = t
        BY <1>0, <3>1, <3>2, <3>3, <3>4, <3>5, <4>1
      <4>2. CASE u # t
        BY <1>0, <3>1, <3>2, <3>3, <4>2 DEF DepsKept
      <4> QED BY <4>1, <4>2
    <3> QED BY <3>2, <3>3, <3>6 DEF DepsKept
  <2>9. ~ListForMessage
    BY DEF ListForMessage
  <2> QED BY <1>0, <1>4, <2>1, <2>2, <2>3, <2>4, <2>5, <2>6, <2>7, <2>8, <2>9
             DEF Tick, Chat, Dispatching
<1>5. ASSUME NEW w \in Run, Dispatch(w) PROVE DepsKept'
  <2>1. UNCHANGED <<deps, saved, proc, caller>>
    BY <1>5 DEF Dispatch, Mark, SetupFails, StartAgent, AgentEnds, RecordFailure, Complete,
                Close, memory
  <2>2. \A t \in Task : issue'[t] = "absent" <=> issue[t] = "absent"
    <3>1. CASE UNCHANGED issue
      BY <3>1
    <3>2. CASE Close(w)
      BY <1>0, <3>2 DEF Close, CloseIssue, Goes, ListedExist
    <3> QED BY <1>5, <3>1, <3>2 DEF Dispatch, Mark, SetupFails, StartAgent, AgentEnds,
                                    RecordFailure, Complete, tracker
  <2> QED BY <1>2, <2>1, <2>2
<1>6. ASSUME NEW t \in Task, Open(t) PROVE DepsKept'
  <2>1. UNCHANGED <<deps, saved, proc, caller>>
    BY <1>6 DEF Open, memory
  <2>2. Deps[t] = {} /\ issue[t] = "absent" /\ \A u \in Task \ {t} : issue'[u] = issue[u]
    BY <1>0, <1>6 DEF Open, Opens, Created
  <2>3. ASSUME NEW u \in Task
        PROVE  (IF proc = "down" THEN saved.deps[u] ELSE deps[u]) =
               IF issue'[u] = "absent" \/ u \in caller["ticker"].subs THEN {} ELSE Deps[u]
    BY <2>2 DEF DepsKept
  <2>4. \A u \in caller["ticker"].subs : issue'[u] # "absent"
    BY <1>0, <2>2 DEF DepsKept, CallerState
  <2> QED BY <2>1, <2>3, <2>4 DEF DepsKept
<1>7. ASSUME NEW t \in Task, Withdraw(t) PROVE DepsKept'
  BY <1>0, <1>2, <1>7 DEF Withdraw, CloseIssue, memory
<1>8. ASSUME NEW t \in Task, Approve(t) \/ Comment(t) \/ BackoffOver(t) PROVE DepsKept'
  BY <1>3, <1>8 DEF Approve, Comment, BackoffOver, memory, tracker
<1>9. CASE Interrupt
  BY <1>9 DEF Interrupt, memory, tracker, DepsKept, Up
<1>10. CASE Shutdown
  <2>1. /\ saved' = [retry |-> retry, deps |-> deps] /\ UNCHANGED issue
        /\ proc = "stopping" /\ proc' = "down" /\ caller["ticker"].pc = "idle"
        /\ caller' = [c \in Caller |-> Idle]
    BY <1>10 DEF Shutdown, SaveState, Gone
  <2>2. caller["ticker"].subs = {} /\ caller'["ticker"].subs = {}
    BY <1>0, <2>1 DEF DepsKept, Idle
  <2> QED BY <2>1, <2>2 DEF DepsKept
<1>11. CASE Crash
  BY <1>11 DEF Crash
<1>12. CASE Boot
  BY <1>12 DEF Boot, DepsKept, tracker
<1>13. CASE UNCHANGED vars
  BY <1>3, <1>13 DEF vars, memory, tracker
<1> QED BY <1>4, <1>5, <1>6, <1>7, <1>8, <1>9, <1>10, <1>11, <1>12, <1>13 DEF Next, User

\* A check that passes finds every dependency closed, and closed they stay.
LEMMA StepsPicksReady ==
    ASSUME Typed, TickerAlone, DepsKept, ListedExist, DownIsQuiet, PicksReady, [Next]_vars
    PROVE  PicksReady'
<1>0. Deps \in [Task -> SUBSET Task] /\ caller \in [Caller -> CallerState]
  BY LoopConfig DEF LoopConfig, Typed, TypeOK, CallerState
<1>1. \A c \in Caller : Claiming(c) => \A d \in Deps[caller[c].pick] : issue'[d] = "closed"
  <2> SUFFICES ASSUME NEW c \in Caller, Claiming(c), NEW d \in Deps[caller[c].pick]
               PROVE  issue'[d] = "closed"
    OBVIOUS
  <2>1. caller[c].pick \in Task
    BY DEF Typed, PicksTask
  <2>2. d \in Task /\ issue[d] = "closed"
    BY <1>0, <2>1 DEF PicksReady
  <2> QED BY <2>2, ClosedStays
<1>2. CASE NoNewClaim
  BY <1>1, <1>2 DEF NoNewClaim, PicksReady, Claiming
<1>3. ASSUME NEW c \in Caller, Checked(c) PROVE PicksReady'
  <2>1. PICK l \in caller[c].rest : Passes(c, l) /\ caller'[c].pick = l.task
    BY <1>3 DEF Checked
  <2>2. /\ UNCHANGED <<issue, active, deps, proc>>
        /\ \A d \in Caller \ {c} : caller'[d] = caller[d]
    BY <1>3 DEF Checked, memory, tracker
  <2>3. c = "ticker" /\ caller[c].pc = "dispatching" /\ proc # "down"
    BY <1>3 DEF Checked, TickerAlone, DownIsQuiet, Idle, Caller
  <2>4. l.task \in Task /\ issue[l.task] # "absent"
    BY <1>0 DEF ListedExist, CallerState, Listed
  <2>5. deps[l.task] = Deps[l.task]
    BY <2>3, <2>4 DEF DepsKept
  <2>6. \A d \in Deps[l.task] : issue[d] = "closed"
    BY <2>1, <2>5 DEF Passes, DepsAreMet, Terminal
  <2> QED BY <1>1, <2>1, <2>2, <2>6 DEF PicksReady, Claiming
<1>4. ASSUME NEW c \in Caller, Claim(c) PROVE PicksReady'
  <2>1. ~Claiming(c)' /\ \A d \in Caller \ {c} : caller'[d] = caller[d]
    BY <1>4, AfterClaim
  <2> QED BY <1>1, <2>1 DEF PicksReady, Claiming
<1> QED BY <1>2, <1>3, <1>4, ClaimSteps

\* When only the ticker dispatches and no process is killed: a task is claimed only
\* after every task it depends on has closed, though create_subtasks registers the
\* dependencies after it has created the issues, some of them or all, though the list
\* is stale, and through any number of graceful restarts.
THEOREM DependenciesCloseFirst ==
    ASSUME ~Chats, "crash" \notin StopsBy
    PROVE  Spec => DependenciesFirst
<1>1. Init => DepsKept /\ ListedExist /\ DownIsQuiet /\ PicksReady
  BY DEF Init, DepsKept, ListedExist, DownIsQuiet, PicksReady, Claiming, Idle, NoRun, Caller
<1>2. Typed /\ PicksReady /\ [Next]_vars =>
         [\A t \in active' \ active : \A d \in Deps[t] : issue[d] = "closed"]_vars
  <2> SUFFICES ASSUME Typed, PicksReady, [Next]_vars, NEW t \in active' \ active,
                      NEW d \in Deps[t]
               PROVE  issue[d] = "closed"
    OBVIOUS
  <2>1. PICK c \in Caller : Claim(c)
    BY ClaimSteps DEF NoNewClaim, Checked, memory
  <2>2. Claiming(c) /\ t = caller[c].pick
    BY <2>1, AfterClaim
  <2> QED BY <2>2 DEF PicksReady
<1>3. /\ Typed /\ TickerAlone /\ DownIsQuiet /\ ListedExist /\ DepsKept /\ PicksReady
      /\ [Next]_vars
      => DownIsQuiet' /\ ListedExist' /\ DepsKept' /\ PicksReady'
  BY StepsDepsKept, StepsListedExist, StepsDownIsQuiet, StepsPicksReady
<1>4. Spec => [](Typed /\ PicksReady)
  BY <1>1, <1>3, AlwaysTyped, AlwaysTickerAlone, PTL DEF Spec
<1> QED BY <1>2, <1>4, PTL DEF Spec, DependenciesFirst
===============================================================================
