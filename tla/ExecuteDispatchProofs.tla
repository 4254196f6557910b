------------------------ MODULE ExecuteDispatchProofs -------------------------
(***************************************************************************)
(* Proofs about ExecuteDispatch, for every set of plans and every number of *)
(* dispatches.                                                              *)
(***************************************************************************)
EXTENDS ExecuteDispatch, FiniteSetTheorems, WellFoundedInduction, TLAPS

USE DEF Alive, Installed, Waiting

-------------------------------------------------------------------------------
(* Lemmas about the helpers.                                                *)

\* The next run's number follows that of the last one dispatched.
LEMMA NextRunFollows ==
    ASSUME NEW last \in 0..MaxRuns, \A r \in Run : go[r] # "none" <=> r <= last
    PROVE  NextRun = last + 1
<1>1. {r \in Run : go[r] # "none"} = 1..last
  BY DispatchConstants DEF Run, DispatchConstants
<1>2. Cardinality(1..last) = last
  BY FS_Interval, DispatchConstants DEF DispatchConstants
<1> QED BY <1>1, <1>2 DEF NextRun

\* The next run is one that was not dispatched, and later than all that were.
LEMMA NextRunIsNew ==
    ASSUME InOrder, NextRun \in Run
    PROVE  /\ go[NextRun] = "none"
           /\ \A r \in Run : go[r] # "none" => r < NextRun
<1>1. PICK last \in 0..MaxRuns : \A r \in Run : go[r] # "none" <=> r <= last
  BY DEF InOrder
<1>2. NextRun = last + 1
  BY <1>1, NextRunFollows
<1> QED BY <1>1, <1>2, DispatchConstants DEF Run, DispatchConstants

\* Newest picks a member of a set of runs that is not empty.
LEMMA NewestMember ==
    ASSUME NEW S \in SUBSET Run, S # {}
    PROVE  Newest(S) \in S
<1> DEFINE Above == {MaxRuns - r : r \in S}
<1>1. Above \in SUBSET Nat /\ Above # {}
  <2>1. \A r \in Run : MaxRuns - r \in Nat
    BY DispatchConstants DEF Run, DispatchConstants
  <2> QED BY <2>1
<1>2. PICK d \in Above : \A e \in Above : ~ (<<e, d>> \in OpToRel(<, Nat))
  <2> HIDE DEF Above
  <2> QED BY <1>1, WFMin, NatLessThanWellFounded
<1>3. \A e \in Above : d <= e
  <2> HIDE DEF Above
  <2>1. \A e \in Above : ~ (e < d)
    BY <1>1, <1>2 DEF OpToRel
  <2> QED BY <1>1, <2>1
<1>4. PICK r \in S : d = MaxRuns - r
  OBVIOUS
<1>5. \A q \in S : MaxRuns - r <= MaxRuns - q
  BY <1>3, <1>4
<1>6. \A q \in S : q <= r
  BY <1>5, DispatchConstants DEF Run, DispatchConstants
<1> QED BY <1>6 DEF Newest

-------------------------------------------------------------------------------
(* Each action keeps the invariant.                                         *)

\* A dispatch keeps the invariant: the new run is the newest, an older one is told.
LEMMA DispatchKeeps ==
    ASSUME Supervised, NEW p \in Plan \cup {Inline}, Dispatch(p)
    PROVE  Supervised'
<1> USE DEF Supervised
<1> DEFINE new == NextRun
<1>0. /\ new \in Run /\ go[new] = "none"
      /\ \A r \in Run : go[r] # "none" => r < new
      /\ up \in {"replay", "up"} \/ (up = "boot" /\ p = Inline)
      /\ up' = up /\ todo' = todo /\ active' = new
  BY NextRunIsNew DEF Dispatch
<1>a. planOf' = [planOf EXCEPT ![new] = p] /\ go' = [go EXCEPT ![new] = "starting"]
  BY DEF Dispatch
<1>s. PICK skipped \in SUBSET ActiveLogs(p) :
         /\ tail' = [r \in Run |-> IF p # Inline /\ r \in ActiveLogs(p) \ skipped
                                   THEN "terminal" ELSE tail[r]]
         /\ failed' = IF p = Inline THEN failed ELSE failed \cup skipped
  <2>1. CASE p = Inline
    <3>1. tail' = tail /\ failed' = failed
      BY <2>1 DEF Dispatch
    <3> QED BY <2>1, <3>1 DEF TypeOK
  <2>2. CASE p # Inline
    BY <2>2 DEF Dispatch, Superseded
  <2> QED BY <2>1, <2>2
<1>b. /\ tail \in [Run -> Tail] /\ tail' \in [Run -> Tail]
      /\ failed \subseteq failed' /\ failed' \in SUBSET Run
      /\ \A r \in Run : tail'[r] = IF p # Inline /\ r \in ActiveLogs(p) /\ r \notin skipped
                                   THEN "terminal" ELSE tail[r]
      /\ \A r \in Run : p # Inline /\ r \in skipped => r \in failed'
  BY <1>s DEF TypeOK, Tail, ActiveLogs
<1>c. tail[new] = "absent" /\ new \notin ActiveLogs(p)
  BY <1>0, <1>b DEF LogsHaveRuns, ActiveLogs
<1>d. \A r \in Run : r # new => planOf'[r] = planOf[r] /\ go'[r] = go[r]
  BY <1>a DEF TypeOK
<1>e. planOf'[new] = p /\ go'[new] = "starting"
  BY <1>0, <1>a DEF TypeOK
<1>f. new \in 1..MaxRuns /\ new \in 0..MaxRuns
  BY <1>0, DispatchConstants DEF Run, DispatchConstants
<1> HIDE DEF new
<1>1. TypeOK'
  BY <1>0, <1>a, <1>b, <1>f DEF TypeOK, Goroutine
<1>2. InOrder'
  <2>1. PICK last \in 0..MaxRuns : \A r \in Run : go[r] # "none" <=> r <= last
    BY DEF InOrder
  <2>2. new = last + 1
    BY <2>1, NextRunFollows DEF new
  <2>3. new \in 0..MaxRuns /\ \A r \in Run : go'[r] # "none" <=> r <= new
    BY <1>d, <1>e, <1>f, <2>1, <2>2, DispatchConstants DEF Run, DispatchConstants
  <2> QED BY <2>3 DEF InOrder
<1>3. LogsHaveRuns'
  BY <1>b, <1>c, <1>d DEF LogsHaveRuns, ActiveLogs
<1>4. Stages'
  BY <1>0, <1>d, <1>e DEF Stages, TypeOK
<1>5. Listed'
  <2> SUFFICES ASSUME NEW rec \in todo
               PROVE  /\ go'[rec.run] = "returned" /\ planOf'[rec.run] # Inline
                      /\ rec.tail \in {"work", "gate_opened"}
                      /\ tail'[rec.run] \in {rec.tail, "terminal"}
                      /\ \A other \in todo : planOf'[other.run] = planOf'[rec.run]
                                                => other = rec
                      /\ \A r \in Run :
                            /\ go'[r] \notin {"none", "returned"} \/ r = new
                            /\ planOf'[r] = planOf'[rec.run]
                            => /\ rec.run < r
                               /\ tail'[rec.run] = "terminal" \/ rec.run \in failed'
    <3>1. todo' = todo /\ Alive' \cup Installed' \subseteq
            {r \in Run : go'[r] \notin {"none", "returned"} \/ r = new}
      BY <1>0, <1>f
    <3> QED BY <3>1 DEF Listed
  <2>1. \A x \in todo : /\ x.run \in Run /\ x.run # new
                        /\ planOf'[x.run] = planOf[x.run] /\ go'[x.run] = go[x.run]
    BY <1>0, <1>d DEF Listed, TypeOK, ActiveRun
  <2>2. rec.run < new
    BY <1>0, <2>1 DEF Listed
  <2>3. planOf[rec.run] = p => tail'[rec.run] = "terminal" \/ rec.run \in failed'
    BY <1>b, <2>1 DEF Listed, ActiveLogs
  <2>4. \A r \in Run :
            r # new /\ go'[r] \notin {"none", "returned"} /\ planOf'[r] = planOf'[rec.run]
            => rec.run < r /\ (tail'[rec.run] = "terminal" \/ rec.run \in failed')
    BY <1>b, <1>d, <2>1 DEF Listed
  <2> QED BY <1>b, <1>d, <1>e, <2>1, <2>2, <2>3, <2>4 DEF Listed
<1>6. Accounted'
  BY <1>0, <1>b, <1>c, <1>d, <1>e DEF Accounted, Stages, LogsHaveRuns
<1>7. PointerIsNewest'
  <2>1. \A r \in Run : go'[r] # "none" => r <= new
    BY <1>0, <1>d, <1>f, DispatchConstants DEF Run, DispatchConstants
  <2> QED BY <1>0, <2>1 DEF PointerIsNewest
<1> QED BY <1>1, <1>2, <1>3, <1>4, <1>5, <1>6, <1>7

\* What a live goroutine does to its own log and its own state.
LEMMA GoroutineKeeps ==
    ASSUME Supervised, NEW r \in Alive, NEW state, NEW event,
           state \in Goroutine \ {"none"}, event \in {"work", "gate_opened", "terminal"},
           state = "returned" => event = "terminal",
           go' = [go EXCEPT ![r] = state], AppendEvent(r, event),
           UNCHANGED <<planOf, active, up, todo>>
    PROVE  Supervised'
<1> USE DEF Supervised
<1>0. /\ r \in Run /\ go[r] \notin {"none", "returned"}
      /\ go'[r] = state /\ \A q \in Run : q # r => go'[q] = go[q]
      /\ tail'[r] \in {event, tail[r]} /\ \A q \in Run : q # r => tail'[q] = tail[q]
      /\ planOf[r] = Inline => tail'[r] = tail[r] /\ tail[r] = "absent"
      /\ planOf[r] # Inline => tail'[r] = event \/ r \in failed'
      /\ failed \subseteq failed' /\ failed' \in SUBSET Run
  BY DEF TypeOK, AppendEvent, LogsHaveRuns
<1>1. TypeOK'
  BY <1>0 DEF TypeOK, AppendEvent, Tail
<1>2. InOrder'
  BY <1>0 DEF InOrder
<1>3. LogsHaveRuns'
  BY <1>0 DEF LogsHaveRuns
<1>4. Stages'
  BY <1>0 DEF Stages
<1>5. Listed'
  <2>1. \A rec \in todo : rec.run \in Run /\ rec.run # r
    BY <1>0 DEF Listed, TypeOK, ActiveRun
  <2> QED BY <1>0, <2>1 DEF Listed
<1>6. Accounted'
  BY <1>0 DEF Accounted
<1>7. PointerIsNewest'
  BY <1>0 DEF PointerIsNewest
<1> QED BY <1>1, <1>2, <1>3, <1>4, <1>5, <1>6, <1>7

\* A click on the active run keeps it.
LEMMA AnswerKeeps ==
    ASSUME Supervised, Answer
    PROVE  Supervised'
<1>1. active \in Alive
  BY DispatchConstants DEF Answer, Supervised, TypeOK, Run, DispatchConstants
<1> QED BY <1>1, GoroutineKeeps DEF Answer, Goroutine

\* Whatever a goroutine does to its own run keeps it.
LEMMA RunKeeps ==
    ASSUME Supervised, NEW r \in Run, StartRun(r) \/ StepEvent(r) \/ Park(r) \/ Finish(r)
    PROVE  Supervised'
<1>1. CASE StartRun(r)
  BY <1>1, GoroutineKeeps DEF StartRun, Goroutine
<1>2. CASE StepEvent(r)
  <2>1. go' = [go EXCEPT ![r] = "working"]
    BY <1>2 DEF StepEvent, Supervised, TypeOK
  <2> QED BY <1>2, <2>1, GoroutineKeeps DEF StepEvent, Goroutine
<1>3. CASE Park(r)
  BY <1>3, GoroutineKeeps DEF Park, Goroutine
<1>4. CASE Finish(r)
  BY <1>4, GoroutineKeeps DEF Finish, Goroutine
<1> QED BY <1>1, <1>2, <1>3, <1>4

\* The end of a goroutine, which takes the pointer back if it is its own, keeps it.
LEMMA UnregisterKeeps ==
    ASSUME Supervised, NEW r \in Run, Unregister(r)
    PROVE  Supervised'
<1> USE DEF Supervised, Unregister
<1>1. TypeOK'
  BY DispatchConstants DEF TypeOK, DispatchConstants
<1>2. InOrder' /\ LogsHaveRuns' /\ Accounted'
  BY DEF InOrder, LogsHaveRuns, Accounted
<1>3. Stages' /\ Listed' /\ PointerIsNewest'
  BY DEF Stages, Listed, PointerIsNewest
<1> QED BY <1>1, <1>2, <1>3

\* A crash keeps it: no goroutine is left, the logs stay.
LEMMA CrashKeeps ==
    ASSUME Supervised, Crash
    PROVE  Supervised'
<1> USE DEF Supervised, Crash
<1>0. \A r \in Run : go'[r] = IF go[r] = "none" THEN "none" ELSE "returned"
  OBVIOUS
<1>1. TypeOK'
  BY DispatchConstants DEF TypeOK, Goroutine, DispatchConstants
<1>2. InOrder' /\ LogsHaveRuns'
  BY <1>0 DEF InOrder, LogsHaveRuns
<1>3. Stages' /\ Listed' /\ Accounted' /\ PointerIsNewest'
  BY <1>0 DEF Stages, Listed, Accounted, PointerIsNewest
<1> QED BY <1>1, <1>2, <1>3

\* The start of the process keeps it.
LEMMA BootKeeps ==
    ASSUME Supervised, Boot
    PROVE  Supervised'
<1> USE DEF Supervised, Boot
<1>1. TypeOK' /\ InOrder' /\ LogsHaveRuns'
  BY DEF TypeOK, InOrder, LogsHaveRuns
<1>2. Stages' /\ Listed' /\ Accounted' /\ PointerIsNewest'
  BY DEF Stages, Listed, Accounted, PointerIsNewest
<1> QED BY <1>1, <1>2

\* At boot a log that lists as active belongs to a dead run of a plan.
LEMMA DeadAtBoot ==
    ASSUME Supervised, up = "boot", NEW r \in Run, tail[r] \in {"work", "gate_opened"}
    PROVE  go[r] = "returned" /\ planOf[r] \in Plan
BY DEF Supervised, Stages, LogsHaveRuns, TypeOK

\* Listing the logs keeps it: every orphan is listed.
LEMMA ScanLogsKeeps ==
    ASSUME Supervised, ScanLogs
    PROVE  Supervised'
<1> USE DEF Supervised
<1>s. PICK skipped \in SUBSET UNION {ActiveLogs(p) : p \in Plan} :
         LET logs(p) == ActiveLogs(p) \ skipped
             listed  == {p \in Plan : logs(p) # {}}
             kept    == {Newest(logs(p)) : p \in listed}
         IN  /\ todo' = {[run |-> r, tail |-> tail[r]] : r \in kept}
             /\ tail' = [r \in Run |->
                            IF planOf[r] \in listed /\ r \in logs(planOf[r]) \ kept
                            THEN "terminal" ELSE tail[r]]
             /\ failed' = failed \cup skipped
  BY DEF ScanLogs
<1> DEFINE logs(p) == ActiveLogs(p) \ skipped
           listed == {p \in Plan : logs(p) # {}}
           kept   == {Newest(logs(p)) : p \in listed}
<1>0. /\ up = "boot" /\ up' = "replay" /\ planOf' = planOf /\ go' = go /\ active' = active
      /\ todo' = {[run |-> r, tail |-> tail[r]] : r \in kept}
      /\ tail' = [r \in Run |-> IF planOf[r] \in listed /\ r \in logs(planOf[r]) \ kept
                                  THEN "terminal" ELSE tail[r]]
      /\ failed' = failed \cup skipped
  BY <1>s DEF ScanLogs
<1>r. skipped \subseteq Run
  BY DEF ActiveLogs
<1>1. \A p \in listed : Newest(logs(p)) \in logs(p)
  BY NewestMember DEF ActiveLogs
<1>2. \A r \in kept : /\ r \in Run /\ planOf[r] \in Plan /\ go[r] = "returned"
                      /\ tail[r] \in {"work", "gate_opened"} /\ tail'[r] = tail[r]
                      /\ r = Newest(logs(planOf[r]))
  <2> SUFFICES ASSUME NEW r \in kept
               PROVE  /\ r \in Run /\ planOf[r] \in Plan /\ go[r] = "returned"
                      /\ tail[r] \in {"work", "gate_opened"} /\ tail'[r] = tail[r]
                      /\ r = Newest(logs(planOf[r]))
    OBVIOUS
  <2>1. PICK p \in listed : r = Newest(logs(p))
    OBVIOUS
  <2>2. r \in logs(p) /\ p \in Plan
    BY <1>1, <2>1
  <2>3. r \in Run /\ planOf[r] = p /\ tail[r] \in {"work", "gate_opened"}
    BY <2>2 DEF ActiveLogs
  <2> HIDE DEF logs, kept, listed
  <2>4. go[r] = "returned"
    BY <1>0, <2>3, DeadAtBoot
  <2>5. tail'[r] = tail[r]
    BY <1>0, <2>3
  <2> QED BY <2>1, <2>2, <2>3, <2>4, <2>5
<1>3. \A r \in Run : tail[r] \in {"work", "gate_opened"} => r \in kept \cup skipped \/ tail'[r] = "terminal"
  <2> SUFFICES ASSUME NEW r \in Run, tail[r] \in {"work", "gate_opened"}
               PROVE  r \in kept \cup skipped \/ tail'[r] = "terminal"
    OBVIOUS
  <2>1. CASE r \in skipped
    BY <2>1
  <2>2. CASE r \notin skipped
    <3>1. planOf[r] \in Plan /\ r \in logs(planOf[r])
      BY <1>0, <2>2, DeadAtBoot DEF ActiveLogs
    <3>2. planOf[r] \in listed
      BY <3>1
    <3> HIDE DEF listed, kept, logs
    <3> QED BY <1>0, <3>1, <3>2
  <2> QED BY <2>1, <2>2
<1>4. \A r \in Run : tail'[r] = tail[r] \/ (tail'[r] = "terminal" /\ tail[r] # "absent")
  BY <1>0 DEF ActiveLogs
<1> HIDE DEF listed, kept, logs
<1>5. \A rec \in todo' : rec.run \in kept /\ rec.tail = tail[rec.run]
                          /\ rec = [run |-> rec.run, tail |-> tail[rec.run]]
  BY <1>0
<1>6. TypeOK'
  <2>1. tail' \in [Run -> Tail]
    BY <1>0 DEF TypeOK, Tail
  <2>2. todo' \in SUBSET ActiveRun
    BY <1>0, <1>2 DEF ActiveRun, Tail
  <2> QED BY <1>0, <1>r, <2>1, <2>2 DEF TypeOK
<1>7. InOrder' /\ LogsHaveRuns'
  BY <1>0, <1>4 DEF InOrder, LogsHaveRuns
<1>8. Stages' /\ PointerIsNewest'
  BY <1>0 DEF Stages, PointerIsNewest
<1>9. Listed'
  <2> SUFFICES ASSUME NEW rec \in todo'
               PROVE  /\ go[rec.run] = "returned" /\ planOf[rec.run] # Inline
                      /\ rec.tail \in {"work", "gate_opened"}
                      /\ tail'[rec.run] = rec.tail
                      /\ \A other \in todo' : planOf[other.run] = planOf[rec.run]
                                                  => other = rec
                      /\ \A r \in Alive \cup Installed : planOf[r] # planOf[rec.run]
    BY <1>0 DEF Listed
  <2>1. planOf[rec.run] \in Plan /\ planOf[rec.run] # Inline
    BY <1>2, <1>5, DispatchConstants DEF DispatchConstants
  <2>2. \A other \in todo' : planOf[other.run] = planOf[rec.run] => other = rec
    BY <1>2, <1>5
  <2>3. \A r \in Alive \cup Installed : planOf[r] # planOf[rec.run]
    BY <1>0, <2>1 DEF Stages
  <2> QED BY <1>2, <1>5, <2>1, <2>2, <2>3
<1>10. Accounted'
  <2> SUFFICES ASSUME NEW r \in Run, r \notin failed', tail'[r] \in {"work", "gate_opened"}
               PROVE  \E rec \in todo' : rec.run = r
    BY DEF Accounted
  <2>1. r \in kept
    BY <1>0, <1>3, <1>4
  <2>2. [run |-> r, tail |-> tail[r]] \in todo'
    BY <1>0, <2>1
  <2> QED BY <2>2
<1> QED BY <1>6, <1>7, <1>8, <1>9, <1>10

\* Settling or resuming one listed run keeps it.
LEMMA TriageKeeps ==
    ASSUME Supervised, NEW rec \in ActiveRun, Triage(rec)
    PROVE  Supervised'
<1> USE DEF Supervised
<1> DEFINE run == rec.run
<1>0. /\ up = "replay" /\ up' = up /\ rec \in todo /\ todo' = todo \ {rec}
      /\ planOf' = planOf /\ run \in Run
      /\ go[run] = "returned" /\ planOf[run] # Inline
      /\ rec.tail \in {"work", "gate_opened"} /\ tail[run] \in {rec.tail, "terminal"}
  BY DEF Triage, Listed, ActiveRun
<1>f. failed \subseteq failed' /\ failed' \in SUBSET Run
  BY <1>0 DEF Triage, Resume, LeaveOrAbort, AppendEvent, TypeOK
<1>1. \A other \in todo' : /\ other \in todo /\ other.run \in Run
                           /\ planOf[other.run] # planOf[run] /\ other.run # run
  BY <1>0 DEF Listed, TypeOK, ActiveRun
<1>2. CASE Resume(rec)
  <2>0. /\ go' = [go EXCEPT ![run] = "resumed"] /\ tail' = tail
        /\ active' = IF active = 0 THEN run ELSE active
        /\ tail[run] = "gate_opened" /\ failed' = failed
    BY <1>2 DEF Resume
  <2>1. /\ go'[run] = "resumed" /\ \A q \in Run : q # run => go'[q] = go[q]
    BY <1>0, <2>0 DEF TypeOK
  <2>2. \A r \in Alive \cup Installed : planOf[r] = planOf[run] => run < r /\ run \in failed
    BY <1>0, <2>0 DEF Listed
  <2> HIDE DEF run
  <2>3. TypeOK'
    BY <1>0, <2>0, DispatchConstants DEF TypeOK, Goroutine, Run, DispatchConstants
  <2>4. InOrder' /\ LogsHaveRuns'
    BY <1>0, <2>0, <2>1 DEF InOrder, LogsHaveRuns
  <2>5. Stages'
    BY <1>0 DEF Stages
  <2>6. Listed'
    BY <1>0, <1>1, <2>0, <2>1 DEF Listed
  <2>7. Accounted'
    BY <1>0, <2>0, <2>1 DEF Accounted, run
  <2>8. PointerIsNewest'
    BY <1>0, <2>0, <2>1, <2>2 DEF PointerIsNewest, TypeOK, Run
  <2> QED BY <2>3, <2>4, <2>5, <2>6, <2>7, <2>8
<1>3. CASE LeaveOrAbort(rec)
  <2>0. /\ go' = go /\ active' = active
        /\ \A q \in Run : q # run => tail'[q] = tail[q]
        /\ tail' \in [Run -> Tail] /\ tail'[run] \in {tail[run], "terminal"}
        /\ tail'[run] = "terminal" \/ run \in failed'
    BY <1>0, <1>3 DEF LeaveOrAbort, AppendEvent, TypeOK, Tail
  <2>1. TypeOK'
    BY <1>0, <1>f, <2>0 DEF TypeOK
  <2> HIDE DEF run
  <2>2. InOrder' /\ LogsHaveRuns'
    BY <1>0, <2>0 DEF InOrder, LogsHaveRuns
  <2>3. Stages' /\ PointerIsNewest'
    BY <1>0, <1>f, <2>0 DEF Stages, PointerIsNewest
  <2>4. Listed'
    BY <1>0, <1>1, <1>f, <2>0 DEF Listed
  <2>5. Accounted'
    BY <1>0, <1>f, <2>0 DEF Accounted, run
  <2> QED BY <2>1, <2>2, <2>3, <2>4, <2>5
<1> QED BY <1>2, <1>3 DEF Triage

\* The end of the startup replay keeps it: nothing is left to settle.
LEMMA ReplayDoneKeeps ==
    ASSUME Supervised, ReplayDone
    PROVE  Supervised'
<1> USE DEF Supervised, ReplayDone
<1>1. TypeOK' /\ InOrder' /\ LogsHaveRuns'
  BY DEF TypeOK, InOrder, LogsHaveRuns
<1>2. Stages' /\ Listed' /\ Accounted' /\ PointerIsNewest'
  BY DEF Stages, Listed, Accounted, PointerIsNewest
<1> QED BY <1>1, <1>2

-------------------------------------------------------------------------------
(* The theorems.                                                            *)

\* The invariant holds before the first dispatch.
LEMMA InitSupervised == Init => Supervised
<1> SUFFICES ASSUME Init PROVE Supervised
  OBVIOUS
<1> USE DEF Init
<1>1. TypeOK
  BY DispatchConstants DEF TypeOK, Goroutine, Tail, DispatchConstants
<1>2. InOrder
  <2>1. 0 \in 0..MaxRuns /\ \A r \in Run : ~(r <= 0)
    BY DispatchConstants DEF Run, DispatchConstants
  <2> QED BY <2>1 DEF InOrder
<1>3. LogsHaveRuns /\ Stages /\ Listed /\ Accounted /\ PointerIsNewest
  BY DEF LogsHaveRuns, Stages, Listed, Accounted, PointerIsNewest
<1> QED BY <1>1, <1>2, <1>3 DEF Supervised

\* Every step keeps the invariant.
LEMMA NextSupervised == Supervised /\ [Next]_vars => Supervised'
<1> SUFFICES ASSUME Supervised, [Next]_vars PROVE Supervised'
  OBVIOUS
<1>1. CASE \E p \in Plan \cup {Inline} : Dispatch(p)
  BY <1>1, DispatchKeeps
<1>2. CASE Answer \/ Crash
  BY <1>2, AnswerKeeps, CrashKeeps
<1>3. CASE \E r \in Run : StartRun(r) \/ StepEvent(r) \/ Park(r) \/ Finish(r) \/ Unregister(r)
  BY <1>3, RunKeeps, UnregisterKeeps
<1>4. CASE Startup
  BY <1>4, BootKeeps, ScanLogsKeeps, TriageKeeps, ReplayDoneKeeps DEF Startup
<1>5. CASE UNCHANGED vars
  BY <1>5 DEF vars, Supervised, TypeOK, InOrder, LogsHaveRuns, Stages, Listed,
     Accounted, PointerIsNewest
<1> QED BY <1>1, <1>2, <1>3, <1>4, <1>5 DEF Next

\* The inductive invariant holds in every reachable state.
THEOREM AlwaysSupervised == Spec => []Supervised
BY InitSupervised, NextSupervised, PTL DEF Spec

\* Every variable of the dispatcher and the logs keeps its type.
THEOREM TypeCorrect == Spec => []TypeOK
<1>1. Supervised => TypeOK
  BY DEF Supervised
<1> QED BY <1>1, AlwaysSupervised, PTL

\* For any number of plans and dispatches: once startup is over, every log that
\* lists as active, and never failed to be written or read, has a goroutine, whatever
\* crashed, was superseded or was dispatched while the replay ran.
THEOREM NoLogIsOrphan == Spec => []NoOrphanLog
<1>1. Supervised => NoOrphanLog
  BY DEF Supervised, Stages, Accounted, NoOrphanLog
<1> QED BY <1>1, AlwaysSupervised, PTL

\* For any number of plans and dispatches: the runner that takes gate clicks is
\* never older than another live run of the same plan, unless its log failed.
THEOREM PointerStaysNewest == Spec => []PointerIsNewest
<1>1. Supervised => PointerIsNewest
  BY DEF Supervised
<1> QED BY <1>1, AlwaysSupervised, PTL
===============================================================================
