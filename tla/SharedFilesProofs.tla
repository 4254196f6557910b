--------------------------- MODULE SharedFilesProofs ---------------------------
(***************************************************************************)
(* Proofs about the files that guests, agents and the user share:           *)
(* FeatureFiles, for any guests, artifacts, edits and crashes, and          *)
(* StorySpace, for any guests, answers, requests and stories.               *)
(***************************************************************************)
EXTENDS MCSharedFiles, FiniteSetTheorems, SequenceTheorems, WellFoundedInduction, TLAPS

-------------------------------------------------------------------------------
(* The files of a feature: the inductive invariant.                         *)

RowType == [id : Ids, ver : Int, rejected : BOOLEAN, stamped : BOOLEAN]

\* No version and no time is ahead of the clock.
Now == bound.events + 1
Times == (0 - Now)..Now
Recent(rows, n) == rows \in Seq(RowType) /\ \A i \in DOMAIN rows : rows[i].ver <= n

Typed ==
    /\ bound = [attempts |-> bound.attempts, events |-> bound.events]
    /\ bound.events \in Nat /\ bound.attempts \in Nat
    /\ artifacts = [state |-> artifacts.state, rows |-> artifacts.rows]
    /\ Recent(artifacts.rows, Now)
    /\ lock = [r \in Runs |-> lock[r]]
    /\ \A r \in Runs : /\ lock[r] = [file |-> lock[r].file, to |-> lock[r].to]
                       /\ lock[r].file \in {"none", "tasks", "artifacts", "changelog"}
                       /\ lock[r].file = "none" => lock[r] = Out
                       /\ lock[r].file = "artifacts" => Recent(lock[r].to, Now)
    /\ \/ draft = NoDraft
       \/ /\ draft.by \in Runs \cup {Stepper}
          /\ Recent(draft.rows, Now) /\ draft.at \in DOMAIN draft.rows
    /\ step \in {"ready", "running"}
    /\ since \in [ids : SUBSET Files, own : SUBSET RowType, files : SUBSET Files, now : SUBSET Files]
    /\ mtime \in [Files -> Times]

\* The changelog is what was committed, one writer at a time reads it, and what it
\* will publish is the file with its own entry.
Entries(runs) == [i \in DOMAIN runs |-> [id |-> i, run |-> runs[i]]]
LogInv ==
    /\ committed \in Seq(Runs)
    /\ changelog = Entries(committed)
    /\ \A r, s \in Runs : lock[r] # Out /\ lock[s] # Out => r = s
    /\ \A r \in Runs : lock[r].file = "changelog" =>
          lock[r].to = Append(changelog, [id |-> Len(changelog) + 1, run |-> r])

\* Between attempts there are no marks, no history and no edit of the step's agent.
AtRest == step = "ready" => marked = NoMarks /\ since = Untouched /\ draft.by # Stepper

\* Marks are no later than the clock.
MarksRecent ==
    /\ \A id \in DOMAIN marked.entries :
          \E v \in Int, t \in Times : v <= Now /\ marked.entries[id] = <<v, t>>
    /\ DOMAIN marked.files \subseteq Files
    /\ \A f \in DOMAIN marked.files : marked.files[f] \in Times

\* What was written since the mark is later than the mark.
WrittenLater ==
    /\ \A row \in since.own : \A id \in DOMAIN marked.entries : marked.entries[id][1] < row.ver
    /\ draft.by = Stepper =>
          \A id \in DOMAIN marked.entries : marked.entries[id][1] < draft.rows[draft.at].ver
    /\ \A f \in since.files : f \in DOMAIN marked.entries => marked.entries[f][2] # mtime[f]
    /\ \A f \in since.now : /\ mtime[f] > 0
                            /\ f \in DOMAIN marked.files => mtime[f] > marked.files[f]

\* What was not written since the mark is as marked.
FileAsMarked(f) ==
    /\ f \in DOMAIN marked.files <=> mtime[f] # 0
    /\ f \in DOMAIN marked.files => marked.files[f] = mtime[f]
IdAsMarked(id) ==
    /\ id \in DOMAIN marked.entries <=> RowsOf(id) # {}
    /\ RowsOf(id) # {} => marked.entries[id] = Fingerprint(artifacts.rows[Max(RowsOf(id))])
OthersAsMarked ==
    step = "running" =>
        /\ \A f \in Files \ {Cache} : f \in since.files \/ FileAsMarked(f)
        /\ since.files \cap Ids \subseteq since.ids
        /\ marked.readable => \A id \in Ids : id \in since.ids \/ IdAsMarked(id)

MarksInv == AtRest /\ MarksRecent /\ WrittenLater /\ OthersAsMarked
FeatureInv == Typed /\ LogInv /\ MarksInv
-------------------------------------------------------------------------------
(* Rows and what they leave in place.                                       *)

\* A set of numbers with a bound has a greatest member.
LEMMA GreatestMember ==
    ASSUME NEW n \in Nat, NEW S \in SUBSET (1..n), S # {}
    PROVE  Max(S) \in S /\ \A i \in S : i <= Max(S)
<1> DEFINE Below == {n - i : i \in S}
<1>1. Below \in SUBSET Nat /\ Below # {}
  <2>1. \A i \in S : n - i \in Nat
    OBVIOUS
  <2> QED BY <2>1
<1>2. PICK d \in Below : \A e \in Below : ~ (<<e, d>> \in OpToRel(<, Nat))
  <2> HIDE DEF Below
  <2> QED BY <1>1, WFMin, NatLessThanWellFounded
<1>3. \A e \in Below : d <= e
  <2> HIDE DEF Below
  <2>1. \A e \in Below : ~ (e < d)
    BY <1>1, <1>2 DEF OpToRel
  <2> QED BY <1>1, <2>1
<1>4. PICK m \in S : d = n - m
  OBVIOUS
<1>5. \A i \in S : n - m <= n - i
  BY <1>3, <1>4
<1>6. \A i \in S : m >= i
  BY <1>5
<1>7. Max(S) \in S /\ \A i \in S : Max(S) >= i
  BY <1>6 DEF Max
<1> QED BY <1>7

\* Where an id has the same rows in the same places, it has them.
LEMMA SamePlaces ==
    ASSUME NEW a, NEW b, NEW id, Placed(a, id) = Placed(b, id)
    PROVE  /\ {i \in DOMAIN a : a[i].id = id} = {i \in DOMAIN b : b[i].id = id}
           /\ \A i \in DOMAIN a : a[i].id = id => a[i] = b[i]
<1>1. \A i \in DOMAIN a : a[i].id = id => <<i, a[i]>> \in Placed(a, id)
  BY DEF Placed
<1>2. \A i \in DOMAIN b : b[i].id = id => <<i, b[i]>> \in Placed(b, id)
  BY DEF Placed
<1>3. \A i \in DOMAIN a : a[i].id = id => i \in DOMAIN b /\ b[i].id = id /\ a[i] = b[i]
  BY <1>1 DEF Placed
<1>4. \A i \in DOMAIN b : b[i].id = id => i \in DOMAIN a /\ a[i].id = id
  BY <1>2 DEF Placed
<1> QED BY <1>3, <1>4

\* The last row of an id is a row of the id.
LEMMA LastRow ==
    ASSUME Typed, NEW id, RowsOf(id) # {}
    PROVE  Max(RowsOf(id)) \in RowsOf(id)
<1>1. RowsOf(id) \in SUBSET (1..Len(artifacts.rows)) /\ Len(artifacts.rows) \in Nat
  BY LenProperties DEF Typed, Recent, RowsOf
<1> QED BY <1>1, GreatestMember

\* A row added or changed by now is a row.
LEMMA RowIsTyped ==
    ASSUME NEW id \in Ids, NEW ver \in Int, NEW rejected \in BOOLEAN, NEW stamped \in BOOLEAN
    PROVE  Row(id, ver, rejected, stamped) \in RowType
BY DEF Row, RowType

\* Another row, and a row in place of another.
LEMMA AppendRecent ==
    ASSUME NEW n \in Int, NEW rows, Recent(rows, n), NEW row \in RowType, row.ver <= n
    PROVE  /\ Recent(Append(rows, row), n)
           /\ Len(rows) + 1 \in DOMAIN Append(rows, row)
           /\ Append(rows, row)[Len(rows) + 1] = row
<1>1. /\ Append(rows, row) \in Seq(RowType) /\ DOMAIN rows = 1..Len(rows) /\ Len(rows) \in Nat
      /\ Len(Append(rows, row)) = Len(rows) + 1
      /\ DOMAIN Append(rows, row) = 1..(Len(rows) + 1)
      /\ \A i \in 1..Len(rows) : Append(rows, row)[i] = rows[i]
      /\ Append(rows, row)[Len(rows) + 1] = row
  BY AppendProperties, LenProperties DEF Recent
<1> QED BY <1>1 DEF Recent

LEMMA ExceptRecent ==
    ASSUME NEW n \in Int, NEW rows, Recent(rows, n), NEW i \in DOMAIN rows,
           NEW row \in RowType, row.ver <= n
    PROVE  /\ Recent([rows EXCEPT ![i] = row], n)
           /\ i \in DOMAIN [rows EXCEPT ![i] = row]
           /\ [rows EXCEPT ![i] = row][i] = row
<1>1. [rows EXCEPT ![i] = row] \in Seq(RowType)
  BY ExceptSeq, LenProperties DEF Recent
<1> QED BY <1>1 DEF Recent

\* The clock never goes back.
LEMMA ClockKeeps ==
    ASSUME bound.events \in Nat, bound'.events \in Nat, bound.events <= bound'.events
    PROVE  /\ Times \subseteq Times' /\ Now <= Now' /\ Now \in Nat /\ Now' \in Nat
           /\ \A rows : Recent(rows, Now) => Recent(rows, Now')
<1>1. Now <= Now' /\ Now \in Nat /\ Now' \in Nat
  BY DEF Now
<1>2. Times \subseteq Times'
  <2> DEFINE m == Now  n == Now'
  <2>1. (0 - m)..m \subseteq (0 - n)..n
    <3>1. m \in Nat /\ n \in Nat /\ m <= n
      BY <1>1
    <3> HIDE DEF m, n
    <3> QED BY <3>1
  <2> QED BY <2>1 DEF Times
<1>3. ASSUME NEW rows, Recent(rows, Now) PROVE Recent(rows, Now')
  <2>1. \A i \in DOMAIN rows : rows[i].ver \in Int
    <3>1. rows \in Seq(RowType)
      BY <1>3 DEF Recent
    <3>2. \A i \in DOMAIN rows : rows[i] \in RowType
      BY <3>1, ElementOfSeq, LenProperties
    <3> QED BY <3>2 DEF RowType
  <2> QED BY <1>1, <1>3, <2>1 DEF Recent
<1> QED BY <1>1, <1>2, <1>3

-------------------------------------------------------------------------------
(* Every variable keeps its type.                                           *)

\* The files as they are at the start.
LEMMA InitTyped == Init => Typed
<1> SUFFICES ASSUME Init PROVE Typed
  OBVIOUS
<1> DEFINE S == {Row(id, 0, FALSE, FALSE) : id \in Listed}
           f == [id \in Listed |-> Row(id, 0, FALSE, FALSE)]
<1>1. S \subseteq RowType /\ \A row \in S : row.ver = 0
  <2>1. \A id \in Listed : Row(id, 0, FALSE, FALSE) \in RowType
    BY FeatureConstants DEF FeatureConstants, Row, RowType
  <2>2. \A id \in Listed : Row(id, 0, FALSE, FALSE).ver = 0
    BY DEF Row
  <2> QED BY <2>1, <2>2
<1>2. IsFiniteSet(S)
  <2>1. f \in Surjection(Listed, S)
    BY DEF Surjection
  <2> HIDE DEF f, S
  <2> QED BY <2>1, FS_Surjection, FeatureConstants DEF FeatureConstants
<1>3. SetToSeq(S) \in [1..Cardinality(S) -> S] /\ Cardinality(S) \in Nat
  <2> HIDE DEF S
  <2>1. Cardinality(S) \in Nat /\ ExistsBijection(1..Cardinality(S), S)
    BY <1>2, FS_CardinalityType
  <2>2. PICK g \in Bijection(1..Cardinality(S), S) : TRUE
    BY <2>1 DEF ExistsBijection
  <2>3. g \in [1..Cardinality(S) -> S] /\ IsInjective(g)
    BY <2>2 DEF Bijection, Injection
  <2> QED BY <2>1, <2>3 DEF SetToSeq
<1>4. Recent(artifacts.rows, Now)
  <2>1. artifacts.rows = SetToSeq(S)
    BY DEF Init
  <2>2. bound.events = 0
    BY DEF Init
  <2> HIDE DEF S
  <2>3. artifacts.rows \in Seq(RowType)
    BY <1>1, <1>3, <2>1, SeqDef
  <2>4. \A i \in DOMAIN artifacts.rows : artifacts.rows[i].ver = 0
    BY <1>1, <1>3, <2>1
  <2> QED BY <2>2, <2>3, <2>4 DEF Recent, Now
<1>5. mtime \in [Files -> Times]
  BY DEF Init, Times, Now
<1> QED BY <1>4, <1>5 DEF Init, Typed, NoDraft, Out, Untouched

\* A guest takes or returns the lock, or goes on.
LEMMA LockTyped ==
    ASSUME Typed, NEW r \in Runs,
           UNCHANGED <<artifacts, mtime, draft, step, since>>,
           bound' = bound \/ Event,
           \/ lock' = lock
           \/ lock' = [lock EXCEPT ![r] = Out]
           \/ \E to : lock' = [lock EXCEPT ![r] = [file |-> "tasks", to |-> to]]
           \/ \E to : lock' = [lock EXCEPT ![r] = [file |-> "changelog", to |-> to]]
           \/ \E to : lock' = [lock EXCEPT ![r] = [file |-> "artifacts", to |-> to]] /\ Recent(to, Now)
    PROVE  Typed'
<1>1. /\ bound' = [attempts |-> bound'.attempts, events |-> bound'.events]
      /\ bound'.events \in Nat /\ bound'.attempts \in Nat /\ bound.events <= bound'.events
  BY DEF Typed, Event
<1>2. Times \subseteq Times' /\ \A rows : Recent(rows, Now) => Recent(rows, Now')
  BY <1>1, ClockKeeps DEF Typed
<1>3. lock' = [s \in Runs |-> lock'[s]]
  BY DEF Typed
<1>4. \A s \in Runs :
         /\ lock'[s] = [file |-> lock'[s].file, to |-> lock'[s].to]
         /\ lock'[s].file \in {"none", "tasks", "artifacts", "changelog"}
         /\ lock'[s].file = "none" => lock'[s] = Out
         /\ lock'[s].file = "artifacts" => Recent(lock'[s].to, Now)
  BY DEF Typed, Out
<1>5. \A s \in Runs : lock'[s].file = "artifacts" => Recent(lock'[s].to, Now')
  BY <1>2, <1>4
<1>6. Recent(artifacts'.rows, Now') /\ (draft # NoDraft => Recent(draft'.rows, Now'))
  BY <1>2 DEF Typed
<1>7. mtime' \in [Files -> Times']
  BY <1>2 DEF Typed
<1> QED BY <1>1, <1>3, <1>4, <1>5, <1>6, <1>7 DEF Typed

\* An agent's edit puts a row with the clock's version at the end or in place of
\* another.
LEMMA EditedRow ==
    ASSUME Typed, NEW e, EditBegins(e)
    PROVE  \E row \in RowType : \E rows, at :
             /\ draft' = [by |-> e, at |-> at, rows |-> rows]
             /\ row.ver = bound.events + 2
             /\ \/ at = Len(artifacts.rows) + 1 /\ rows = Append(artifacts.rows, row)
                \/ at \in DOMAIN artifacts.rows /\ rows = [artifacts.rows EXCEPT ![at] = row]
<1>0. artifacts.rows \in Seq(RowType) /\ bound.events + 2 \in Int
  BY DEF Typed, Recent
<1>1. CASE \E id \in Ids, stamped \in {FALSE, e = Stepper} :
              draft' = [by |-> e, at |-> Len(artifacts.rows) + 1,
                        rows |-> Append(artifacts.rows, Row(id, bound.events + 2, FALSE, stamped))]
  <2>1. PICK id \in Ids, stamped \in {FALSE, e = Stepper} :
           draft' = [by |-> e, at |-> Len(artifacts.rows) + 1,
                     rows |-> Append(artifacts.rows, Row(id, bound.events + 2, FALSE, stamped))]
    BY <1>1
  <2> DEFINE row == Row(id, bound.events + 2, FALSE, stamped)
  <2>2. row \in RowType /\ row.ver = bound.events + 2
    BY <1>0, RowIsTyped DEF Row
  <2>3. draft' = [by |-> e, at |-> Len(artifacts.rows) + 1, rows |-> Append(artifacts.rows, row)]
    BY <2>1
  <2> HIDE DEF row
  <2> QED BY <2>2, <2>3
<1>2. CASE \E i \in DOMAIN artifacts.rows, rejected \in BOOLEAN :
              draft' = [by |-> e, at |-> i,
                        rows |-> [artifacts.rows EXCEPT ![i].ver = bound.events + 2,
                                                        ![i].rejected = rejected]]
  <2>1. PICK i \in DOMAIN artifacts.rows, rejected \in BOOLEAN :
           draft' = [by |-> e, at |-> i,
                     rows |-> [artifacts.rows EXCEPT ![i].ver = bound.events + 2,
                                                     ![i].rejected = rejected]]
    BY <1>2
  <2> DEFINE row == [artifacts.rows[i] EXCEPT !.ver = bound.events + 2, !.rejected = rejected]
  <2>2. artifacts.rows[i] \in RowType
    BY <1>0, ElementOfSeq, LenProperties
  <2>3. row \in RowType /\ row.ver = bound.events + 2
    BY <1>0, <2>2 DEF RowType
  <2>4. [artifacts.rows EXCEPT ![i].ver = bound.events + 2, ![i].rejected = rejected]
        = [artifacts.rows EXCEPT ![i] = row]
    OBVIOUS
  <2>5. draft' = [by |-> e, at |-> i, rows |-> [artifacts.rows EXCEPT ![i] = row]]
    BY <2>1, <2>4
  <2> HIDE DEF row
  <2> QED BY <2>3, <2>5
<1> QED BY <1>1, <1>2 DEF EditBegins

\* The actions of a guest, of agents and of the step.
LEMMA StepTyped == Typed /\ AtRest /\ [Next]_vars => Typed'
<1> SUFFICES ASSUME Typed, AtRest, [Next]_vars PROVE Typed'
  OBVIOUS
<1>0. Now \in Nat /\ Ids \subseteq Files
  BY DEF Typed, Now, Files
<1>1. ASSUME NEW r \in Runs, RunEnds(r) PROVE Typed'
  BY <1>1 DEF RunEnds, Typed, NoDraft, Recent, Now, Times, steps
<1>2. ASSUME NEW r \in Runs, Skips(r) PROVE Typed'
  BY <1>2, LockTyped DEF Skips, steps
<1>3. ASSUME NEW r \in Runs, SetTaskActive(r) \/ UpdateTaskState(r) PROVE Typed'
  BY <1>3, LockTyped DEF SetTaskActive, UpdateTaskState, Gives, Holds, steps
<1>4. ASSUME NEW r \in Runs, AppendArtifact(r) PROVE Typed'
  <2>1. CASE Gives(r)
    BY <2>1, LockTyped DEF Gives, steps
  <2>2. CASE \E id \in Ids :
                Holds(r, "artifacts", Append(artifacts.rows, Row(id, 1, FALSE, FALSE)))
    <3>1. PICK id \in Ids :
             Holds(r, "artifacts", Append(artifacts.rows, Row(id, 1, FALSE, FALSE)))
      BY <2>2
    <3> DEFINE to == Append(artifacts.rows, Row(id, 1, FALSE, FALSE))
    <3>2. Recent(to, Now)
      <4> DEFINE row == Row(id, 1, FALSE, FALSE)
      <4>1. row \in RowType /\ row.ver = 1
        BY DEF Row, RowType
      <4>2. row.ver <= Now
        <5>1. 1 <= Now
          BY DEF Now, Typed
        <5> QED BY <4>1, <5>1
      <4> HIDE DEF row
      <4>3. Recent(Append(artifacts.rows, row), Now)
        BY <1>0, <4>1, <4>2, AppendRecent DEF Typed
      <4> QED BY <4>3 DEF row
    <3>3. UNCHANGED <<artifacts, mtime, draft, step, since, bound>>
          /\ lock' = [lock EXCEPT ![r] = [file |-> "artifacts", to |-> to]]
      BY <3>1 DEF Holds, steps
    <3> HIDE DEF to
    <3> QED BY <3>2, <3>3, LockTyped
  <2> QED BY <1>4, <2>1, <2>2 DEF AppendArtifact
<1>5. ASSUME NEW r \in Runs, AppendChangelog(r) PROVE Typed'
  BY <1>5, LockTyped DEF AppendChangelog, Holds, steps
<1>6. ASSUME NEW r \in Runs, PublishFails(r) PROVE Typed'
  BY <1>6, LockTyped DEF PublishFails, steps
<1>7. ASSUME NEW r \in Runs, Publish(r) PROVE Typed'
  <2>1. /\ bound' = bound /\ draft' = draft /\ step' = step /\ mtime' = mtime
        /\ lock' = [lock EXCEPT ![r] = Out]
    BY <1>7 DEF Publish, steps
  <2>2. \/ artifacts' = artifacts /\ since' = since
        \/ /\ lock[r].file = "artifacts"
           /\ artifacts' = [state |-> "whole", rows |-> lock[r].to]
           /\ Changes(lock[r].to, {})
    BY <1>7 DEF Publish
  <2>3. /\ artifacts' = [state |-> artifacts'.state, rows |-> artifacts'.rows]
        /\ Recent(artifacts'.rows, Now)
    BY <2>2 DEF Typed
  <2>4. since' \in [ids : SUBSET Files, own : SUBSET RowType, files : SUBSET Files, now : SUBSET Files]
    <3>1. CASE since' = since
      BY <3>1 DEF Typed
    <3>2. CASE Changes(lock[r].to, {})
      BY <1>0, <3>2 DEF Typed, Changes
    <3> QED BY <2>2, <3>1, <3>2
  <2>5. /\ lock' = [s \in Runs |-> lock'[s]]
        /\ \A s \in Runs : lock'[s] = lock[s] \/ lock'[s] = Out
    BY <2>1 DEF Typed
  <2>6. \A s \in Runs : /\ lock'[s] = [file |-> lock'[s].file, to |-> lock'[s].to]
                        /\ lock'[s].file \in {"none", "tasks", "artifacts", "changelog"}
                        /\ lock'[s].file = "none" => lock'[s] = Out
                        /\ lock'[s].file = "artifacts" => Recent(lock'[s].to, Now)
    BY <2>5 DEF Typed, Out
  <2> QED BY <2>1, <2>3, <2>4, <2>5, <2>6 DEF Typed, Recent, Now, Times
<1>8. ASSUME NEW e \in Runs \cup {Stepper}, EditBegins(e) PROVE Typed'
  <2>1. /\ Event /\ UNCHANGED <<lock, mtime, step, since>>
        /\ artifacts' = [artifacts EXCEPT !.state = "cut"]
    BY <1>8 DEF EditBegins, guests, steps
  <2>2. /\ bound' = [attempts |-> bound'.attempts, events |-> bound'.events]
        /\ bound'.events = bound.events + 1 /\ bound'.attempts = bound.attempts
    BY <2>1 DEF Event, Typed
  <2>3. /\ Times \subseteq Times' /\ (\A rows : Recent(rows, Now) => Recent(rows, Now'))
        /\ bound.events + 2 = Now' /\ Now' \in Nat
    BY <2>2, ClockKeeps DEF Typed, Now
  <2>4. Recent(artifacts.rows, Now')
    BY <2>3 DEF Typed
  <2>5. /\ draft'.by \in Runs \cup {Stepper}
        /\ Recent(draft'.rows, Now') /\ draft'.at \in DOMAIN draft'.rows
    <3>1. PICK row \in RowType : \E rows, at :
             /\ draft' = [by |-> e, at |-> at, rows |-> rows]
             /\ row.ver = bound.events + 2
             /\ \/ at = Len(artifacts.rows) + 1 /\ rows = Append(artifacts.rows, row)
                \/ at \in DOMAIN artifacts.rows /\ rows = [artifacts.rows EXCEPT ![at] = row]
      BY <1>8, EditedRow
    <3>2. PICK rows, at :
             /\ draft' = [by |-> e, at |-> at, rows |-> rows]
             /\ \/ at = Len(artifacts.rows) + 1 /\ rows = Append(artifacts.rows, row)
                \/ at \in DOMAIN artifacts.rows /\ rows = [artifacts.rows EXCEPT ![at] = row]
      BY <3>1
    <3>3. row.ver = Now'
      BY <2>3, <3>1
    <3> DEFINE n == Now'
    <3>4. n \in Int /\ row.ver <= n /\ Recent(artifacts.rows, n)
      BY <2>3, <2>4, <3>3
    <3> HIDE DEF n
    <3>5. CASE at = Len(artifacts.rows) + 1 /\ rows = Append(artifacts.rows, row)
      <4>1. Recent(rows, n) /\ at \in DOMAIN rows
        BY <3>4, <3>5, AppendRecent
      <4> QED BY <3>2, <4>1 DEF n
    <3>6. CASE at \in DOMAIN artifacts.rows /\ rows = [artifacts.rows EXCEPT ![at] = row]
      <4>1. Recent(rows, n) /\ at \in DOMAIN rows
        BY <3>4, <3>6, ExceptRecent
      <4> QED BY <3>2, <4>1 DEF n
    <3> QED BY <3>2, <3>5, <3>6
  <2>6. \A s \in Runs : lock[s].file = "artifacts" => Recent(lock[s].to, Now')
    BY <2>3 DEF Typed
  <2>7. mtime' \in [Files -> Times']
    BY <2>1, <2>3 DEF Typed
  <2> QED BY <2>1, <2>2, <2>4, <2>5, <2>6, <2>7 DEF Typed
<1>9. ASSUME NEW e \in Runs \cup {Stepper}, EditEnds(e) PROVE Typed'
  <2>1. /\ UNCHANGED <<lock, mtime, step, bound>> /\ draft' = NoDraft
        /\ artifacts' = [state |-> "whole", rows |-> draft.rows]
        /\ Changes(draft.rows, IF e = Stepper THEN {draft.rows[draft.at]} ELSE {})
    BY <1>9 DEF EditEnds, guests, steps
  <2>2. Recent(draft.rows, Now) /\ draft.at \in DOMAIN draft.rows
    BY <1>9, FeatureConstants DEF EditEnds, Typed, NoDraft, Nobody, Stepper, FeatureConstants
  <2>3. draft.rows[draft.at] \in RowType
    BY <2>2, ElementOfSeq, LenProperties DEF Recent
  <2>4. since' \in [ids : SUBSET Files, own : SUBSET RowType, files : SUBSET Files, now : SUBSET Files]
    BY <1>0, <2>1, <2>3 DEF Typed, Changes
  <2> QED BY <2>1, <2>2, <2>4 DEF Typed, Now, Times
<1>10. ASSUME NEW e \in Runs \cup {Stepper}, WriteFile(e) PROVE Typed'
  <2>1. PICK f \in Files, copy \in BOOLEAN :
           /\ mtime' = [mtime EXCEPT ![f] = IF copy THEN 0 - (bound.events + 2) ELSE bound.events + 2]
           /\ Writes(f, copy)
    BY <1>10 DEF WriteFile
  <2>2. Event /\ UNCHANGED <<artifacts, lock, draft, step>>
    BY <1>10 DEF WriteFile, guests, steps
  <2>3. /\ bound' = [attempts |-> bound'.attempts, events |-> bound'.events]
        /\ bound'.events = bound.events + 1 /\ bound'.attempts = bound.attempts
    BY <2>2 DEF Event, Typed
  <2>4. /\ Times \subseteq Times' /\ (\A rows : Recent(rows, Now) => Recent(rows, Now'))
        /\ bound.events + 2 = Now' /\ Now' \in Nat
    BY <2>3, ClockKeeps DEF Typed, Now
  <2>5. mtime' \in [Files -> Times']
    <3>1. Now' \in Times' /\ 0 - Now' \in Times'
      <4> DEFINE n == Now'
      <4>1. n \in (0 - n)..n /\ 0 - n \in (0 - n)..n
        <5>1. n \in Nat
          BY <2>4
        <5> HIDE DEF n
        <5> QED BY <5>1
      <4> QED BY <4>1 DEF Times
    <3> QED BY <2>1, <2>4, <3>1 DEF Typed
  <2>6. since' \in [ids : SUBSET Files, own : SUBSET RowType, files : SUBSET Files, now : SUBSET Files]
    BY <2>1 DEF Typed, Writes
  <2>7. /\ Recent(artifacts.rows, Now')
        /\ \A s \in Runs : lock[s].file = "artifacts" => Recent(lock[s].to, Now')
        /\ draft # NoDraft => Recent(draft.rows, Now')
    BY <2>4 DEF Typed
  <2> QED BY <2>2, <2>3, <2>5, <2>6, <2>7 DEF Typed
<1>11. CASE MarkStepStart
  BY <1>11 DEF MarkStepStart, Typed, Untouched, guests, Now, Times
<1>12. ASSUME NEW after, AttemptEnds(after), after \in {draft, NoDraft} PROVE Typed'
  BY <1>12 DEF AttemptEnds, Typed, Untouched, guests, Now, Times, NoDraft
<1>13. CASE Crash
  BY <1>13 DEF Crash, Typed, Untouched, Now, Times, NoDraft, Out
<1>14. CASE UNCHANGED vars
  BY <1>14 DEF vars, Typed, Now, Times
<1>15. Collect \/ StepFails => \E after \in {draft, NoDraft} : AttemptEnds(after)
  BY DEF Collect, StepFails
<1> QED BY <1>1, <1>2, <1>3, <1>4, <1>5, <1>6, <1>7, <1>8, <1>9, <1>10, <1>11, <1>12, <1>13,
           <1>14, <1>15 DEF Next, RunStep, Edit

-------------------------------------------------------------------------------
(* The changelog.                                                           *)

\* Entries are numbered from one.
LEMMA EntriesGrow ==
    ASSUME committed \in Seq(Runs), NEW r \in Runs
    PROVE  /\ Append(committed, r) \in Seq(Runs)
           /\ Entries(Append(committed, r))
              = Append(Entries(committed), [id |-> Len(Entries(committed)) + 1, run |-> r])
<1> DEFINE n == Len(committed)
<1>1. n \in Nat /\ DOMAIN committed = 1..n
  BY LenProperties
<1>2. /\ Append(committed, r) \in Seq(Runs)
      /\ DOMAIN Append(committed, r) = 1..(n + 1)
      /\ \A i \in 1..n : Append(committed, r)[i] = committed[i]
      /\ Append(committed, r)[n + 1] = r
  BY AppendProperties, LenProperties
<1> HIDE DEF n
<1>3. Entries(committed) = [i \in 1..n |-> [id |-> i, run |-> committed[i]]]
  BY <1>1 DEF Entries
<1>4. Len(Entries(committed)) = n
  BY <1>1, <1>3
<1>5. Append(Entries(committed), [id |-> n + 1, run |-> r])
      = [i \in 1..(n + 1) |-> IF i = n + 1 THEN [id |-> n + 1, run |-> r] ELSE Entries(committed)[i]]
  <2> DEFINE S == [id : Int, run : Runs]
             e == [id |-> n + 1, run |-> r]
             all == Append(Entries(committed), e)
  <2>1. Entries(committed) \in Seq(S)
    <3>1. \A i \in 1..n : committed[i] \in Runs
      BY <1>1, ElementOfSeq, LenProperties
    <3>2. Entries(committed) \in [1..n -> S]
      BY <1>1, <1>3, <3>1
    <3> HIDE DEF S
    <3> QED BY <1>1, <3>2, SeqDef
  <2>2. e \in S
    BY <1>1
  <2> HIDE DEF S, e
  <2>3. /\ all \in Seq(S) /\ Len(all) = n + 1 /\ all[n + 1] = e
        /\ \A i \in 1..n : all[i] = Entries(committed)[i]
    BY <1>4, <2>1, <2>2, AppendProperties
  <2>4. all = [i \in 1..(n + 1) |-> all[i]]
    BY <2>3, SeqDef, LenProperties
  <2>5. \A i \in 1..(n + 1) : all[i] = IF i = n + 1 THEN e ELSE Entries(committed)[i]
    BY <1>1, <2>3
  <2> HIDE DEF all
  <2> QED BY <2>4, <2>5 DEF all, e
<1>6. Entries(Append(committed, r))
      = [i \in 1..(n + 1) |-> [id |-> i, run |-> Append(committed, r)[i]]]
  BY <1>2 DEF Entries
<1>7. \A i \in 1..(n + 1) :
         [id |-> i, run |-> Append(committed, r)[i]]
         = IF i = n + 1 THEN [id |-> n + 1, run |-> r] ELSE Entries(committed)[i]
  BY <1>1, <1>2, <1>3
<1> QED BY <1>2, <1>4, <1>5, <1>6, <1>7

\* Between attempts nothing is remembered of the last.
LEMMA AtRestKept == Typed /\ AtRest /\ [Next]_vars => AtRest'
<1> SUFFICES ASSUME Typed, AtRest, [Next]_vars PROVE AtRest'
  OBVIOUS
<1>0. Stepper \notin Runs /\ Nobody \notin Runs /\ Nobody # Stepper
  BY FeatureConstants DEF FeatureConstants, Nobody, Stepper
<1>1. ASSUME NEW r \in Runs,
             SetTaskActive(r) \/ Skips(r) \/ UpdateTaskState(r) \/ AppendArtifact(r)
             \/ AppendChangelog(r) \/ PublishFails(r)
      PROVE  UNCHANGED <<step, marked, since, draft>>
  BY <1>1 DEF SetTaskActive, Skips, UpdateTaskState, AppendArtifact, AppendChangelog, Holds,
              Gives, PublishFails, steps
<1>2. ASSUME NEW r \in Runs, RunEnds(r) PROVE AtRest'
  BY <1>0, <1>2 DEF RunEnds, AtRest, NoDraft, steps
<1>3. ASSUME NEW r \in Runs, Publish(r) PROVE AtRest'
  BY <1>3 DEF Publish, Changes, AtRest, steps
<1>4. ASSUME NEW e \in Runs \cup {Stepper}, EditBegins(e) PROVE AtRest'
  <2>1. step = "ready" => e # Stepper
    BY <1>0, <1>4 DEF EditBegins, Working
  <2>2. draft'.by = e
    BY <1>4, EditedRow
  <2>3. UNCHANGED <<step, marked, since>>
    BY <1>4 DEF EditBegins, steps
  <2> QED BY <2>1, <2>2, <2>3 DEF AtRest
<1>5. ASSUME NEW e, EditEnds(e) PROVE AtRest'
  BY <1>0, <1>5 DEF EditEnds, Changes, AtRest, NoDraft, steps
<1>6. ASSUME NEW e, WriteFile(e) PROVE AtRest'
  BY <1>6 DEF WriteFile, Writes, AtRest, steps
<1>7. CASE MarkStepStart
  BY <1>7 DEF MarkStepStart, AtRest
<1>8. CASE Collect \/ StepFails \/ Crash
  BY <1>0, <1>8 DEF Collect, Collecting, StepFails, AttemptEnds, Crash, AtRest, NoDraft
<1>9. CASE UNCHANGED vars
  BY <1>9 DEF vars, AtRest
<1> QED BY <1>1, <1>2, <1>3, <1>4, <1>5, <1>6, <1>7, <1>8, <1>9 DEF Next, RunStep, Edit, AtRest

\* Every writer reads, changes and publishes alone.
LEMMA LogKept == Typed /\ LogInv /\ [Next]_vars => LogInv'
<1> SUFFICES ASSUME Typed, LogInv, [Next]_vars PROVE LogInv'
  OBVIOUS
<1>1. ASSUME UNCHANGED <<changelog, lock, committed>> PROVE LogInv'
  BY <1>1 DEF LogInv, Out, Entries
<1>2. ASSUME NEW r \in Runs, NEW name \in {"tasks", "artifacts", "changelog"}, NEW to,
             Holds(r, name, to),
             name = "changelog" => to = Append(changelog, [id |-> Len(changelog) + 1, run |-> r])
      PROVE  LogInv'
  BY <1>2 DEF Holds, Available, LogInv, Out, Entries, Typed
<1>3. ASSUME NEW r \in Runs, lock' = [lock EXCEPT ![r] = Out], UNCHANGED <<changelog, committed>>
      PROVE  LogInv'
  BY <1>3 DEF LogInv, Out, Entries, Typed
<1>4. ASSUME NEW r \in Runs, SetTaskActive(r) \/ UpdateTaskState(r) \/ AppendArtifact(r)
                             \/ AppendChangelog(r)
      PROVE  LogInv'
  <2>1. Gives(r) => UNCHANGED <<changelog, lock, committed>>
    BY DEF Gives
  <2>2. \/ Gives(r)
        \/ \E to : Holds(r, "tasks", to)
        \/ \E to : Holds(r, "artifacts", to)
        \/ Holds(r, "changelog", Append(changelog, [id |-> Len(changelog) + 1, run |-> r]))
    BY <1>4 DEF SetTaskActive, UpdateTaskState, AppendArtifact, AppendChangelog
  <2> QED BY <1>1, <1>2, <2>1, <2>2
<1>5. ASSUME NEW r \in Runs, Publish(r) PROVE LogInv'
  <2>1. lock' = [lock EXCEPT ![r] = Out] /\ lock[r] # Out
    BY <1>5 DEF Publish
  <2>2. CASE lock[r].file # "changelog"
    BY <1>3, <1>5, <2>1, <2>2 DEF Publish
  <2>3. CASE lock[r].file = "changelog"
    <3>1. changelog' = lock[r].to /\ committed' = Append(committed, r)
      BY <1>5, <2>3 DEF Publish
    <3>2. changelog' = Append(changelog, [id |-> Len(changelog) + 1, run |-> r])
      BY <2>3, <3>1 DEF LogInv
    <3>3. committed' \in Seq(Runs) /\ changelog' = Entries(committed')
      BY <3>1, <3>2, EntriesGrow DEF LogInv
    <3>4. \A s \in Runs : lock'[s] = Out
      BY <2>1 DEF LogInv, Typed
    <3> QED BY <3>3, <3>4 DEF LogInv, Out, Entries
  <2> QED BY <2>2, <2>3
<1>6. ASSUME NEW r \in Runs, PublishFails(r) PROVE LogInv'
  BY <1>3, <1>6 DEF PublishFails
<1>7. CASE Crash
  BY <1>7 DEF Crash, LogInv, Out, Entries
<1>8. ASSUME NEW r \in Runs, RunEnds(r) \/ Skips(r) PROVE LogInv'
  BY <1>1, <1>8 DEF RunEnds, Skips
<1>9. ASSUME NEW e, Edit(e) PROVE LogInv'
  BY <1>1, <1>9 DEF Edit, EditBegins, EditEnds, WriteFile, guests
<1>10. CASE MarkStepStart \/ Collect \/ StepFails
  BY <1>1, <1>10 DEF MarkStepStart, Collect, StepFails, AttemptEnds, guests
<1>11. CASE UNCHANGED vars
  BY <1>1, <1>11 DEF vars
<1> QED BY <1>4, <1>5, <1>6, <1>7, <1>8, <1>9, <1>10, <1>11 DEF Next, RunStep

\* What the file holds is what was committed, in that order.
LEMMA LogIsWhole == LogInv => ChangelogWhole
<1> SUFFICES ASSUME LogInv PROVE ChangelogWhole
  OBVIOUS
<1>1. DOMAIN changelog = DOMAIN committed
      /\ \A i \in DOMAIN committed : changelog[i] = [id |-> i, run |-> committed[i]]
  BY DEF LogInv, Entries
<1>2. committed = [i \in DOMAIN committed |-> committed[i]]
  BY SeqDef DEF LogInv
<1> QED BY <1>1, <1>2 DEF ChangelogWhole

\* Nothing was committed at the start.
LEMMA InitLog == Init => LogInv
<1> SUFFICES ASSUME Init PROVE LogInv
  OBVIOUS
<1>1. changelog = <<>> /\ committed = <<>> /\ lock = [r \in Runs |-> Out]
  BY DEF Init
<1>2. Entries(committed) = <<>>
  BY <1>1 DEF Entries
<1> QED BY <1>1, <1>2 DEF LogInv, Out

-------------------------------------------------------------------------------
(* Marks, and what was changed since.                                       *)

\* Nothing that the marks speak of moves: a guest on its way, or the clock.
LEMMA QuietKeepsMarks ==
    ASSUME Typed, MarksInv, bound'.events \in Nat, bound.events <= bound'.events,
           UNCHANGED <<mtime, step, marked, since>>,
           artifacts'.rows = artifacts.rows, draft' \in {draft, NoDraft}
    PROVE  MarksRecent' /\ WrittenLater' /\ OthersAsMarked'
<1>1. Times \subseteq Times' /\ Now <= Now' /\ Now \in Nat /\ Now' \in Nat
  BY ClockKeeps DEF Typed
<1>2. MarksRecent'
  <2>1. \A v \in Int : v <= Now => v <= Now'
    BY <1>1
  <2> QED BY <1>1, <2>1 DEF MarksInv, MarksRecent
<1>3. NoDraft.by # Stepper
  BY DEF NoDraft, Nobody, Stepper
<1>4. WrittenLater'
  BY <1>3 DEF MarksInv, WrittenLater
<1>5. OthersAsMarked'
  <2>1. \A f : FileAsMarked(f)' <=> FileAsMarked(f)
    BY DEF FileAsMarked
  <2>2. \A id : RowsOf(id)' = RowsOf(id)
    BY DEF RowsOf
  <2>3. \A id : IdAsMarked(id)' <=> IdAsMarked(id)
    BY <2>2 DEF IdAsMarked, Fingerprint
  <2> QED BY <2>1, <2>3 DEF MarksInv, OthersAsMarked
<1> QED BY <1>2, <1>4, <1>5

\* Other rows: what they change is noted.
LEMMA RowsKeepMarks ==
    ASSUME Typed, MarksInv, NEW rows, NEW own,
           UNCHANGED <<mtime, step, marked, bound>>, draft' \in {draft, NoDraft},
           artifacts'.rows = rows, Changes(rows, own),
           \A row \in own : \A id \in DOMAIN marked.entries : marked.entries[id][1] < row.ver
    PROVE  MarksRecent' /\ WrittenLater' /\ OthersAsMarked'
<1>1. MarksRecent'
  BY DEF MarksInv, MarksRecent, Times, Now
<1>2. NoDraft.by # Stepper
  BY DEF NoDraft, Nobody, Stepper
<1>3. /\ since'.own \subseteq since.own \cup own
      /\ since'.files = since.files /\ since'.now = since.now
      /\ since.ids \subseteq since'.ids
  BY DEF Changes, Typed
<1>4. WrittenLater'
  BY <1>2, <1>3 DEF MarksInv, WrittenLater
<1>5. ASSUME step = "running", marked.readable, NEW id \in Ids
      PROVE  id \in since'.ids \/ IdAsMarked(id)'
  <2>1. CASE Placed(rows, id) # Placed(artifacts.rows, id)
    BY <1>5, <2>1 DEF Changes, Typed
  <2>2. CASE id \in since.ids
    BY <1>3, <2>2
  <2>3. CASE Placed(rows, id) = Placed(artifacts.rows, id) /\ id \notin since.ids
    <3>1. IdAsMarked(id)
      BY <1>5, <2>3 DEF MarksInv, OthersAsMarked
    <3>2. /\ {i \in DOMAIN rows : rows[i].id = id} = {i \in DOMAIN artifacts.rows : artifacts.rows[i].id = id}
          /\ \A i \in DOMAIN rows : rows[i].id = id => rows[i] = artifacts.rows[i]
      BY <2>3, SamePlaces
    <3>3. RowsOf(id)' = RowsOf(id) /\ \A i \in RowsOf(id) : artifacts'.rows[i] = artifacts.rows[i]
      BY <3>2 DEF RowsOf
    <3>4. RowsOf(id) # {} => artifacts'.rows[Max(RowsOf(id))] = artifacts.rows[Max(RowsOf(id))]
      BY <3>3, LastRow
    <3> QED BY <3>1, <3>3, <3>4 DEF IdAsMarked, Fingerprint
  <2> QED BY <2>1, <2>2, <2>3
<1>6. OthersAsMarked'
  BY <1>3, <1>5 DEF MarksInv, OthersAsMarked, FileAsMarked
<1> QED BY <1>1, <1>4, <1>6

\* Another file: its time is one no mark has.
LEMMA WriteKeepsMarks ==
    ASSUME Typed, MarksInv, NEW e, WriteFile(e)
    PROVE  MarksRecent' /\ WrittenLater' /\ OthersAsMarked'
<1>1. PICK f \in Files, copy \in BOOLEAN :
         /\ mtime' = [mtime EXCEPT ![f] = IF copy THEN 0 - (bound.events + 2) ELSE bound.events + 2]
         /\ Writes(f, copy)
  BY DEF WriteFile
<1>2. Event /\ UNCHANGED <<artifacts, draft, step, marked>>
  BY DEF WriteFile, guests, steps
<1>3. bound'.events = bound.events + 1 /\ bound.events \in Nat
  BY <1>2 DEF Event, Typed
<1>4. Times \subseteq Times' /\ Now <= Now' /\ Now \in Nat /\ Now' \in Nat /\ bound.events + 2 = Now + 1
  BY <1>3, ClockKeeps DEF Now
<1>5. MarksRecent'
  <2>1. \A v \in Int : v <= Now => v <= Now'
    BY <1>4
  <2> QED BY <1>2, <1>4, <2>1 DEF MarksInv, MarksRecent
<1>6. /\ mtime'[f] \in Int /\ mtime'[f] \notin Times /\ mtime'[f] # 0
      /\ ~copy => mtime'[f] = Now + 1
      /\ \A g \in Files \ {f} : mtime'[g] = mtime[g]
  BY <1>1, <1>4 DEF Typed, Times
<1>7. CASE step = "ready"
  <2>1. marked = NoMarks /\ since = Untouched /\ since' = since /\ draft.by # Stepper
    BY <1>1, <1>7 DEF MarksInv, AtRest, Writes
  <2>2. WrittenLater'
    BY <1>2, <2>1 DEF WrittenLater, Untouched
  <2>3. OthersAsMarked'
    BY <1>2, <1>7 DEF OthersAsMarked
  <2> QED BY <1>5, <2>2, <2>3
<1>8. CASE step = "running"
  <2>1. /\ since'.ids = since.ids \cup {f} /\ since'.own = since.own
        /\ since'.files = since.files \cup {f}
        /\ since'.now = IF copy THEN since.now \ {f} ELSE since.now \cup {f}
    BY <1>1, <1>8 DEF Writes, Typed
  <2>2. WrittenLater'
    <3>1. \A row \in since'.own : \A id \in DOMAIN marked'.entries : marked'.entries[id][1] < row.ver
      BY <1>2, <2>1 DEF MarksInv, WrittenLater
    <3>2. draft'.by = Stepper =>
             \A id \in DOMAIN marked'.entries : marked'.entries[id][1] < draft'.rows[draft'.at].ver
      BY <1>2 DEF MarksInv, WrittenLater
    <3>3. ASSUME NEW g \in since'.files, g \in DOMAIN marked'.entries
          PROVE  marked'.entries[g][2] # mtime'[g]
      <4>1. CASE g = f
        <5>1. marked.entries[f][2] \in Times
          BY <1>2, <3>3, <4>1 DEF MarksInv, MarksRecent
        <5> QED BY <1>2, <1>6, <4>1, <5>1
      <4>2. CASE g # f
        BY <1>2, <1>6, <2>1, <3>3, <4>2 DEF MarksInv, WrittenLater, Typed
      <4> QED BY <4>1, <4>2
    <3>4. ASSUME NEW g \in since'.now
          PROVE  mtime'[g] > 0 /\ (g \in DOMAIN marked'.files => mtime'[g] > marked'.files[g])
      <4>1. CASE g = f
        <5>1. mtime'[f] = Now + 1
          BY <1>6, <2>1, <3>4, <4>1
        <5>2. f \in DOMAIN marked.files => marked.files[f] \in Times
          BY DEF MarksInv, MarksRecent
        <5> QED BY <1>2, <1>4, <4>1, <5>1, <5>2 DEF Times
      <4>2. CASE g # f
        BY <1>2, <1>6, <2>1, <3>4, <4>2 DEF MarksInv, WrittenLater, Typed
      <4> QED BY <4>1, <4>2
    <3> QED BY <3>1, <3>2, <3>3, <3>4 DEF WrittenLater
  <2>3. OthersAsMarked'
    <3>1. \A g \in Files \ {Cache} : g \in since'.files \/ FileAsMarked(g)'
      BY <1>2, <1>6, <1>8, <2>1 DEF MarksInv, OthersAsMarked, FileAsMarked
    <3>2. since'.files \cap Ids \subseteq since'.ids
      BY <1>8, <2>1 DEF MarksInv, OthersAsMarked
    <3>3. ASSUME marked.readable, NEW id \in Ids PROVE id \in since'.ids \/ IdAsMarked(id)'
      <4>1. CASE id = f \/ id \in since.ids
        BY <2>1, <4>1
      <4>2. CASE id # f /\ id \notin since.ids
        <5>1. IdAsMarked(id) /\ RowsOf(id)' = RowsOf(id)
          BY <1>2, <1>8, <3>3, <4>2 DEF MarksInv, OthersAsMarked, RowsOf
        <5>2. RowsOf(id) # {} => artifacts.rows[Max(RowsOf(id))].id = id
          BY LastRow DEF RowsOf
        <5>3. id \in Files \ {f}
          BY <4>2 DEF Files
        <5> QED BY <1>2, <1>6, <5>1, <5>2, <5>3 DEF IdAsMarked, Fingerprint
      <4> QED BY <4>1, <4>2
    <3> QED BY <1>2, <3>1, <3>2, <3>3 DEF OthersAsMarked
  <2> QED BY <1>5, <2>2, <2>3
<1> QED BY <1>7, <1>8 DEF Typed

\* The marks of an attempt are taken.
LEMMA MarkKeepsMarks ==
    ASSUME Typed, MarksInv, MarkStepStart
    PROVE  MarksRecent' /\ WrittenLater' /\ OthersAsMarked'
<1>1. /\ step = "ready" /\ marked' = Marks /\ since' = Untouched
      /\ UNCHANGED <<artifacts, mtime, draft>>
      /\ bound'.events = bound.events
  BY DEF MarkStepStart, Typed
<1>2. draft.by # Stepper
  BY <1>1 DEF MarksInv, AtRest
<1>3. Times' = Times /\ Now' = Now
  BY <1>1 DEF Times, Now
<1>4. ASSUME NEW id \in Ids, RowsOf(id) # {}
      PROVE  \E v \in Int, t \in Times :
                v <= Now /\ Fingerprint(artifacts.rows[Max(RowsOf(id))]) = <<v, t>>
  <2> DEFINE row == artifacts.rows[Max(RowsOf(id))]
  <2>1. Max(RowsOf(id)) \in DOMAIN artifacts.rows
    BY <1>4, LastRow DEF RowsOf
  <2>2. row \in RowType /\ row.ver <= Now
    BY <2>1, ElementOfSeq, LenProperties DEF Typed, Recent
  <2> HIDE DEF row
  <2>3. mtime[row.id] \in Times /\ row.ver \in Int
    BY <2>2 DEF RowType, Typed, Files
  <2> QED BY <2>2, <2>3 DEF Fingerprint, row
<1>5. /\ marked'.entries = Fingerprints
      /\ marked'.files = [f \in Walked |-> mtime[f]]
      /\ marked'.readable => artifacts.state = "whole"
  BY <1>1 DEF Marks
<1>6. MarksRecent'
  <2>1. \A id \in DOMAIN marked'.entries :
           \E v \in Int, t \in Times : v <= Now /\ marked'.entries[id] = <<v, t>>
    BY <1>4, <1>5 DEF Fingerprints
  <2>2. Walked \subseteq Files
    BY DEF Walked
  <2>3. DOMAIN marked'.files \subseteq Files /\ \A f \in DOMAIN marked'.files : marked'.files[f] \in Times
    BY <1>5, <2>2 DEF Typed
  <2> QED BY <1>3, <2>1, <2>3 DEF MarksRecent
<1>7. WrittenLater'
  BY <1>1, <1>2 DEF WrittenLater, Untouched
<1>8. OthersAsMarked'
  <2>1. \A f \in Files \ {Cache} : FileAsMarked(f)'
    BY <1>1, <1>5 DEF FileAsMarked, Walked, Skipped
  <2>2. marked'.readable => \A id \in Ids : IdAsMarked(id)'
    <3>1. \A id : RowsOf(id)' = RowsOf(id)
      BY <1>1 DEF RowsOf
    <3>2. artifacts.state = "whole" =>
             \A id \in Ids : /\ id \in DOMAIN Fingerprints <=> RowsOf(id) # {}
                             /\ RowsOf(id) # {} =>
                                   Fingerprints[id] = Fingerprint(artifacts.rows[Max(RowsOf(id))])
      BY DEF Fingerprints
    <3>3. \A row : Fingerprint(row)' = Fingerprint(row)
      BY <1>1 DEF Fingerprint
    <3> QED BY <1>1, <1>5, <3>1, <3>2, <3>3 DEF IdAsMarked, Fingerprint
  <2> QED BY <1>1, <2>1, <2>2 DEF OthersAsMarked, Untouched
<1> QED BY <1>6, <1>7, <1>8

\* Every step keeps what the marks say.
LEMMA MarksKept == Typed /\ MarksInv /\ [Next]_vars => MarksInv'
<1> SUFFICES ASSUME Typed, MarksInv, [Next]_vars PROVE MarksRecent' /\ WrittenLater' /\ OthersAsMarked'
  BY AtRestKept DEF MarksInv
<1>0. bound.events \in Nat /\ bound.events <= bound.events
  BY DEF Typed
<1>1. ASSUME NEW r \in Runs,
             RunEnds(r) \/ SetTaskActive(r) \/ Skips(r) \/ UpdateTaskState(r) \/ AppendArtifact(r)
             \/ AppendChangelog(r)
      PROVE  MarksRecent' /\ WrittenLater' /\ OthersAsMarked'
  <2>1. UNCHANGED <<artifacts, mtime, bound, step, marked, since>> /\ draft' \in {draft, NoDraft}
    BY <1>1 DEF RunEnds, SetTaskActive, Skips, UpdateTaskState, AppendArtifact, AppendChangelog,
                Holds, Gives, steps
  <2> QED BY <1>0, <2>1, QuietKeepsMarks
<1>2. ASSUME NEW r \in Runs, PublishFails(r)
      PROVE  MarksRecent' /\ WrittenLater' /\ OthersAsMarked'
  <2>1. UNCHANGED <<artifacts, mtime, step, marked, since>> /\ draft' \in {draft, NoDraft} /\ Event
    BY <1>2 DEF PublishFails, steps
  <2>2. bound'.events \in Nat /\ bound.events <= bound'.events
    BY <2>1 DEF Event, Typed
  <2> QED BY <2>1, <2>2, QuietKeepsMarks
<1>3. ASSUME NEW r \in Runs, Publish(r)
      PROVE  MarksRecent' /\ WrittenLater' /\ OthersAsMarked'
  <2>1. UNCHANGED <<mtime, bound, step, marked>> /\ draft' \in {draft, NoDraft}
    BY <1>3 DEF Publish, steps
  <2>2. CASE UNCHANGED <<artifacts, since>>
    BY <1>0, <2>1, <2>2, QuietKeepsMarks
  <2>3. CASE artifacts' = [state |-> "whole", rows |-> lock[r].to] /\ Changes(lock[r].to, {})
    BY <2>1, <2>3, RowsKeepMarks
  <2> QED BY <1>3, <2>2, <2>3 DEF Publish
<1>4. ASSUME NEW e, EditBegins(e)
      PROVE  MarksRecent' /\ WrittenLater' /\ OthersAsMarked'
  <2>1. /\ Event /\ UNCHANGED <<mtime, step, marked, since>>
        /\ artifacts'.rows = artifacts.rows
    BY <1>4 DEF EditBegins, steps, Typed
  <2>2. bound'.events = bound.events + 1
    BY <2>1 DEF Event, Typed
  <2>3. /\ \A id \in DOMAIN marked.entries :
             marked.entries[id][1] \in Int /\ marked.entries[id][1] <= Now
    BY DEF MarksInv, MarksRecent
  <2>4. \A id \in DOMAIN marked.entries : marked.entries[id][1] < bound.events + 2
    BY <1>0, <2>3 DEF Now
  <2>5. draft'.rows[draft'.at].ver = bound.events + 2
    <3>1. PICK row \in RowType : \E rows, at :
             /\ draft' = [by |-> e, at |-> at, rows |-> rows]
             /\ row.ver = bound.events + 2
             /\ \/ at = Len(artifacts.rows) + 1 /\ rows = Append(artifacts.rows, row)
                \/ at \in DOMAIN artifacts.rows /\ rows = [artifacts.rows EXCEPT ![at] = row]
      BY <1>4, EditedRow
    <3>2. PICK rows, at :
             /\ draft' = [by |-> e, at |-> at, rows |-> rows]
             /\ \/ at = Len(artifacts.rows) + 1 /\ rows = Append(artifacts.rows, row)
                \/ at \in DOMAIN artifacts.rows /\ rows = [artifacts.rows EXCEPT ![at] = row]
      BY <3>1
    <3>3. rows[at] = row
      BY <3>2, AppendProperties DEF Typed, Recent
    <3> QED BY <3>1, <3>2, <3>3
  <2>6. MarksRecent' /\ WrittenLater' /\ OthersAsMarked'
    <3>1. Times \subseteq Times' /\ Now <= Now' /\ Now \in Nat /\ Now' \in Nat
      BY <1>0, <2>2, ClockKeeps
    <3>2. MarksRecent'
      <4>1. \A v \in Int : v <= Now => v <= Now'
        BY <3>1
      <4> QED BY <2>1, <3>1, <4>1 DEF MarksInv, MarksRecent
    <3>3. WrittenLater'
      BY <2>1, <2>4, <2>5 DEF MarksInv, WrittenLater
    <3>4. OthersAsMarked'
      <4>1. \A f : FileAsMarked(f)' <=> FileAsMarked(f)
        BY <2>1 DEF FileAsMarked
      <4>2. \A id : RowsOf(id)' = RowsOf(id)
        BY <2>1 DEF RowsOf
      <4>3. \A id : IdAsMarked(id)' <=> IdAsMarked(id)
        BY <2>1, <4>2 DEF IdAsMarked, Fingerprint
      <4> QED BY <2>1, <4>1, <4>3 DEF MarksInv, OthersAsMarked
    <3> QED BY <3>2, <3>3, <3>4
  <2> QED BY <2>6
<1>5. ASSUME NEW e, EditEnds(e), e \in Runs \cup {Stepper}
      PROVE  MarksRecent' /\ WrittenLater' /\ OthersAsMarked'
  <2> DEFINE own == IF e = Stepper THEN {draft.rows[draft.at]} ELSE {}
  <2>1. /\ UNCHANGED <<mtime, step, marked, bound>> /\ draft' \in {draft, NoDraft}
        /\ draft.by = e /\ artifacts'.rows = draft.rows /\ Changes(draft.rows, own)
    BY <1>5 DEF EditEnds, steps
  <2>2. \A row \in own : \A id \in DOMAIN marked.entries : marked.entries[id][1] < row.ver
    BY <2>1 DEF MarksInv, WrittenLater
  <2> HIDE DEF own
  <2> QED BY <2>1, <2>2, RowsKeepMarks
<1>6. ASSUME NEW e, WriteFile(e)
      PROVE  MarksRecent' /\ WrittenLater' /\ OthersAsMarked'
  BY <1>6, WriteKeepsMarks
<1>7. CASE MarkStepStart
  BY <1>7, MarkKeepsMarks
<1>8. CASE Collect \/ StepFails \/ Crash
  <2>1. /\ step' = "ready" /\ marked' = NoMarks /\ since' = Untouched
        /\ draft'.by # Stepper
    BY <1>8 DEF Collect, Collecting, StepFails, AttemptEnds, Crash, NoDraft, Nobody, Stepper
  <2> QED BY <2>1 DEF MarksRecent, WrittenLater, OthersAsMarked, NoMarks, Untouched
<1>9. CASE UNCHANGED vars
  <2>1. UNCHANGED <<artifacts, mtime, bound, step, marked, since>> /\ draft' \in {draft, NoDraft}
    BY <1>9 DEF vars
  <2> QED BY <1>0, <2>1, QuietKeepsMarks
<1> QED BY <1>1, <1>2, <1>3, <1>4, <1>5, <1>6, <1>7, <1>8, <1>9 DEF Next, RunStep, Edit

\* The attempt begins without marks.
LEMMA InitMarks == Init => MarksInv
BY FeatureConstants DEF Init, MarksInv, AtRest, MarksRecent, WrittenLater, OthersAsMarked,
   NoMarks, Untouched, NoDraft, Nobody, Stepper

\* What was written since the mark has another fingerprint, and another time.
LEMMA WrittenIsCollected ==
    ASSUME Typed, MarksInv
    PROVE  TouchedCollected /\ WrittenCollected
<1>1. TouchedCollected
  <2> SUFFICES ASSUME artifacts.state = "whole", NEW i \in DOMAIN artifacts.rows,
                      artifacts.rows[i] \in since.own \/ artifacts.rows[i].id \in since.files,
                      ~artifacts.rows[i].rejected
               PROVE  artifacts.rows[i].id \in CollectedIds
    BY DEF TouchedCollected
  <2> DEFINE row == artifacts.rows[i]
  <2>1. CASE row.id \notin DOMAIN marked.entries
    BY <2>1 DEF Surfaces, CollectedIds
  <2>2. CASE row.id \in DOMAIN marked.entries
    <3>1. PICK v \in Int, t \in Times : marked.entries[row.id] = <<v, t>>
      BY <2>2 DEF MarksInv, MarksRecent
    <3>2. row \in RowType
      BY ElementOfSeq, LenProperties DEF Typed, Recent
    <3>3. row.ver \in Int
      BY <3>2 DEF RowType
    <3>4. v < row.ver \/ t # mtime[row.id]
      BY <2>2, <3>1 DEF MarksInv, WrittenLater
    <3>5. marked.entries[row.id] # Fingerprint(row)
      BY <3>1, <3>3, <3>4 DEF Fingerprint
    <3> QED BY <3>5 DEF Surfaces, CollectedIds
  <2> QED BY <2>1, <2>2
<1>2. WrittenCollected
  <2>1. since.now \subseteq Files /\ \A f \in Files : mtime[f] \in Int
    BY DEF Typed, Times, Now
  <2>2. \A f \in since.now : mtime[f] > 0 /\ (f \in DOMAIN marked.files => mtime[f] > marked.files[f])
    BY DEF MarksInv, WrittenLater
  <2> QED BY <2>1, <2>2 DEF WrittenCollected, CollectedFiles, Walked, Skipped, Newer
<1> QED BY <1>1, <1>2

\* What has its marked fingerprint, or time, is not collected.
LEMMA UnchangedIsNot ==
    ASSUME Typed, MarksInv
    PROVE  OnlyChanged
<1> SUFFICES ASSUME Collecting
             PROVE  /\ CollectedFiles \subseteq since.files
                    /\ marked.readable => \A id \in CollectedIds : Plain(id) => id \in since.ids
  BY DEF OnlyChanged
<1>0. step = "running"
  BY DEF Collecting
<1>1. ASSUME NEW f \in CollectedFiles, f \notin since.files PROVE FALSE
  <2>1. f \in Files \ {Cache} /\ mtime[f] # 0 /\ mtime[f] \in Int
    BY <1>1 DEF CollectedFiles, Walked, Skipped, Typed, Times, Now
  <2>2. f \in DOMAIN marked.files /\ marked.files[f] = mtime[f]
    BY <1>0, <1>1, <2>1 DEF MarksInv, OthersAsMarked, FileAsMarked
  <2> QED BY <1>1, <2>1, <2>2 DEF CollectedFiles, Newer
<1>2. ASSUME marked.readable, NEW id \in CollectedIds, Plain(id), id \notin since.ids PROVE FALSE
  <2>1. PICK i \in DOMAIN artifacts.rows : Surfaces(artifacts.rows[i]) /\ artifacts.rows[i].id = id
    BY <1>2 DEF CollectedIds
  <2>2. i \in RowsOf(id)
    BY <2>1 DEF RowsOf
  <2>3. RowsOf(id) = {i}
    <3>1. RowsOf(id) \subseteq 1..Len(artifacts.rows) /\ Len(artifacts.rows) \in Nat
      BY LenProperties DEF Typed, Recent, RowsOf
    <3>2. IsFiniteSet(RowsOf(id))
      <4>1. IsFiniteSet(1..Len(artifacts.rows))
        BY <3>1, FS_Interval
      <4> QED BY <3>1, <4>1, FS_Subset
    <3>3. PICK j : RowsOf(id) = {j}
      BY <1>2, <3>2, FS_Singleton DEF Plain
    <3> QED BY <2>2, <3>3
  <2>4. Max(RowsOf(id)) = i
    BY <2>2, <2>3, LastRow
  <2>5. artifacts.rows[i] \in RowType
    BY ElementOfSeq, LenProperties DEF Typed, Recent
  <2>6. id \in Ids
    BY <2>1, <2>5 DEF RowType
  <2>7. IdAsMarked(id)
    BY <1>0, <1>2, <2>6 DEF MarksInv, OthersAsMarked
  <2>8. id \in DOMAIN marked.entries /\ marked.entries[id] = Fingerprint(artifacts.rows[i])
    BY <2>2, <2>4, <2>7 DEF IdAsMarked
  <2>9. ~artifacts.rows[i].stamped
    BY <1>2, <2>2 DEF Plain
  <2> QED BY <2>1, <2>8, <2>9 DEF Surfaces
<1> QED BY <1>1, <1>2

\* The invariant holds of every behavior, and with it types, changelog and marks.
THEOREM FeatureInvariant == Spec => []FeatureInv
<1>1. Init => FeatureInv
  BY InitTyped, InitLog, InitMarks DEF FeatureInv
<1>2. FeatureInv /\ [Next]_vars => FeatureInv'
  BY StepTyped, LogKept, MarksKept DEF FeatureInv, MarksInv
<1> QED BY <1>1, <1>2, PTL DEF Spec

\* The entries of the changelog are those that were written, in order, each with an
\* id of its own: no append of a guest is lost or doubled, for any number of guests
\* that append at once and wherever the process dies (featureLock, AppendChangelog).
THEOREM ChangelogIsWhole == Spec => []ChangelogWhole
<1>1. FeatureInv => ChangelogWhole
  BY LogIsWhole DEF FeatureInv
<1> QED BY <1>1, FeatureInvariant, PTL

\* What Collect returns for a step is what the step changed: rows its agent wrote
\* surface, and files; rows and files nobody touched do not, whatever guests append
\* or agents edit and copy meanwhile (ContextArtifactProvider,
\* FilesystemArtifactProvider).
THEOREM AlwaysCollected == Spec => []Collected
<1>1. FeatureInv => Collected
  BY WrittenIsCollected, UnchangedIsNot DEF FeatureInv, Collected
<1> QED BY <1>1, FeatureInvariant, PTL

-------------------------------------------------------------------------------
(* Stories: edits of a proposal, and what the user has answered.             *)

\* A sequence is a sequence of its elements.
IsSequence(s) == s \in Seq(Range(s))

\* What a guest has proposed so far has texts of its own, one edit each; what is
\* left to check goes before what was found valid.
EditsOf(g) == Range(guest[g].edits) \cup Range(guest[g].valid)
Proposed(g) ==
    /\ guest[g] = [at |-> guest[g].at, seen |-> guest[g].seen,
                   edits |-> guest[g].edits, valid |-> guest[g].valid]
    /\ IsSequence(guest[g].edits) /\ IsSequence(guest[g].valid)
    /\ guest[g].at \in {"idle", "run"} => guest[g].edits = <<>> /\ guest[g].valid = <<>>
    /\ \A e \in EditsOf(g) : \E n \in Nat \ {0} : e.text = <<g, n>>
    /\ \A e, d \in EditsOf(g) : e.text = d.text => e = d
    /\ \A e \in Range(guest[g].valid) : e.section = Stories!None \/ e.after = Stories!None

\* A proposal has keys when it is staged, and none of them is no place at all.
Staged(g) ==
    /\ guest[g].at # "done" => DOMAIN status[g] = {}
    /\ Stories!None \notin DOMAIN status[g]

\* A text that is written, or about to be, is the user's or that of an edit whose key
\* has been answered.
Settled(t) ==
    \/ t[2] = 0
    \/ \E g \in Guests : \E e \in Range(guest[g].valid) :
          /\ guest[g].at = "done" /\ e.text = t
          /\ Stories!Key(g, e) \in DOMAIN status[g]
          /\ status[g][Stories!Key(g, e)] # "pending"

StoryInv ==
    /\ guest = [g \in Guests |-> guest[g]] /\ status = [g \in Guests |-> status[g]]
    /\ request = [u \in Requests |-> request[u]]
    /\ \A g \in Guests : Proposed(g) /\ Staged(g)
    /\ \A u \in Requests : /\ request[u] = [at |-> request[u].at, edit |-> request[u].edit,
                                            by |-> request[u].by, out |-> request[u].out]
                           /\ Settled(request[u].edit.text)
    /\ \A t \in applied : Settled(t)

\* What Head, Tail and Append do to a sequence of its elements.
LEMMA SequenceHead ==
    ASSUME NEW s, IsSequence(s), s # <<>>
    PROVE  Head(s) \in Range(s) /\ IsSequence(Tail(s)) /\ Range(Tail(s)) \subseteq Range(s)
<1>1. Head(s) \in Range(s) /\ Tail(s) \in Seq(Range(s))
  BY HeadTailProperties DEF IsSequence
<1>2. Range(Tail(s)) \subseteq Range(s)
  BY <1>1, ElementOfSeq, LenProperties DEF Range
<1>3. IsSequence(Tail(s))
  <2> DEFINE t == Tail(s)
  <2>1. Len(t) \in Nat /\ t \in [1..Len(t) -> Range(s)]
    BY <1>1, LenProperties
  <2> HIDE DEF t
  <2>2. t \in [1..Len(t) -> Range(t)]
    BY <2>1 DEF Range
  <2>3. t \in Seq(Range(t))
    BY <2>1, <2>2, SeqDef
  <2> QED BY <2>3 DEF IsSequence, t
<1> QED BY <1>1, <1>2, <1>3

LEMMA SequenceAppend ==
    ASSUME NEW s, IsSequence(s), NEW e
    PROVE  IsSequence(Append(s, e)) /\ Range(Append(s, e)) = Range(s) \cup {e}
<1> DEFINE S == Range(s) \cup {e}
<1>1. s \in Seq(S)
  BY SeqDef DEF IsSequence, Range
<1>2. /\ Append(s, e) \in Seq(S) /\ Len(s) \in Nat /\ DOMAIN s = 1..Len(s)
      /\ DOMAIN Append(s, e) = 1..(Len(s) + 1)
      /\ \A i \in 1..Len(s) : Append(s, e)[i] = s[i]
      /\ Append(s, e)[Len(s) + 1] = e
  <2> HIDE DEF S
  <2>1. e \in S
    BY DEF S
  <2> QED BY <1>1, <2>1, AppendProperties, LenProperties
<1>3. Range(Append(s, e)) = S
  BY <1>2 DEF Range
<1> QED BY <1>2, <1>3 DEF IsSequence

\* A set of numbers with a bound has a least member.
LEMMA LeastMember ==
    ASSUME NEW n \in Nat, NEW S \in SUBSET (1..n), S # {}
    PROVE  Stories!Min(S) \in S
<1>0. S \in SUBSET Nat /\ S # {}
  OBVIOUS
<1>1. PICK m \in S : \A k \in S : ~ (<<k, m>> \in OpToRel(<, Nat))
  BY <1>0, WFMin, NatLessThanWellFounded
<1>2. \A k \in S : ~ (k < m)
  BY <1>0, <1>1 DEF OpToRel
<1>3. \A k \in S : m <= k
  BY <1>0, <1>2
<1> QED BY <1>3 DEF Stories!Min

\* Nothing is proposed or asked for at the start.
LEMMA InitStory == Stories!Init => StoryInv
<1> SUFFICES ASSUME Stories!Init PROVE StoryInv
  OBVIOUS
<1>1. IsSequence(<<>>) /\ Range(<<>>) = {}
  BY EmptySeq DEF IsSequence, Range
<1>2. \A g \in Guests : guest[g] = [at |-> "idle", seen |-> <<>>, edits |-> <<>>, valid |-> <<>>]
  BY DEF Stories!Init
<1>3. \A g \in Guests : Proposed(g)
  BY <1>1, <1>2 DEF Proposed, EditsOf
<1>4. \A g \in Guests : Staged(g)
  BY DEF Stories!Init, Staged
<1>5. \A u \in Requests :
         request[u] = [at |-> "idle", edit |-> Stories!NoEdit, by |-> Stories!None, out |-> <<>>]
  BY DEF Stories!Init
<1>6. Stories!NoEdit.text = <<Stories!None, 0>>
  BY DEF Stories!NoEdit, Stories!Edit
<1>7. \A u \in Requests : Settled(request[u].edit.text)
  BY <1>5, <1>6 DEF Settled
<1> QED BY <1>3, <1>4, <1>5, <1>7 DEF StoryInv, Stories!Init

\* A guest that has not staged its proposal moves alone.
LEMMA GuestMoves ==
    ASSUME StoryInv, NEW g \in Guests, guest[g].at # "done", NEW now, NEW keys,
           guest' = [guest EXCEPT ![g] = now], status' = [status EXCEPT ![g] = keys],
           UNCHANGED <<request, applied>>, Proposed(g)', Staged(g)'
    PROVE  StoryInv'
<1>1. \A h \in Guests : h # g => guest'[h] = guest[h] /\ status'[h] = status[h]
  BY DEF StoryInv
<1>2. ASSUME NEW h \in Guests PROVE Proposed(h)' /\ Staged(h)'
  <2>1. CASE h = g
    BY <2>1
  <2>2. CASE h # g
    <3>1. guest'[h] = guest[h] /\ status'[h] = status[h] /\ Proposed(h) /\ Staged(h)
      BY <1>1, <2>2 DEF StoryInv
    <3>2. Proposed(h)'
      BY <3>1 DEF Proposed, EditsOf
    <3>3. Staged(h)'
      BY <3>1 DEF Staged
    <3> QED BY <3>2, <3>3
  <2> QED BY <2>1, <2>2
<1>3. ASSUME NEW t, Settled(t) PROVE Settled(t)'
  BY <1>1, <1>3 DEF Settled
<1>4. guest' = [h \in Guests |-> guest'[h]] /\ status' = [h \in Guests |-> status'[h]]
  BY DEF StoryInv
<1> QED BY <1>2, <1>3, <1>4 DEF StoryInv

\* What a guest reads, answers, checks and stages.
LEMMA GuestKept ==
    ASSUME StoryInv, NEW g \in Guests, Stories!GuestStep(g)
    PROVE  StoryInv'
<1>0. /\ guest = [h \in Guests |-> guest[h]] /\ status = [h \in Guests |-> status[h]]
      /\ Proposed(g) /\ Staged(g)
      /\ guest[g] = [at |-> guest[g].at, seen |-> guest[g].seen,
                     edits |-> guest[g].edits, valid |-> guest[g].valid]
  BY DEF StoryInv, Proposed
<1>1. status = [status EXCEPT ![g] = status[g]]
  BY <1>0
<1>2. CASE Stories!ReadContext(g)
  <2>1. /\ guest[g].at = "idle"
        /\ guest' = [guest EXCEPT ![g] = [guest[g] EXCEPT !.at = "run", !.seen = Stories!Revs(file)]]
        /\ UNCHANGED <<status, request, applied>>
    BY <1>2 DEF Stories!ReadContext
  <2>2. /\ guest'[g].at = "run" /\ guest'[g].edits = guest[g].edits /\ guest'[g].valid = guest[g].valid
        /\ guest'[g] = [at |-> guest'[g].at, seen |-> guest'[g].seen,
                        edits |-> guest'[g].edits, valid |-> guest'[g].valid]
    BY <1>0, <2>1
  <2>3. Proposed(g)' /\ Staged(g)'
    BY <1>0, <2>1, <2>2 DEF Proposed, EditsOf, Staged
  <2> QED BY <1>1, <2>1, <2>3, GuestMoves
<1>3. CASE Stories!Answer(g)
  <2> DEFINE Rev(cites, s) ==
        IF cites /\ s \in DOMAIN guest[g].seen THEN guest[g].seen[s] ELSE <<>>
  <2>1. PICK answer \in Answers, cites \in BOOLEAN :
           guest' = [guest EXCEPT ![g].at = "check",
             ![g].edits = [i \in DOMAIN answer |->
                Stories!Edit(answer[i], Rev(cites, answer[i].section), <<g, i>>)]]
    BY <1>3 DEF Stories!Answer
  <2> DEFINE edits == [i \in DOMAIN answer |->
                Stories!Edit(answer[i], Rev(cites, answer[i].section), <<g, i>>)]
  <2>2. guest[g].at = "run" /\ UNCHANGED <<status, request, applied>>
    BY <1>3 DEF Stories!Answer
  <2>3. DOMAIN answer = 1..Len(answer) /\ Len(answer) \in Nat
    BY LenProperties, SharedConstants DEF SharedConstants
  <2>4. DOMAIN edits = 1..Len(answer) /\ \A i \in 1..Len(answer) : edits[i].text = <<g, i>>
    BY <2>3 DEF Stories!Edit
  <2>5. edits \in [1..Len(answer) -> Range(edits)]
    BY <2>3 DEF Range
  <2>6. guest' = [guest EXCEPT ![g] = [guest[g] EXCEPT !.at = "check", !.edits = edits]]
    BY <2>1
  <2> HIDE DEF edits
  <2>7. IsSequence(edits)
    BY <2>3, <2>5, SeqDef DEF IsSequence
  <2>8. /\ guest'[g].at = "check" /\ guest'[g].edits = edits /\ guest'[g].valid = <<>>
        /\ guest'[g] = [at |-> guest'[g].at, seen |-> guest'[g].seen,
                        edits |-> guest'[g].edits, valid |-> guest'[g].valid]
    BY <1>0, <2>2, <2>6 DEF Proposed
  <2>9. Range(edits) = {edits[i] : i \in 1..Len(answer)} /\ Range(<<>>) = {}
    BY <2>4 DEF Range
  <2>10. Proposed(g)'
    <3>1. IsSequence(<<>>)
      BY EmptySeq DEF IsSequence
    <3>2. EditsOf(g)' = Range(edits)
      BY <2>8, <2>9 DEF EditsOf
    <3>3. \A e \in Range(edits) : \E i \in 1..Len(answer) : e = edits[i] /\ e.text = <<g, i>>
      BY <2>4, <2>9
    <3>4. \A e \in Range(edits) : \E n \in Nat \ {0} : e.text = <<g, n>>
      BY <2>3, <3>3
    <3>5. \A e, d \in Range(edits) : e.text = d.text => e = d
      BY <2>3, <3>3
    <3> QED BY <2>7, <2>8, <2>9, <3>1, <3>2, <3>4, <3>5 DEF Proposed
  <2>11. Staged(g)'
    BY <1>0, <2>2, <2>8 DEF Staged
  <2> QED BY <1>1, <2>2, <2>6, <2>10, <2>11, GuestMoves
<1>4. CASE Stories!CheckRevision(g)
  <2> DEFINE edit == Head(guest[g].edits)
             ok == ~(edit.section # Stories!None /\ edit.after # Stories!None) /\ Stories!Fresh(file, edit)
             valid == IF ok THEN Append(guest[g].valid, edit) ELSE guest[g].valid
  <2>1. /\ guest[g].at = "check" /\ guest[g].edits # <<>>
        /\ guest' = [guest EXCEPT ![g] = [guest[g] EXCEPT !.edits = Tail(guest[g].edits), !.valid = valid]]
        /\ UNCHANGED <<status, request, applied>>
    BY <1>4 DEF Stories!CheckRevision
  <2>2. /\ guest'[g].at = "check" /\ guest'[g].edits = Tail(guest[g].edits) /\ guest'[g].valid = valid
        /\ guest'[g] = [at |-> guest'[g].at, seen |-> guest'[g].seen,
                        edits |-> guest'[g].edits, valid |-> guest'[g].valid]
    BY <1>0, <2>1
  <2>3. /\ edit \in Range(guest[g].edits) /\ IsSequence(Tail(guest[g].edits))
        /\ Range(Tail(guest[g].edits)) \subseteq Range(guest[g].edits)
    BY <1>0, <2>1, SequenceHead DEF Proposed
  <2>4. /\ IsSequence(valid) /\ Range(valid) \subseteq Range(guest[g].valid) \cup {edit}
        /\ \A e \in Range(valid) : e.section = Stories!None \/ e.after = Stories!None
    BY <1>0, SequenceAppend DEF Proposed
  <2>5. Proposed(g)'
    <3> HIDE DEF edit, valid
    <3>1. EditsOf(g)' \subseteq EditsOf(g)
      BY <2>2, <2>3, <2>4 DEF EditsOf
    <3> QED BY <1>0, <2>2, <2>3, <2>4, <3>1 DEF Proposed
  <2>6. Staged(g)'
    BY <1>0, <2>1, <2>2 DEF Staged
  <2> HIDE DEF valid
  <2> QED BY <1>1, <2>1, <2>5, <2>6, GuestMoves
<1>5. CASE Stories!Stage(g)
  <2> DEFINE keys == {Stories!Key(g, e) : e \in Range(guest[g].valid)}
             pending == [k \in keys |-> "pending"]
  <2>1. /\ guest[g].at = "check"
        /\ guest' = [guest EXCEPT ![g] = [guest[g] EXCEPT !.at = "done"]]
        /\ status' = [status EXCEPT ![g] = pending] /\ UNCHANGED <<request, applied>>
    BY <1>5 DEF Stories!Stage, Stories!Range, Range
  <2>2. /\ guest'[g].at = "done" /\ guest'[g].edits = guest[g].edits /\ guest'[g].valid = guest[g].valid
        /\ guest'[g] = [at |-> guest'[g].at, seen |-> guest'[g].seen,
                        edits |-> guest'[g].edits, valid |-> guest'[g].valid]
        /\ status'[g] = pending
    BY <1>0, <2>1
  <2>3. Proposed(g)'
    BY <1>0, <2>2 DEF Proposed, EditsOf
  <2>4. Stories!None \notin keys
    BY SharedConstants DEF SharedConstants, Stories!Key, Stories!None
  <2>5. Staged(g)'
    <3> HIDE DEF keys
    <3> QED BY <2>2, <2>4 DEF Staged
  <2> HIDE DEF pending
  <2> QED BY <2>1, <2>3, <2>5, GuestMoves
<1> QED BY <1>2, <1>3, <1>4, <1>5 DEF Stories!GuestStep

\* A request moves on, and a text settled by then is written, or about to be.
LEMMA RequestMoves ==
    ASSUME StoryInv, NEW u \in Requests, NEW now,
           request' = [request EXCEPT ![u] = now], UNCHANGED guest,
           status' = [g \in Guests |-> status'[g]],
           \A g \in Guests : /\ DOMAIN status'[g] = DOMAIN status[g]
                             /\ \A k \in DOMAIN status[g] :
                                   status[g][k] # "pending" => status'[g][k] # "pending",
           now = [at |-> now.at, edit |-> now.edit, by |-> now.by, out |-> now.out],
           Settled(now.edit.text)', \A t \in applied' : Settled(t) \/ Settled(t)'
    PROVE  StoryInv'
<1>1. ASSUME NEW t, Settled(t) PROVE Settled(t)'
  BY <1>1 DEF Settled
<1>2. ASSUME NEW g \in Guests PROVE Proposed(g)' /\ Staged(g)'
  BY DEF StoryInv, Proposed, EditsOf, Staged
<1>3. /\ request' = [v \in Requests |-> request'[v]] /\ request'[u] = now
      /\ \A v \in Requests \ {u} : request'[v] = request[v]
  BY DEF StoryInv
<1>4. ASSUME NEW v \in Requests
      PROVE  \E t : t = request'[v].edit.text /\ Settled(t)'
  <2>1. CASE v = u
    BY <1>3, <2>1
  <2>2. CASE v # u
    <3>1. request'[v].edit.text = request[v].edit.text /\ Settled(request[v].edit.text)
      BY <1>3, <2>2 DEF StoryInv
    <3>2. PICK t : t = request[v].edit.text
      OBVIOUS
    <3>3. Settled(t)'
      BY <1>1, <3>1, <3>2
    <3> QED BY <3>1, <3>2, <3>3
  <2> QED BY <2>1, <2>2
<1>6. ASSUME NEW v \in Requests
      PROVE  /\ request'[v] = [at |-> request'[v].at, edit |-> request'[v].edit,
                               by |-> request'[v].by, out |-> request'[v].out]
             /\ Settled(request[v].edit.text)'
  <2>1. request'[v] = [at |-> request'[v].at, edit |-> request'[v].edit,
                       by |-> request'[v].by, out |-> request'[v].out]
    BY <1>3 DEF StoryInv
  <2>2. PICK t : t = request'[v].edit.text /\ Settled(t)'
    BY <1>4
  <2>3. Settled(request[v].edit.text)'
    BY <2>2 DEF Settled
  <2> QED BY <2>1, <2>3
<1>5. guest' = [g \in Guests |-> guest'[g]]
  BY DEF StoryInv
<1> QED BY <1>1, <1>2, <1>3, <1>5, <1>6 DEF StoryInv

\* The first edit of a key that is answered has that key.
LEMMA AcceptKept ==
    ASSUME StoryInv, NEW u \in Requests, Stories!Accept(u)
    PROVE  StoryInv'
<1> DEFINE Mine(g, key) == {i \in DOMAIN guest[g].valid :
                              key \in {guest[g].valid[i].section, guest[g].valid[i].after}}
           Accepts(g, key) ==
             /\ status' = Stories!Answered(g, key)
             /\ IF Mine(g, key) = {} THEN Stories!Ends(u)
                ELSE Stories!Begins(u, guest[g].valid[Stories!Min(Mine(g, key))], g)
<1>0. PICK g \in Guests : \E key \in DOMAIN status[g] : Accepts(g, key)
  BY DEF Stories!Accept
<1>1. PICK key \in DOMAIN status[g] : Accepts(g, key)
  BY <1>0
<1>2. UNCHANGED <<guest, applied>>
  BY DEF Stories!Accept
<1> DEFINE edits == guest[g].valid
           mine == Mine(g, key)
<1>3. /\ status' = [h \in Guests |-> status'[h]]
      /\ \A h \in Guests : /\ DOMAIN status'[h] = DOMAIN status[h]
                           /\ \A k \in DOMAIN status[h] :
                                 status[h][k] # "pending" => status'[h][k] # "pending"
      /\ status'[g][key] = "accepted"
  BY <1>1 DEF StoryInv, Stories!Answered
<1>4. \A t \in applied' : Settled(t)
  BY <1>2 DEF StoryInv
<1>5. CASE mine = {}
  <2>1. PICK now : now = [request[u] EXCEPT !.at = "done"]
    OBVIOUS
  <2>2. request' = [request EXCEPT ![u] = now]
    BY <1>1, <1>5, <2>1 DEF Stories!Ends
  <2>3. now = [at |-> now.at, edit |-> now.edit, by |-> now.by, out |-> now.out]
        /\ now.edit = request[u].edit
    BY <2>1 DEF StoryInv
  <2>4. Settled(now.edit.text)
    BY <2>3 DEF StoryInv
  <2>5. Settled(now.edit.text)'
    BY <1>2, <1>3, <2>4 DEF Settled
  <2> QED BY <1>2, <1>3, <1>4, <2>2, <2>3, <2>5, RequestMoves
<1>6. CASE mine # {}
  <2>1. PICK e : e = edits[Stories!Min(mine)]
    OBVIOUS
  <2>2. PICK now : now = [request[u] EXCEPT !.at = "apply", !.edit = e, !.by = g]
    OBVIOUS
  <2>3. request' = [request EXCEPT ![u] = now]
    BY <1>1, <1>6, <2>1, <2>2 DEF Stories!Begins
  <2>4. Proposed(g) /\ Staged(g)
    BY DEF StoryInv
  <2>5. Stories!Min(mine) \in mine
    <3>1. mine \in SUBSET (1..Len(edits)) /\ Len(edits) \in Nat
      BY <2>4, LenProperties DEF Proposed, IsSequence
    <3> HIDE DEF mine
    <3> QED BY <1>6, <3>1, LeastMember
  <2>6. e \in Range(edits) /\ key \in {e.section, e.after} /\ key # Stories!None
    BY <2>1, <2>4, <2>5 DEF Range, Staged
  <2>7. Stories!Key(g, e) = key
    <3>1. e.section = Stories!None \/ e.after = Stories!None
      BY <2>4, <2>6 DEF Proposed
    <3>2. CASE key = e.section
      BY <2>6, <3>2 DEF Stories!Key
    <3>3. CASE key = e.after
      BY <2>6, <3>1, <3>3 DEF Stories!Key
    <3> QED BY <2>6, <3>2, <3>3
  <2>8. guest[g].at = "done"
    BY <2>4 DEF Staged
  <2>9. Settled(e.text)'
    <3>1. e \in Range(guest'[g].valid) /\ guest'[g].at = "done"
      BY <1>2, <2>6, <2>8
    <3>2. Stories!Key(g, e) \in DOMAIN status'[g] /\ status'[g][Stories!Key(g, e)] # "pending"
      BY <1>3, <2>7
    <3> QED BY <3>1, <3>2 DEF Settled
  <2>10. now = [at |-> now.at, edit |-> now.edit, by |-> now.by, out |-> now.out] /\ now.edit = e
    <3>1. request[u] = [at |-> request[u].at, edit |-> request[u].edit,
                        by |-> request[u].by, out |-> request[u].out]
      BY DEF StoryInv
    <3>2. now = [at |-> "apply", edit |-> e, by |-> g, out |-> request[u].out]
      BY <2>2, <3>1
    <3> QED BY <3>2
  <2>11. Settled(now.edit.text)'
    BY <2>9, <2>10
  <2> QED BY <1>2, <1>3, <1>4, <2>3, <2>10, <2>11, RequestMoves
<1> QED BY <1>5, <1>6

\* What the user's other requests do: reject, save, and apply under the lock.
LEMMA RequestKept ==
    ASSUME StoryInv, NEW u \in Requests, Stories!Save(u) \/ Stories!Handle(u)
    PROVE  StoryInv'
<1>0. /\ UNCHANGED <<guest, status>> /\ status' = [g \in Guests |-> status'[g]]
      /\ request[u] = [at |-> request[u].at, edit |-> request[u].edit,
                       by |-> request[u].by, out |-> request[u].out]
      /\ Settled(request[u].edit.text)
  BY DEF StoryInv, Stories!Save, Stories!Handle, Stories!Apply, Stories!Rename,
         Stories!RenameFails, Stories!Report
<1>1. ASSUME NEW t, Settled(t) PROVE Settled(t)'
  BY <1>0, <1>1 DEF Settled
<1>2. ASSUME NEW now, request' = [request EXCEPT ![u] = now],
             now = [at |-> now.at, edit |-> now.edit, by |-> now.by, out |-> now.out],
             Settled(now.edit.text), \A t \in applied' : Settled(t)
      PROVE  StoryInv'
  BY <1>0, <1>1, <1>2, RequestMoves
<1>3. \A t \in applied : Settled(t)
  BY DEF StoryInv
<1>4. ASSUME Stories!Ends(u), UNCHANGED applied PROVE StoryInv'
  <2>1. PICK now : now = [request[u] EXCEPT !.at = "done"]
    OBVIOUS
  <2>2. now = [at |-> "done", edit |-> request[u].edit, by |-> request[u].by, out |-> request[u].out]
    BY <1>0, <2>1
  <2>3. Settled(now.edit.text)
    BY <1>0, <2>2
  <2>4. request' = [request EXCEPT ![u] = now]
    BY <1>4, <2>1 DEF Stories!Ends
  <2> QED BY <1>2, <1>3, <1>4, <2>2, <2>3, <2>4
<1>5. CASE Stories!Save(u)
  <2>1. UNCHANGED applied
    BY <1>5 DEF Stories!Save
  <2>2. CASE \E edit : edit.text[2] = 0 /\ Stories!Begins(u, edit, Stories!Human)
    <3>1. PICK edit : edit.text[2] = 0 /\ Stories!Begins(u, edit, Stories!Human)
      BY <2>2
    <3>2. PICK now : now = [request[u] EXCEPT !.at = "apply", !.edit = edit, !.by = Stories!Human]
      OBVIOUS
    <3>3. now = [at |-> "apply", edit |-> edit, by |-> Stories!Human, out |-> request[u].out]
      BY <1>0, <3>2
    <3>4. Settled(now.edit.text)
      BY <3>1, <3>3 DEF Settled
    <3>5. request' = [request EXCEPT ![u] = now]
      BY <3>1, <3>2 DEF Stories!Begins
    <3> QED BY <1>2, <1>3, <2>1, <3>3, <3>4, <3>5
  <2>3. CASE Stories!Ends(u)
    BY <1>4, <2>1, <2>3
  <2>4. (\E edit : edit.text[2] = 0 /\ Stories!Begins(u, edit, Stories!Human)) \/ Stories!Ends(u)
    <3> DEFINE Rev(shape, cites) ==
          IF cites /\ shape.section \in DOMAIN Stories!Revs(file)
          THEN Stories!Revs(file)[shape.section] ELSE <<>>
        Saves(shape, cites) ==
          LET edit == Stories!Edit(shape, Rev(shape, cites), <<u, 0>>)
          IN IF Stories!Fresh(file, edit) THEN Stories!Begins(u, edit, Stories!Human) ELSE Stories!Ends(u)
    <3>1. PICK shape \in Saved : \E cites \in BOOLEAN : Saves(shape, cites)
      BY <1>5 DEF Stories!Save
    <3>2. PICK cites \in BOOLEAN : Saves(shape, cites)
      BY <3>1
    <3> DEFINE edit == Stories!Edit(shape, Rev(shape, cites), <<u, 0>>)
    <3>3. edit.text[2] = 0
      BY DEF Stories!Edit
    <3>4. Stories!Begins(u, edit, Stories!Human) \/ Stories!Ends(u)
      BY <3>2
    <3> HIDE DEF edit
    <3> QED BY <3>3, <3>4
  <2> QED BY <2>2, <2>3, <2>4
<1>6. CASE Stories!Apply(u)
  <2>1. UNCHANGED applied
    BY <1>6 DEF Stories!Apply
  <2>2. CASE Stories!Ends(u)
    BY <1>4, <2>1, <2>2
  <2>3. CASE \E out : request' = [request EXCEPT ![u].at = "write", ![u].out = out]
    <3>1. PICK out : request' = [request EXCEPT ![u].at = "write", ![u].out = out]
      BY <2>3
    <3>2. PICK now : now = [request[u] EXCEPT !.at = "write", !.out = out]
      OBVIOUS
    <3>3. now = [at |-> "write", edit |-> request[u].edit, by |-> request[u].by, out |-> out]
      BY <1>0, <3>2
    <3>4. Settled(now.edit.text)
      BY <1>0, <3>3
    <3>5. request' = [request EXCEPT ![u] = now]
      BY <3>1, <3>2
    <3> QED BY <1>2, <1>3, <2>1, <3>3, <3>4, <3>5
  <2> QED BY <1>6, <2>2, <2>3 DEF Stories!Apply
<1>7. CASE Stories!Rename(u)
  <2>1. PICK now : now = [request[u] EXCEPT !.at = "report", !.out = <<>>]
    OBVIOUS
  <2>2. now = [at |-> "report", edit |-> request[u].edit, by |-> request[u].by, out |-> <<>>]
    BY <1>0, <2>1
  <2>3. Settled(now.edit.text)
    BY <1>0, <2>2
  <2>4. request' = [request EXCEPT ![u] = now] /\ applied' = applied \cup {request[u].edit.text}
    BY <1>7, <2>1 DEF Stories!Rename
  <2>5. \A t \in applied' : Settled(t)
    BY <1>0, <1>3, <2>4
  <2> QED BY <1>2, <2>2, <2>3, <2>4, <2>5
<1>8. CASE Stories!RenameFails(u) \/ Stories!Report(u)
  BY <1>4, <1>8 DEF Stories!RenameFails, Stories!Report
<1> QED BY <1>5, <1>6, <1>7, <1>8 DEF Stories!Handle

\* An answer withdrawn is an answer.
LEMMA RejectKept == StoryInv /\ Stories!Reject => StoryInv'
<1> SUFFICES ASSUME StoryInv, Stories!Reject PROVE StoryInv'
  OBVIOUS
<1>1. PICK g \in Guests : \E key \in DOMAIN status[g] :
         status' = [status EXCEPT ![g][key] = "rejected"]
  BY DEF Stories!Reject
<1>2. PICK key \in DOMAIN status[g] : status' = [status EXCEPT ![g][key] = "rejected"]
  BY <1>1
<1>3. UNCHANGED <<guest, request, applied>>
  BY DEF Stories!Reject
<1>4. /\ status' = [h \in Guests |-> status'[h]]
      /\ \A h \in Guests : /\ DOMAIN status'[h] = DOMAIN status[h]
                           /\ \A k \in DOMAIN status[h] :
                                 status[h][k] # "pending" => status'[h][k] # "pending"
  BY <1>2 DEF StoryInv
<1>5. ASSUME NEW t, Settled(t) PROVE Settled(t)'
  BY <1>3, <1>4, <1>5 DEF Settled
<1>6. ASSUME NEW h \in Guests PROVE Proposed(h)' /\ Staged(h)'
  BY <1>3, <1>4 DEF StoryInv, Proposed, EditsOf, Staged
<1>7. ASSUME NEW u \in Requests PROVE Settled(request[u].edit.text)'
  <2>1. PICK t : t = request[u].edit.text
    OBVIOUS
  <2>2. Settled(t)'
    BY <1>5, <2>1 DEF StoryInv
  <2> QED BY <1>3, <2>1, <2>2 DEF Settled
<1> QED BY <1>3, <1>4, <1>5, <1>6, <1>7 DEF StoryInv

\* While a key of a proposal is pending, none of its edits is in the file, nor on its
\* way there: for any guests, answers and requests, and any order in which they reach
\* the store (ProposalStore, HandleStoryAccept, HandleStoryReject, HandleStorySave).
THEOREM PendingNeverApplied == Stories!Spec => []PendingNotApplied
<1>1. StoryInv /\ [Stories!Next]_(Stories!vars) => StoryInv'
  <2> SUFFICES ASSUME StoryInv, [Stories!Next]_(Stories!vars) PROVE StoryInv'
    OBVIOUS
  <2>1. CASE UNCHANGED Stories!vars
    <3>1. UNCHANGED <<guest, status, request, applied>>
      BY <2>1 DEF Stories!vars
    <3> QED BY <3>1 DEF StoryInv, Proposed, EditsOf, Staged, Settled
  <2>2. CASE Stories!Next
    BY <2>2, GuestKept, AcceptKept, RequestKept, RejectKept DEF Stories!Next
  <2> QED BY <2>1, <2>2
<1>2. StoryInv => PendingNotApplied
  <2> SUFFICES ASSUME StoryInv, NEW g \in Guests, NEW key \in DOMAIN status[g],
                      status[g][key] = "pending", NEW e \in Range(guest[g].valid),
                      Stories!Key(g, e) = key
               PROVE  e.text \notin applied /\ \A u \in Requests : request[u].edit.text # e.text
    BY DEF PendingNotApplied, Stories!PendingNotApplied, Stories!Range, Range
  <2>1. Proposed(g) /\ e \in EditsOf(g)
    BY DEF StoryInv, EditsOf
  <2>2. PICK n \in Nat \ {0} : e.text = <<g, n>>
    BY <2>1 DEF Proposed
  <2>3. ~Settled(e.text)
    <3> SUFFICES ASSUME NEW h \in Guests, NEW d \in Range(guest[h].valid), d.text = e.text,
                        status[h][Stories!Key(h, d)] # "pending"
                 PROVE  FALSE
      BY <2>2 DEF Settled
    <3>1. Proposed(h) /\ d \in EditsOf(h)
      BY DEF StoryInv, EditsOf
    <3>2. PICK m \in Nat \ {0} : d.text = <<h, m>>
      BY <3>1 DEF Proposed
    <3>3. h = g
      BY <2>2, <3>2
    <3>4. d = e
      BY <2>1, <3>1, <3>3 DEF Proposed
    <3> QED BY <3>3, <3>4
  <2> QED BY <2>3 DEF StoryInv
<1> QED BY <1>1, <1>2, InitStory, PTL DEF Stories!Spec
===============================================================================
