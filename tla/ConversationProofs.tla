-------------------------- MODULE ConversationProofs --------------------------
(***************************************************************************)
(* Proofs about Conversation, for any finite set of guests, any kinds of    *)
(* message, and any history cap and number of slots above zero.             *)
(***************************************************************************)
EXTENDS Conversation, SequenceTheorems, FiniteSetTheorems, TLAPS

Feed == [open : SUBSET Speakers, heard : SUBSET Speakers]
Convo == [current : Round, history : Seq(PastRound)]

-------------------------------------------------------------------------------
(* What is sent.                                                              *)

\* The orchestrator, the guests and nobody are different speakers.
LEMMA SpeakersApart ==
    /\ Orch \in Speakers /\ Guests \subseteq Speakers
    /\ Orch \notin Guests /\ Nobody \notin Guests /\ Orch # Nobody
BY ConversationAssumption DEF ConversationAssumption, Speakers, Orch, Nobody

\* What the orchestrator and the guests do to the feed keeps it a feed.
LEMMA FeedChanges ==
    ASSUME NEW f \in Feed, NEW who \in Speakers
    PROVE  /\ Quiet \in Feed
           /\ Opens(f, who) \in Feed /\ Closes(f, who) \in Feed /\ Tells(f, who) \in Feed
           /\ Opens(f, who).open = f.open \cup {who} /\ Opens(f, who).heard = f.heard
           /\ Closes(f, who).open = f.open \ {who}
           /\ Closes(f, who).heard = f.heard \cup {who}
           /\ Tells(f, who).open = f.open /\ Tells(f, who).heard = f.heard \cup {who}
BY DEF Quiet, Opens, Closes, Tells, Feed

-------------------------------------------------------------------------------
(* The message in hand.                                                       *)

\* The step changes where the handling stands, not what is handled.
SameMessage ==
    /\ turn'.path = turn.path /\ turn'.id = turn.id /\ turn'.kind = turn.kind
    /\ turn'.room = turn.room /\ turn'.mention = turn.mention
    /\ turn'.chosen = turn.chosen

\* A step of the listener that only moves on leaves its message alone.
LEMMA GotoStep ==
    ASSUME turn \in Turn, NEW pc \in Steps, Goto(pc)
    PROVE  /\ turn' \in Turn /\ SameMessage /\ turn'.pc = pc
           /\ turn'.found = turn.found /\ turn'.sure = turn.sure
BY DEF Goto, Turn, SameMessage

-------------------------------------------------------------------------------
(* Rounds.                                                                    *)

\* Opening a round keeps every round there was, but for the oldest of a full
\* history, and starts one without answers.
LEMMA OpenedRound ==
    ASSUME NEW c \in Convo, NEW id \in Ids, Len(c.history) <= HistoryCap
    PROVE  /\ Opened(c, id) \in Convo /\ Len(Opened(c, id).history) <= HistoryCap
           /\ Opened(c, id).current = [msg |-> id, answers |-> {}]
           /\ \A i \in DOMAIN Opened(c, id).history :
                 \/ Opened(c, id).history[i] = c.current
                 \/ \E j \in DOMAIN c.history : Opened(c, id).history[i] = c.history[j]
<1> DEFINE h == Append(c.history, c.current)
           from == IF Len(h) > HistoryCap THEN 2 ELSE 1
           kept == SubSeq(h, from, Len(h))
           new == [msg |-> id, answers |-> {}]
<1>0. HistoryCap \in Nat /\ HistoryCap >= 1 /\ MaxMessages \in Nat
  BY ConversationAssumption DEF ConversationAssumption
<1>1. /\ c.history \in Seq(PastRound) /\ c.current \in Round /\ new \in Round
      /\ Len(c.history) \in Nat /\ DOMAIN c.history = 1..Len(c.history)
  BY <1>0, LenProperties DEF Convo, Round, Ids
<1>2. CASE c.current.msg = 0
  <2>1. Opened(c, id) = [history |-> c.history, current |-> new]
    BY <1>2 DEF Opened
  <2> QED BY <1>1, <2>1 DEF Convo
<1>3. CASE c.current.msg # 0
  <2>1. c.current \in PastRound
    BY <1>1, <1>3 DEF PastRound
  <2>2. /\ h \in Seq(PastRound) /\ Len(h) = Len(c.history) + 1
        /\ \A i \in 1..Len(c.history) : h[i] = c.history[i]
        /\ h[Len(c.history) + 1] = c.current
    BY <1>1, <2>1, AppendProperties
  <2>3. \A i \in 1..Len(h) : h[i] \in PastRound
        /\ (h[i] = c.current \/ \E j \in DOMAIN c.history : h[i] = c.history[j])
    <3> HIDE DEF h
    <3>1. ASSUME NEW i \in 1..Len(h) PROVE h[i] \in PastRound
          /\ (h[i] = c.current \/ \E j \in DOMAIN c.history : h[i] = c.history[j])
      <4>1. i \in 1..Len(c.history) \/ i = Len(c.history) + 1
        BY <1>1, <2>2, <3>1
      <4> QED BY <1>1, <2>1, <2>2, <4>1, ElementOfSeq
    <3> QED BY <3>1
  <2>4. from \in {1, 2} /\ (Len(h) > HistoryCap => from = 2)
    OBVIOUS
  <2> HIDE DEF h, from
  <2>5. /\ kept \in Seq(PastRound) /\ Len(kept) <= HistoryCap
        /\ \A i \in DOMAIN kept : i + from - 1 \in 1..Len(h) /\ kept[i] = h[i + from - 1]
    <3>1. /\ kept \in Seq(PastRound)
          /\ Len(kept) = IF from <= Len(h) THEN Len(h) - from + 1 ELSE 0
          /\ \A i \in 1..(Len(h) - from + 1) : kept[i] = h[from + i - 1]
      <4>1. \A i \in from..Len(h) : h[i] \in PastRound
        BY <1>1, <2>2, <2>3, <2>4
      <4>2. from \in Int /\ Len(h) \in Int
        BY <1>1, <2>2, <2>4
      <4> QED BY <4>1, <4>2, SubSeqProperties
    <3>2. Len(kept) <= HistoryCap
      BY <1>0, <1>1, <2>2, <2>4, <3>1
    <3>3. DOMAIN kept = 1..Len(kept)
      BY <3>1, LenProperties
    <3>4. ASSUME NEW i \in DOMAIN kept
          PROVE  i + from - 1 \in 1..Len(h) /\ kept[i] = h[i + from - 1]
      <4>1. i \in 1..(Len(h) - from + 1)
        BY <1>1, <2>2, <2>4, <3>1, <3>3, <3>4
      <4>2. from + i - 1 = i + from - 1 /\ i + from - 1 \in 1..Len(h)
        BY <1>1, <2>2, <2>4, <4>1
      <4> QED BY <3>1, <4>1, <4>2
    <3> QED BY <3>1, <3>2, <3>4
  <2> HIDE DEF kept
  <2>6. \A i \in DOMAIN kept :
           kept[i] = c.current \/ \E j \in DOMAIN c.history : kept[i] = c.history[j]
    BY <2>3, <2>5
  <2>7. Opened(c, id) = [history |-> kept, current |-> new]
    BY <1>3 DEF Opened, kept, from, h
  <2> QED BY <1>1, <2>5, <2>6, <2>7 DEF Convo
<1> QED BY <1>2, <1>3

\* A channel's message: its round is opened, the other channel stays as it is.
LEMMA UserMessageRecorded ==
    ASSUME TypeOK, NEW ch \in Channels, RecordUserMessage(ch), turn.id \in Ids
    PROVE  /\ convo' \in [Channels -> Convo]
           /\ \A x \in Channels : Len(convo'[x].history) <= HistoryCap
           /\ convo'[ch].current.msg = turn.id
           /\ \A x \in Channels \ {ch} : convo'[x] = convo[x]
           /\ AnswersInOwnRound => AnswersInOwnRound'
<1>0. convo \in [Channels -> Convo] /\ convo[ch] \in Convo /\ Len(convo[ch].history) <= HistoryCap
  BY DEF TypeOK, Convo
<1>1. convo' = [convo EXCEPT ![ch] = Opened(convo[ch], turn.id)]
  BY DEF RecordUserMessage
<1>2. /\ convo'[ch] = Opened(convo[ch], turn.id) /\ convo' \in [Channels -> Convo]
      /\ \A x \in Channels \ {ch} : convo'[x] = convo[x]
  BY <1>0, <1>1, OpenedRound
<1>3. \A x \in Channels : Len(convo'[x].history) <= HistoryCap
  BY <1>0, <1>2, OpenedRound DEF TypeOK
<1>4. convo'[ch].current = [msg |-> turn.id, answers |-> {}]
  BY <1>0, <1>2, OpenedRound
<1>5. \A r \in Rounds' : r \in Rounds \/ r.answers = {}
  <2>1. ASSUME NEW x \in Channels PROVE convo'[x].current \in Rounds \/ convo'[x].current.answers = {}
    BY <1>2, <1>4, <2>1 DEF Rounds
  <2>2. ASSUME NEW x \in Channels, NEW i \in DOMAIN convo'[x].history
        PROVE  convo'[x].history[i] \in Rounds
    <3>1. CASE x = ch
      <4> DEFINE op == Opened(convo[ch], turn.id)
      <4>0. /\ convo'[ch] = op
            /\ \A k \in DOMAIN op.history :
                  \/ op.history[k] = convo[ch].current
                  \/ \E j \in DOMAIN convo[ch].history : op.history[k] = convo[ch].history[j]
        BY <1>0, <1>2, OpenedRound
      <4> HIDE DEF op
      <4>1. \/ convo'[ch].history[i] = convo[ch].current
            \/ \E j \in DOMAIN convo[ch].history : convo'[ch].history[i] = convo[ch].history[j]
        BY <2>2, <3>1, <4>0
      <4> QED BY <3>1, <4>1 DEF Rounds
    <3>2. CASE x # ch
      BY <1>2, <2>2, <3>2 DEF Rounds
    <3> QED BY <3>1, <3>2
  <2> QED BY <2>1, <2>2 DEF Rounds
<1>6. AnswersInOwnRound => AnswersInOwnRound'
  BY <1>5 DEF AnswersInOwnRound
<1> QED BY <1>2, <1>3, <1>4, <1>6

\* An answer is recorded in the current round of its channel.
LEMMA ResponseRecorded ==
    ASSUME TypeOK, NEW ch \in Channels, NEW who \in Speakers, RecordResponse(ch, who),
           turn.id \in Ids, convo[ch].current.msg = turn.id
    PROVE  /\ convo' \in [Channels -> Convo]
           /\ \A x \in Channels : /\ convo'[x].history = convo[x].history
                                  /\ convo'[x].current.msg = convo[x].current.msg
           /\ AnswersInOwnRound => AnswersInOwnRound'
<1> DEFINE a == [by |-> who, to |-> turn.id]
<1>0. convo \in [Channels -> Convo]
  BY DEF TypeOK, Convo
<1>1. convo' = [convo EXCEPT ![ch].current.answers = convo[ch].current.answers \cup {a}]
  BY DEF RecordResponse
<1>2. /\ convo'[ch].current = [msg |-> turn.id, answers |-> convo[ch].current.answers \cup {a}]
      /\ convo'[ch].history = convo[ch].history
      /\ \A x \in Channels \ {ch} : convo'[x] = convo[x]
  BY <1>0, <1>1 DEF Convo, Round
<1>3. convo' \in [Channels -> Convo]
  <2>1. a \in [by : Speakers, to : Ids]
    OBVIOUS
  <2> HIDE DEF a
  <2> QED BY <1>0, <1>1, <2>1 DEF Convo, Round
<1>4. \A x \in Channels : /\ convo'[x].history = convo[x].history
                          /\ convo'[x].current.msg = convo[x].current.msg
  BY <1>2
<1>5. ASSUME AnswersInOwnRound, NEW r \in Rounds', NEW b \in r.answers PROVE b.to = r.msg
  <2>1. convo[ch].current \in Rounds
    BY DEF Rounds
  <2>2. r \in Rounds \/ r = convo'[ch].current
    BY <1>2, <1>5 DEF Rounds
  <2>3. CASE r = convo'[ch].current
    BY <1>2, <1>5, <2>1, <2>3 DEF AnswersInOwnRound
  <2>4. CASE r \in Rounds
    BY <1>5, <2>4 DEF AnswersInOwnRound
  <2> QED BY <2>2, <2>3, <2>4
<1> QED BY <1>3, <1>4, <1>5 DEF AnswersInOwnRound

-------------------------------------------------------------------------------
(* Plan drafts.                                                               *)

\* A look finds a draft only when there is one; a write costs one at most.
LEMMA LooksAndWrites ==
    ASSUME drafts \in Nat
    PROVE  /\ \A found \in LatestDraft : found \in BOOLEAN /\ (found => drafts # 0)
           /\ \A d \in Written : d \in Nat /\ d <= drafts
<1>1. \A found \in LatestDraft : found \in BOOLEAN /\ (found => drafts # 0)
  <2>1. CASE drafts = 0
    BY <2>1 DEF LatestDraft
  <2>2. CASE drafts # 0
    BY <2>2 DEF LatestDraft
  <2> QED BY <2>1, <2>2
<1>2. \A d \in Written : d \in Nat /\ d <= drafts
  BY DEF Written
<1> QED BY <1>1, <1>2

\* What happens to the store in a step that may save a draft of a guest's own.
Saves == drafts' = drafts \/ drafts' = drafts + 1

-------------------------------------------------------------------------------
(* The handler of the mode: actions that all go from one step of the          *)
(* handling to another and leave the guests alone.                            *)

HandlerStep ==
    \/ LeanStart \/ LeanEnd \/ ExecuteStep \/ GateTaken
    \/ LoopStep \/ PlanStep

Sessions == {"none", "loop", "plan", "compile", "respec"}

\* The feed after a step of the orchestrator: its own stream is open exactly in
\* the steps that stream, and nobody else's is touched.
FeedFollows ==
    /\ feed' \in Feed /\ feed.heard \subseteq feed'.heard
    /\ feed'.open \ {Orch} = feed.open \ {Orch}
    /\ (Orch \in feed.open <=> turn.pc \in Streaming)
         => (Orch \in feed'.open <=> turn'.pc \in Streaming)

Handles ==
    /\ turn.pc \in Handling /\ turn' \in Turn /\ SameMessage /\ turn'.pc \in Handling
    /\ turn'.pc = "consult" => turn.kind = "loop"
    /\ turn'.pc \in PlanSteps => Planning(turn.kind)
    /\ UNCHANGED <<guest, busy, updates, respec>>
    /\ session' \in Sessions
    /\ FeedFollows

\* The orchestrator opens, opens again, closes, or only tells.
LEMMA FeedOfStep ==
    ASSUME feed \in Feed,
           \/ feed' = Opens(feed, Orch) /\ turn'.pc \in Streaming
           \/ feed' = Opens(Closes(feed, Orch), Orch) /\ turn'.pc \in Streaming
           \/ feed' = Closes(feed, Orch) /\ turn'.pc \notin Streaming
           \/ feed' = Tells(feed, Orch) /\ turn.pc \notin Streaming /\ turn'.pc \notin Streaming
           \/ feed' = feed /\ turn.pc \notin Streaming /\ turn'.pc \notin Streaming
    PROVE  FeedFollows
<1>1. Orch \in Speakers
  BY SpeakersApart
<1>2. CASE feed' = Opens(feed, Orch) /\ turn'.pc \in Streaming
  BY <1>1, <1>2, FeedChanges DEF FeedFollows
<1>3. CASE feed' = Opens(Closes(feed, Orch), Orch) /\ turn'.pc \in Streaming
  <2> DEFINE f == Closes(feed, Orch)
  <2>1. f \in Feed /\ f.open = feed.open \ {Orch} /\ f.heard = feed.heard \cup {Orch}
    BY <1>1, FeedChanges
  <2> HIDE DEF f
  <2>2. feed' \in Feed /\ feed'.open = f.open \cup {Orch} /\ feed'.heard = f.heard
    BY <1>1, <1>3, <2>1, FeedChanges DEF f
  <2> QED BY <1>3, <2>1, <2>2 DEF FeedFollows
<1>4. CASE feed' = Closes(feed, Orch) /\ turn'.pc \notin Streaming
  BY <1>1, <1>4, FeedChanges DEF FeedFollows
<1>5. CASE feed' = Tells(feed, Orch) /\ turn.pc \notin Streaming /\ turn'.pc \notin Streaming
  BY <1>1, <1>5, FeedChanges DEF FeedFollows
<1>6. CASE feed' = feed /\ turn.pc \notin Streaming /\ turn'.pc \notin Streaming
  BY <1>6 DEF FeedFollows
<1> QED BY <1>2, <1>3, <1>4, <1>5, <1>6

\* Every step of the orchestrator's handler is one of the effects of Handles.
LEMMA HandlerHandles ==
    ASSUME TypeOK, OnPath, HandlerStep
    PROVE  Handles
<1>0. /\ turn \in Turn /\ feed \in Feed /\ session \in Sessions
      /\ Handling \subseteq Steps
  BY DEF TypeOK, Feed, Sessions, Steps
<1> USE DEF Handling, PlanSteps, Streaming
<1>1. CASE LeanStart
  <2>1. turn.pc = "handle" /\ Goto("lean") /\ feed' = Opens(feed, Orch)
        /\ UNCHANGED <<guest, busy, updates, respec, session>>
    BY <1>1 DEF LeanStart
  <2>2. turn' \in Turn /\ SameMessage /\ turn'.pc = "lean"
    BY <1>0, <2>1, GotoStep
  <2> QED BY <1>0, <2>1, <2>2, FeedOfStep DEF Handles
<1>2. CASE LeanEnd
  <2>1. turn.pc = "lean" /\ Goto("wait") /\ feed' = Closes(feed, Orch)
        /\ UNCHANGED <<guest, busy, updates, respec, session>>
    BY <1>2 DEF LeanEnd
  <2>2. turn' \in Turn /\ SameMessage /\ turn'.pc = "wait"
    BY <1>0, <2>1, GotoStep
  <2> QED BY <1>0, <2>1, <2>2, FeedOfStep DEF Handles
<1>3. CASE ExecuteStep \/ GateTaken
  <2>1. ASSUME NEW revises \in BOOLEAN, Execute(revises) PROVE Handles
    <3>1. turn.pc = "handle" /\ Goto("wait") /\ feed' = Tells(feed, Orch)
          /\ UNCHANGED <<guest, busy, updates, respec, session>>
      BY <2>1 DEF Execute
    <3>2. turn' \in Turn /\ SameMessage /\ turn'.pc = "wait"
      BY <1>0, <3>1, GotoStep
    <3> QED BY <1>0, <3>1, <3>2, FeedOfStep DEF Handles
  <2>2. CASE ExecuteCompiles
    <3>1. turn.pc = "handle" /\ Goto("wait") /\ feed' = Tells(feed, Orch)
          /\ UNCHANGED <<guest, busy, updates, respec>> /\ session' = "compile"
      BY <2>2 DEF ExecuteCompiles, Recorded
    <3>2. turn' \in Turn /\ SameMessage /\ turn'.pc = "wait"
      BY <1>0, <3>1, GotoStep
    <3> QED BY <1>0, <3>1, <3>2, FeedOfStep DEF Handles, Sessions
  <2>3. CASE ResolveGate
    <3>1. turn.pc = "handle" /\ Goto("gate")
          /\ UNCHANGED <<guest, busy, updates, respec, session, feed>>
      BY <2>3 DEF ResolveGate
    <3>2. turn' \in Turn /\ SameMessage /\ turn'.pc = "gate"
      BY <1>0, <3>1, GotoStep
    <3> QED BY <1>0, <3>1, <3>2, FeedOfStep DEF Handles
  <2>4. CASE GateTaken
    <3>1. turn.pc = "gate" /\ Goto("wait") /\ feed' = Tells(feed, Orch)
          /\ UNCHANGED <<guest, busy, updates, respec, session>>
      BY <2>4 DEF GateTaken
    <3>2. turn' \in Turn /\ SameMessage /\ turn'.pc = "wait"
      BY <1>0, <3>1, GotoStep
    <3> QED BY <1>0, <3>1, <3>2, FeedOfStep DEF Handles
  <2> QED BY <1>3, <2>1, <2>2, <2>3, <2>4 DEF ExecuteStep
<1>4. CASE LoopUnlisted
  <2>1. turn.pc = "handle" /\ Goto("wait") /\ feed' = Tells(feed, Orch)
        /\ UNCHANGED <<guest, busy, updates, respec, session>>
    BY <1>4 DEF LoopUnlisted
  <2>2. turn' \in Turn /\ SameMessage /\ turn'.pc = "wait"
    BY <1>0, <2>1, GotoStep
  <2> QED BY <1>0, <2>1, <2>2, FeedOfStep DEF Handles
<1>5. CASE LoopStart
  <2>1. turn.pc = "handle" /\ Goto("consult") /\ feed' = Opens(feed, Orch)
        /\ UNCHANGED <<guest, busy, updates, respec, session>> /\ turn.kind = "loop"
    BY <1>5 DEF LoopStart
  <2>2. turn' \in Turn /\ SameMessage /\ turn'.pc = "consult"
    BY <1>0, <2>1, GotoStep
  <2> QED BY <1>0, <2>1, <2>2, FeedOfStep DEF Handles
<1>6. CASE LoopStep /\ ~LoopUnlisted /\ ~LoopStart
  <2>1. turn.pc = "consult" /\ Goto("wait") /\ feed' = Closes(feed, Orch)
        /\ UNCHANGED <<guest, busy, updates, respec>>
        /\ (Consulted \/ Unanswered)
    BY <1>6 DEF LoopStep, LoopFails, LoopAnswers
  <2>2. turn' \in Turn /\ SameMessage /\ turn'.pc = "wait"
    BY <1>0, <2>1, GotoStep
  <2>3. session' \in Sessions
    BY <1>0, <2>1 DEF Consulted, Unanswered, Sessions
  <2> QED BY <1>0, <2>1, <2>2, <2>3, FeedOfStep DEF Handles
<1>7. CASE PlanStart
  <2>1. turn.pc = "handle" /\ Goto("scout") /\ feed' = Opens(feed, Orch)
        /\ UNCHANGED <<guest, busy, updates, respec, session>> /\ Planning(turn.kind)
    BY <1>7 DEF PlanStart
  <2>2. turn' \in Turn /\ SameMessage /\ turn'.pc = "scout"
    BY <1>0, <2>1, GotoStep
  <2> QED BY <1>0, <2>1, <2>2, FeedOfStep DEF Handles
<1>8. ASSUME NEW ok \in BOOLEAN, NEW explores \in BOOLEAN, Scout(ok, explores) PROVE Handles
  <2> DEFINE to == IF ok /\ explores THEN "explore" ELSE "single"
  <2>1. turn.pc = "scout" /\ Goto(to)
        /\ UNCHANGED <<guest, busy, updates, respec>> /\ session' \in {session, "plan"}
    BY <1>8 DEF Scout, PlanCall, Recorded
  <2>2. \/ to = "explore" /\ feed' = Closes(feed, Orch)
        \/ to = "single" /\ feed' = Opens(Closes(feed, Orch), Orch)
    BY <1>8 DEF Scout, Closed
  <2> HIDE DEF to
  <2>3. turn' \in Turn /\ SameMessage /\ turn'.pc = to
    BY <1>0, <2>1, <2>2, GotoStep
  <2> QED BY <1>0, <2>1, <2>2, <2>3, FeedOfStep DEF Handles, OnPath, Sessions
<1>9. CASE Explore
  <2>1. turn.pc = "explore" /\ Goto("synthesis") /\ feed' = Opens(feed, Orch)
        /\ UNCHANGED <<guest, busy, updates, respec, session>>
    BY <1>9 DEF Explore
  <2>2. turn' \in Turn /\ SameMessage /\ turn'.pc = "synthesis"
    BY <1>0, <2>1, GotoStep
  <2> QED BY <1>0, <2>1, <2>2, FeedOfStep DEF Handles, OnPath
<1>10. ASSUME NEW ok \in BOOLEAN, NEW block \in BOOLEAN, Synthesize(ok, block) PROVE Handles
  <2> DEFINE to == IF ok THEN AfterOutput(block) ELSE "single"
  <2>1. turn.pc = "synthesis" /\ Goto(to)
        /\ UNCHANGED <<guest, busy, updates, respec>> /\ session' \in {session, "plan"}
    BY <1>10 DEF Synthesize, PlanCall, Recorded
  <2>2. \/ to \in {"finalize", "wait"} /\ feed' = Closes(feed, Orch)
        \/ to = "single" /\ feed' = Opens(Closes(feed, Orch), Orch)
    BY <1>10 DEF Synthesize, Closed, AfterOutput
  <2> HIDE DEF to
  <2>3. turn' \in Turn /\ SameMessage /\ turn'.pc = to
    BY <1>0, <2>1, <2>2, GotoStep
  <2> QED BY <1>0, <2>1, <2>2, <2>3, FeedOfStep DEF Handles, OnPath, Sessions
<1>11. ASSUME NEW ok \in BOOLEAN, NEW block \in BOOLEAN, ConsultPlan(ok, block) PROVE Handles
  <2> DEFINE to == AfterOutput(ok /\ block)
  <2>1. turn.pc = "single" /\ Goto(to) /\ feed' = Closes(feed, Orch)
        /\ UNCHANGED <<guest, busy, updates, respec>> /\ session' \in {session, "plan"}
    BY <1>11 DEF ConsultPlan, PlanCall, Recorded
  <2>2. to \in {"finalize", "wait"}
    BY DEF AfterOutput
  <2> HIDE DEF to
  <2>3. turn' \in Turn /\ SameMessage /\ turn'.pc = to
    BY <1>0, <2>1, <2>2, GotoStep
  <2> QED BY <1>0, <2>1, <2>2, <2>3, FeedOfStep DEF Handles, OnPath, Sessions
<1>12. CASE FinalizeLook
  <2>1. /\ turn.pc = "finalize"
        /\ UNCHANGED <<guest, busy, updates, respec, session, feed>>
    BY <1>12 DEF FinalizeLook
  <2>2. PICK found \in LatestDraft :
           turn' = [turn EXCEPT !.pc = "write", !.found = found, !.sure = Sure(found)]
    BY <1>12 DEF FinalizeLook
  <2>3. found \in BOOLEAN /\ Sure(found) \in BOOLEAN /\ "write" \in Steps
    BY <1>0, LooksAndWrites DEF TypeOK, Sure, Turn, Steps
  <2> HIDE DEF Steps
  <2>4. turn' \in Turn /\ SameMessage /\ turn'.pc = "write"
    BY <1>0, <2>2, <2>3 DEF Turn, SameMessage
  <2> QED BY <1>0, <2>1, <2>4, FeedOfStep DEF Handles, OnPath
<1>13. CASE FinalizeWrite
  <2>1. turn.pc = "write" /\ Goto("wait")
        /\ UNCHANGED <<guest, busy, updates, respec, session, feed>>
    BY <1>13 DEF FinalizeWrite
  <2>2. turn' \in Turn /\ SameMessage /\ turn'.pc = "wait"
    BY <1>0, <2>1, GotoStep
  <2> QED BY <1>0, <2>1, <2>2, FeedOfStep DEF Handles
<1> QED BY <1>1, <1>2, <1>3, <1>4, <1>5, <1>6, <1>7, <1>8, <1>9, <1>10, <1>11, <1>12, <1>13
        DEF HandlerStep, LoopStep, PlanStep

\* What has been said in the room's earlier rounds, and in this one.
LEMMA HistoryTypes ==
    ASSUME TypeOK, NEW ch \in Channels
    PROVE  History(ch) \in SUBSET Ids
<1>1. convo[ch].history \in Seq(PastRound)
  BY DEF TypeOK
<1>2. \A i \in DOMAIN convo[ch].history : convo[ch].history[i] \in PastRound
  BY <1>1, ElementOfSeq, LenProperties
<1>3. \A r \in PastRound : r.msg \in Ids
  BY ConversationAssumption DEF ConversationAssumption, PastRound, Round, Ids
<1> QED BY <1>2, <1>3 DEF History

\* Only the answer of the loop handler touches a round, and it finds the room's
\* round open: the room has guests, so the message came that way.
LEMMA HandlerKeepsRounds ==
    ASSUME TypeOK, OnPath, RoundOpen, HandlerStep
    PROVE  /\ convo' \in [Channels -> Convo] /\ shared' \in [Channels -> SUBSET Ids]
           /\ \A x \in Channels : /\ Len(convo'[x].history) <= HistoryCap
                                  /\ convo'[x].current.msg = convo[x].current.msg
           /\ AnswersInOwnRound => AnswersInOwnRound'
<1>0. /\ turn \in Turn /\ convo \in [Channels -> Convo] /\ shared \in [Channels -> SUBSET Ids]
      /\ \A x \in Channels : Len(convo[x].history) <= HistoryCap
      /\ turn.pc # "idle" => turn.id \in Ids
      /\ "room" \in Channels /\ Orch \in Speakers
  BY SpeakersApart DEF TypeOK, Convo, Channels
<1>1. ASSUME NEW rewrites \in BOOLEAN, NEW replies \in BOOLEAN, LoopAnswers(rewrites, replies)
      PROVE  /\ convo' \in [Channels -> Convo] /\ shared' \in [Channels -> SUBSET Ids]
             /\ \A x \in Channels : /\ Len(convo'[x].history) <= HistoryCap
                                    /\ convo'[x].current.msg = convo[x].current.msg
             /\ AnswersInOwnRound => AnswersInOwnRound'
  <2>1. turn.pc = "consult" /\ turn.id \in Ids
    BY <1>0, <1>1 DEF LoopAnswers
  <2>2. shared' \in [Channels -> SUBSET Ids]
    <3>1. History("room") \cup {turn.id} \in SUBSET Ids
      BY <1>0, <2>1, HistoryTypes
    <3>2. \/ shared' = shared
          \/ shared' = [shared EXCEPT !["room"] = shared["room"] \cup History("room") \cup {turn.id}]
      BY <1>1 DEF LoopAnswers
    <3> QED BY <1>0, <3>1, <3>2
  <2>3. CASE UNCHANGED convo
    BY <1>0, <2>2, <2>3 DEF AnswersInOwnRound, Rounds
  <2>4. CASE RecordResponse("room", Orch) /\ turn.room # {}
    <3>1. turn.path = "round"
      <4>1. turn.path \in Paths
        BY <1>0 DEF Turn
      <4> QED BY <2>1, <2>4, <4>1 DEF OnPath, Paths
    <3>2. convo["room"].current.msg = turn.id
      BY <2>1, <3>1 DEF RoundOpen, InRound, Handling
    <3>3. /\ convo' \in [Channels -> Convo]
          /\ \A x \in Channels : /\ convo'[x].history = convo[x].history
                                 /\ convo'[x].current.msg = convo[x].current.msg
          /\ AnswersInOwnRound => AnswersInOwnRound'
      BY <1>0, <2>1, <2>4, <3>2, ResponseRecorded
    <3> QED BY <1>0, <2>2, <3>3
  <2> QED BY <1>1, <2>3, <2>4 DEF LoopAnswers
<1>2. CASE ~ \E rewrites, replies \in BOOLEAN : LoopAnswers(rewrites, replies)
  <2>1. UNCHANGED <<convo, shared>>
    BY <1>2 DEF HandlerStep, LeanStart, LeanEnd, ExecuteStep, Execute, ExecuteCompiles, ResolveGate,
         GateTaken, LoopStep, LoopUnlisted, LoopStart,
         LoopFails, PlanStep, PlanStart, Scout, Explore, Synthesize, ConsultPlan,
         FinalizeLook, FinalizeWrite
  <2> QED BY <1>0, <2>1 DEF AnswersInOwnRound, Rounds
<1> QED BY <1>1, <1>2

\* The orchestrator writes a plan of its own and has seen a draft, if there is one.
OwnDraftFirst ==
    (turn.pc = "write" /\ turn'.pc = "wait" /\ drafts' > drafts)
        => drafts = 0 \/ ~turn.sure

\* Only finalizePlan and a compile touch the store, and finalizePlan with its second
\* step: it starts a draft when it saw no open one, and there is still none.
LEMMA HandlerKeepsDrafts ==
    ASSUME TypeOK, OnPath, DraftFirst, HandlerStep
    PROVE  /\ drafts' \in Nat /\ compiling' \in BOOLEAN
           /\ turn'.sure => turn.sure
           /\ turn.pc # "wait" /\ (turn'.pc = "wait" \/ (drafts # 0 => drafts' # 0))
           /\ turn'.sure /\ turn'.pc = "write" /\ ~turn'.found => drafts' = 0
           /\ OwnDraftFirst
<1>0. turn \in Turn /\ drafts \in Nat /\ compiling \in BOOLEAN
  BY DEF TypeOK
<1>1. turn.pc # "wait" /\ compiling' \in BOOLEAN
  BY <1>0 DEF HandlerStep, LeanStart, LeanEnd, ExecuteStep, Execute, ExecuteCompiles,
     ResolveGate, GateTaken, LoopStep, LoopUnlisted, LoopStart, LoopFails, LoopAnswers,
     PlanStep, PlanStart, Scout, Explore, Synthesize, ConsultPlan, FinalizeLook,
     FinalizeWrite
<1>2. CASE FinalizeWrite
  <2>1. turn.pc = "write" /\ Goto("wait") /\ "wait" \in Steps
    BY <1>2 DEF FinalizeWrite, Steps, Handling
  <2>2. turn'.pc = "wait" /\ turn'.sure = turn.sure
    BY <1>0, <2>1, GotoStep
  <2>3. CASE turn.found
    <3>1. drafts' \in Nat /\ drafts' <= drafts
      BY <1>0, <1>2, <2>3, LooksAndWrites DEF FinalizeWrite
    <3> QED BY <1>0, <1>1, <2>2, <3>1 DEF OwnDraftFirst
  <2>4. CASE ~turn.found
    <3>1. drafts' \in {drafts, drafts + 1}
      BY <1>2, <2>4 DEF FinalizeWrite
    <3>2. turn.sure => drafts = 0
      BY <2>1, <2>4 DEF DraftFirst
    <3> QED BY <1>0, <1>1, <2>2, <3>1, <3>2 DEF OwnDraftFirst
  <2> QED BY <2>3, <2>4
<1>3. CASE FinalizeLook
  <2>1. UNCHANGED drafts
    BY <1>3 DEF FinalizeLook
  <2>2. PICK found \in LatestDraft :
           turn' = [turn EXCEPT !.pc = "write", !.found = found, !.sure = Sure(found)]
    BY <1>3 DEF FinalizeLook
  <2>3. turn'.pc = "write" /\ turn'.found = found /\ turn'.sure = Sure(found)
    BY <1>0, <2>2 DEF Turn
  <2> QED BY <1>0, <1>1, <2>1, <2>3 DEF OwnDraftFirst, Sure
<1>4. CASE ExecuteCompiles
  <2>1. Goto("wait") /\ turn.pc = "handle" /\ drafts' \in Written /\ "wait" \in Steps
    BY <1>4 DEF ExecuteCompiles, Steps, Handling
  <2>2. turn'.pc = "wait" /\ turn'.sure = turn.sure /\ drafts' \in Nat
    BY <1>0, <2>1, GotoStep, LooksAndWrites
  <2> QED BY <1>1, <2>1, <2>2 DEF OwnDraftFirst
<1>5. CASE ~FinalizeWrite /\ ~FinalizeLook /\ ~ExecuteCompiles
  <2>1. UNCHANGED drafts
    BY <1>5 DEF HandlerStep, LeanStart, LeanEnd, ExecuteStep, Execute, ResolveGate,
       GateTaken, LoopStep, LoopUnlisted, LoopStart, LoopFails, LoopAnswers, PlanStep,
       PlanStart, Scout, Explore, Synthesize, ConsultPlan
  <2>2. \E pc \in Steps \ {"write"} : Goto(pc)
    BY <1>5 DEF HandlerStep, LeanStart, LeanEnd, ExecuteStep, Execute, ResolveGate,
       GateTaken, LoopStep, LoopUnlisted, LoopStart, LoopFails, LoopAnswers, PlanStep,
       PlanStart, Scout, Explore, Synthesize, ConsultPlan, AfterOutput, Steps, Handling
  <2>3. turn'.sure = turn.sure /\ turn'.pc # "write"
    BY <1>0, <2>2, GotoStep
  <2> QED BY <1>0, <1>1, <2>1, <2>3 DEF OwnDraftFirst
<1> QED BY <1>2, <1>3, <1>4, <1>5

\* The orchestrator's handler keeps the invariant and opens no second draft.
LEMMA HandlerKeeps ==
    ASSUME Conducted, HandlerStep
    PROVE  Conducted' /\ OwnDraftFirst
<1>0. /\ TypeOK /\ OnPath /\ RoundOpen /\ Followed /\ DraftFirst /\ AnswersInOwnRound
      /\ Handles
  BY HandlerHandles DEF Conducted
<1>1. /\ turn.pc \in Handling /\ turn' \in Turn /\ SameMessage /\ turn'.pc \in Handling
      /\ turn'.pc = "consult" => turn.kind = "loop"
      /\ turn'.pc \in PlanSteps => Planning(turn.kind)
      /\ UNCHANGED <<guest, busy, updates, respec>> /\ session' \in Sessions
      /\ turn \in Turn
  BY <1>0 DEF Handles, TypeOK
<1>2. FeedFollows
  BY <1>0 DEF Handles
<1>3. /\ convo' \in [Channels -> Convo] /\ shared' \in [Channels -> SUBSET Ids]
      /\ \A x \in Channels : /\ Len(convo'[x].history) <= HistoryCap
                             /\ convo'[x].current.msg = convo[x].current.msg
      /\ AnswersInOwnRound'
  BY <1>0, HandlerKeepsRounds
<1>4. /\ drafts' \in Nat /\ compiling' \in BOOLEAN
      /\ turn'.sure => turn.sure
      /\ turn.pc # "wait" /\ (turn'.pc = "wait" \/ (drafts # 0 => drafts' # 0))
      /\ turn'.sure /\ turn'.pc = "write" /\ ~turn'.found => drafts' = 0
      /\ OwnDraftFirst
  BY <1>0, HandlerKeepsDrafts
<1>5. turn.path \in {"round", "handle"} /\ turn.pc # "idle"
  <2>1. turn.path \in Paths
    BY <1>1 DEF Turn
  <2> QED BY <1>0, <1>1, <2>1 DEF OnPath, Handling, Paths
<1>6. TypeOK'
  <2>1. Running' = Running /\ updates' \subseteq [after : Ids, rests : SUBSET Ids]
    BY <1>0, <1>1 DEF Running, TypeOK
  <2>2. turn'.id \in Ids
    BY <1>0, <1>1, <1>5 DEF SameMessage, TypeOK
  <2> QED BY <1>0, <1>1, <1>2, <1>3, <1>4, <2>1, <2>2
          DEF TypeOK, Convo, Sessions, FeedFollows, Feed
<1>7. OnPath'
  BY <1>0, <1>1, <1>5 DEF OnPath, SameMessage, Handling
<1>8. RoundOpen'
  <2>1. GuestsOut' = GuestsOut /\ InRound' = InRound
    BY <1>1 DEF GuestsOut, InRound, SameMessage
  <2>2. "room" \in Channels /\ turn'.pc \notin {"route", "mentioned", "voiced"}
    BY <1>1 DEF Channels, Handling
  <2> QED BY <1>0, <1>1, <1>3, <2>1, <2>2 DEF RoundOpen, SameMessage
<1>9. Followed'
  <2>1. /\ Going' = Going /\ Mentioned = {} /\ Mentioned' = {} /\ turn'.path = turn.path
        /\ turn'.chosen = turn.chosen /\ turn.path # "respec"
    BY <1>1, <1>5 DEF Going, Mentioned, SameMessage, Handling
  <2>2. \A g \in turn'.chosen :
           guest'[g] \in {"named", "queued", "running"} \/ g \in feed'.heard
    BY <1>0, <1>1, <1>2, <2>1 DEF Followed, FeedFollows
  <2>3. Orch \notin Going
    BY SpeakersApart DEF Going
  <2>4. feed.open = Going \cup OrchStreams
    BY <1>0, <2>1 DEF Followed
  <2>5. Orch \in feed.open <=> turn.pc \in Streaming
    BY <2>3, <2>4 DEF OrchStreams
  <2>6. Orch \in feed'.open <=> turn'.pc \in Streaming
    BY <1>2, <2>5 DEF FeedFollows
  <2>7. feed'.open \ {Orch} = Going
    BY <1>2, <2>3, <2>4 DEF FeedFollows, OrchStreams
  <2>8. feed'.open = Going \cup OrchStreams'
    BY <2>6, <2>7 DEF OrchStreams
  <2> QED BY <1>0, <1>1, <2>1, <2>2, <2>8 DEF Followed
<1>10. DraftFirst'
  <2>1. GuestsOut' = GuestsOut /\ turn'.kind = turn.kind /\ turn'.pc # "route"
    BY <1>1 DEF GuestsOut, SameMessage, Handling
  <2>2. ASSUME turn'.sure, Planning(turn'.kind), turn'.pc # "wait", ~GuestsOut'
        PROVE  drafts' # 0
    BY <1>0, <1>4, <2>1, <2>2 DEF DraftFirst
  <2> QED BY <1>4, <2>1, <2>2 DEF DraftFirst
<1> QED BY <1>3, <1>4, <1>6, <1>7, <1>8, <1>9, <1>10 DEF Conducted

-------------------------------------------------------------------------------
(* The goroutines of the guests.                                              *)

\* A guest goes from a state to another one; its stream and its task follow.
GuestMoves(g, to) ==
    /\ guest' = [guest EXCEPT ![g] = to]
    /\ UNCHANGED <<turn, shared, updates, compiling, session, respec>>

\* A step of a guest in the round it was chosen for, with what it does to the
\* feed, the tasks and the slots.
LEMMA GuestKeeps ==
    ASSUME Conducted, NEW g \in Guests,
           NEW to \in {"out", "named", "queued", "running", "done"},
           guest[g] # "out", GuestMoves(g, to),
           Cardinality(Running') <= GuestSlots,
           feed' \in Feed, feed.heard \subseteq feed'.heard,
           to \in {"named", "queued", "running"} \/ guest[g] = "done" \/ g \in feed'.heard,
           feed'.open = IF to = "running" THEN feed.open \cup {g} ELSE feed.open \ {g},
           busy' = IF to = "running" THEN busy \cup {g} ELSE busy \ {g},
           Saves,
           UNCHANGED convo \/ RecordResponse("room", g)
    PROVE  Conducted' /\ OwnDraftFirst
<1>0. /\ TypeOK /\ OnPath /\ RoundOpen /\ Followed /\ DraftFirst /\ AnswersInOwnRound
      /\ guest \in [Guests -> {"out", "named", "queued", "running", "done"}]
      /\ drafts \in Nat /\ g \in Speakers /\ g # Orch /\ busy \subseteq Guests
  BY SpeakersApart DEF Conducted, TypeOK
<1>1. /\ guest'[g] = to /\ \A h \in Guests : h # g => guest'[h] = guest[h]
      /\ guest' \in [Guests -> {"out", "named", "queued", "running", "done"}]
      /\ UNCHANGED <<turn, shared, updates, compiling, session, respec>>
  BY <1>0 DEF GuestMoves
<1>2. InRound /\ ~GuestsOut /\ convo["room"].current.msg = turn.id /\ turn.id \in Ids
      /\ turn.pc \in Handling /\ turn.path = "round"
  <2>1. ~GuestsOut
    BY DEF GuestsOut
  <2>2. InRound
    BY <1>0, <2>1 DEF RoundOpen
  <2> QED BY <1>0, <2>1, <2>2 DEF RoundOpen, InRound, Handling, TypeOK
<1>3. /\ convo' \in [Channels -> Convo]
      /\ \A x \in Channels : /\ Len(convo'[x].history) <= HistoryCap
                             /\ convo'[x].current.msg = convo[x].current.msg
      /\ AnswersInOwnRound'
  <2>1. CASE UNCHANGED convo
    <3>1. /\ convo \in [Channels -> Convo]
          /\ \A x \in Channels : Len(convo[x].history) <= HistoryCap
      BY <1>0 DEF TypeOK, Convo
    <3>2. AnswersInOwnRound'
      BY <1>0, <2>1 DEF AnswersInOwnRound, Rounds
    <3> QED BY <2>1, <3>1, <3>2
  <2>2. CASE RecordResponse("room", g)
    <3>1. /\ convo' \in [Channels -> Convo]
          /\ \A x \in Channels : /\ convo'[x].history = convo[x].history
                                 /\ convo'[x].current.msg = convo[x].current.msg
          /\ AnswersInOwnRound'
      BY <1>0, <1>2, <2>2, ResponseRecorded DEF Channels
    <3> QED BY <1>0, <3>1 DEF TypeOK
  <2> QED BY <2>1, <2>2
<1>4. drafts' \in Nat /\ (drafts # 0 => drafts' # 0)
  BY <1>0 DEF Saves
<1>5. OwnDraftFirst
  BY <1>1 DEF OwnDraftFirst
<1>6. TypeOK'
  <2>1. busy' \subseteq Guests
    BY <1>0
  <2> QED BY <1>0, <1>1, <1>3, <1>4, <2>1 DEF TypeOK, Convo, Feed
<1>7. OnPath'
  BY <1>0, <1>1 DEF OnPath
<1>8. RoundOpen'
  <2>1. InRound'
    BY <1>1, <1>2 DEF InRound
  <2>2. "room" \in Channels
    BY DEF Channels
  <2> QED BY <1>1, <1>2, <1>3, <2>1, <2>2 DEF RoundOpen, Handling
<1>9. Followed'
  <2>1. Going' = IF to = "running" THEN Going \cup {g} ELSE Going \ {g}
    BY <1>0, <1>1 DEF Going
  <2>2. Mentioned = {} /\ Mentioned' = {} /\ OrchStreams' = OrchStreams
    BY <1>1, <1>2 DEF Mentioned, OrchStreams, Handling
  <2>3. feed.open = Going \cup OrchStreams /\ busy = Going
    BY <1>0, <1>2, <2>2 DEF Followed
  <2>4. g \notin OrchStreams
    BY <1>0 DEF OrchStreams
  <2>5. feed'.open = Going' \cup OrchStreams /\ busy' = Going'
    BY <2>1, <2>3, <2>4
  <2>6. ASSUME NEW h \in turn'.chosen
        PROVE  guest'[h] \in {"named", "queued", "running"} \/ h \in feed'.heard
    <3>1. h \in Guests /\ (guest[h] \in {"named", "queued", "running"} \/ h \in feed.heard)
      BY <1>0, <1>1, <2>6 DEF Followed, TypeOK, Turn
    <3> QED BY <1>1, <3>1
  <2> QED BY <2>2, <2>5, <2>6 DEF Followed
<1>10. DraftFirst'
  <2>1. turn.sure /\ Planning(turn.kind) /\ turn.pc # "wait" => drafts # 0
    BY <1>0, <1>2 DEF DraftFirst
  <2>2. turn.pc = "write" => Planning(turn.kind)
    BY <1>0 DEF OnPath, PlanSteps
  <2>3. ~(turn.sure /\ turn.pc = "write" /\ ~turn.found)
    BY <1>0, <2>1, <2>2 DEF DraftFirst
  <2> QED BY <1>1, <1>4, <2>1, <2>3 DEF DraftFirst
<1> QED BY <1>3, <1>5, <1>6, <1>7, <1>8, <1>9, <1>10 DEF Conducted

\* Where a guest that keeps its slot, or gives one up, leaves the slots.
LEMMA SlotsKept ==
    ASSUME TypeOK, NEW g \in Guests,
           NEW to \in {"out", "named", "queued", "running", "done"},
           guest' = [guest EXCEPT ![g] = to],
           to \in {"running", "done"} => g \in Running \/ Cardinality(Running) < GuestSlots
    PROVE  Cardinality(Running') <= GuestSlots
<1>0. /\ guest \in [Guests -> {"out", "named", "queued", "running", "done"}]
      /\ Cardinality(Running) <= GuestSlots /\ GuestSlots \in Nat
  BY ConversationAssumption DEF TypeOK, ConversationAssumption
<1>1. IsFiniteSet(Running) /\ Cardinality(Running) \in Nat
  BY FS_Subset, FS_CardinalityType, ConversationAssumption
     DEF ConversationAssumption, Running
<1>2. Running' \subseteq Running \cup {g}
  BY <1>0 DEF Running
<1>3. CASE Running' \subseteq Running
  <2>1. Cardinality(Running') <= Cardinality(Running) /\ Cardinality(Running') \in Nat
    BY <1>1, <1>3, FS_Subset, FS_CardinalityType
  <2> QED BY <1>0, <1>1, <2>1
<1>4. CASE ~(Running' \subseteq Running)
  <2>1. Running' = Running \cup {g} /\ g \notin Running /\ to \in {"running", "done"}
    BY <1>0, <1>2, <1>4 DEF Running
  <2>2. Cardinality(Running') = Cardinality(Running) + 1
    BY <1>1, <2>1, FS_AddElement
  <2> QED BY <1>0, <1>1, <2>1, <2>2
<1> QED BY <1>3, <1>4

\* So does every step of a guest's goroutine.
LEMMA GuestStepKeeps ==
    ASSUME Conducted, NEW g \in Guests, GuestStep(g)
    PROVE  Conducted' /\ OwnDraftFirst
<1>0. /\ TypeOK /\ feed \in Feed /\ g \in Speakers
      /\ guest \in [Guests -> {"out", "named", "queued", "running", "done"}]
  BY SpeakersApart DEF Conducted, TypeOK, Feed
<1>1. guest[g] # "running" => g \notin feed.open /\ g \notin busy
  <2> SUFFICES ASSUME guest[g] # "running" PROVE g \notin feed.open /\ g \notin busy
    OBVIOUS
  <2>1. CASE guest[g] # "out"
    <3>1. InRound
      BY <2>1 DEF Conducted, RoundOpen, GuestsOut
    <3>2. feed.open = Going \cup OrchStreams /\ busy = Going
      BY <3>1 DEF Conducted, Followed, InRound, Mentioned, Handling
    <3> QED BY <3>2, SpeakersApart DEF Going, OrchStreams
  <2> QED BY <2>1 DEF GuestStep, Missing, Launch, Start, Finish, Answer
<1>2. CASE Missing(g)
  <2>1. /\ guest[g] = "named" /\ GuestMoves(g, "out") /\ feed' = Tells(feed, g)
        /\ UNCHANGED <<busy, drafts, convo>>
    BY <1>2 DEF Missing, GuestMoves
  <2>2. feed' \in Feed /\ feed'.open = feed.open /\ feed'.heard = feed.heard \cup {g}
    BY <1>0, <2>1, FeedChanges
  <2>3. Cardinality(Running') <= GuestSlots
    BY <1>0, <2>1, SlotsKept DEF GuestMoves
  <2>4. feed'.open = feed.open \ {g} /\ busy' = busy \ {g} /\ Saves
    BY <1>1, <2>1, <2>2 DEF Saves
  <2> QED BY <2>1, <2>2, <2>3, <2>4, GuestKeeps
<1>3. CASE Launch(g)
  <2>1. /\ guest[g] = "named" /\ GuestMoves(g, "queued")
        /\ UNCHANGED <<feed, busy, drafts, convo>>
    BY <1>3 DEF Launch, GuestMoves
  <2>2. Cardinality(Running') <= GuestSlots
    BY <1>0, <2>1, SlotsKept DEF GuestMoves
  <2>3. feed'.open = feed.open \ {g} /\ busy' = busy \ {g} /\ Saves
    BY <1>1, <2>1 DEF Saves
  <2> QED BY <1>0, <2>1, <2>2, <2>3, GuestKeeps
<1>4. CASE Start(g)
  <2>1. /\ guest[g] = "queued" /\ GuestMoves(g, "running") /\ feed' = Opens(feed, g)
        /\ busy' = busy \cup {g} /\ Cardinality(Running) < GuestSlots
        /\ UNCHANGED <<drafts, convo>>
    BY <1>4 DEF Start, GuestMoves
  <2>2. feed' \in Feed /\ feed'.open = feed.open \cup {g} /\ feed'.heard = feed.heard
    BY <1>0, <2>1, FeedChanges
  <2>3. Cardinality(Running') <= GuestSlots
    BY <1>0, <2>1, SlotsKept DEF GuestMoves
  <2>4. Saves
    BY <2>1 DEF Saves
  <2> QED BY <2>1, <2>2, <2>3, <2>4, GuestKeeps
<1>5. ASSUME NEW ok \in BOOLEAN, Finish(g, ok) PROVE Conducted' /\ OwnDraftFirst
  <2> DEFINE to == IF ok THEN "done" ELSE "out"
  <2>1. /\ guest[g] = "running" /\ GuestMoves(g, to) /\ feed' = Closes(feed, g)
        /\ busy' = busy \ {g} /\ UNCHANGED <<drafts, convo>>
    BY <1>5 DEF Finish, GuestMoves
  <2>2. to \in {"done", "out"}
    OBVIOUS
  <2> HIDE DEF to
  <2>3. /\ feed' \in Feed /\ feed'.open = feed.open \ {g}
        /\ feed'.heard = feed.heard \cup {g}
    BY <1>0, <2>1, FeedChanges
  <2>4. Cardinality(Running') <= GuestSlots
    BY <1>0, <2>1, <2>2, SlotsKept DEF GuestMoves, Running
  <2>5. Saves
    BY <2>1 DEF Saves
  <2> QED BY <2>1, <2>2, <2>3, <2>4, <2>5, GuestKeeps
<1>6. ASSUME NEW edits \in BOOLEAN, Answer(g, edits) PROVE Conducted' /\ OwnDraftFirst
  <2>1. /\ guest[g] = "done" /\ GuestMoves(g, "out") /\ UNCHANGED <<feed, busy>>
        /\ RecordResponse("room", g)
        /\ Saves
    BY <1>6 DEF Answer, GuestMoves, Edits, Saves
  <2>2. Cardinality(Running') <= GuestSlots
    BY <1>0, <2>1, SlotsKept DEF GuestMoves
  <2>3. feed'.open = feed.open \ {g} /\ busy' = busy \ {g}
    BY <1>1, <2>1
  <2> QED BY <1>0, <2>1, <2>2, <2>3, GuestKeeps
<1> QED BY <1>2, <1>3, <1>4, <1>5, <1>6 DEF GuestStep

-------------------------------------------------------------------------------
(* The listener between messages, and on the paths without a round.           *)

\* Where no guest is out, a step that stays off the handling of a round keeps
\* what is said about guests as long as streams and tasks agree.
LEMMA QuietSteps ==
    ASSUME Conducted, GuestsOut, UNCHANGED guest, turn' \in Turn, feed' \in Feed,
           turn'.chosen \subseteq feed'.heard,
           turn'.path # "respec" => feed'.open = Mentioned' \cup OrchStreams',
           busy' = Mentioned'
    PROVE  Followed' /\ GuestsOut' /\ Running' = Running
<1>1. GuestsOut' /\ Running' = Running /\ Going' = {}
  BY DEF GuestsOut, Running, Going
<1>2. \A g \in turn'.chosen : g \in feed'.heard
  OBVIOUS
<1> QED BY <1>1, <1>2 DEF Followed

\* So does the listener when it takes a message up, of any kind and for any room.
LEMMA TakeKeeps ==
    ASSUME Conducted, NEW kind \in Kinds, NEW room \in SUBSET Guests,
           NEW named \in SUBSET Guests, NEW mention \in room \cup {Nobody},
           Take(kind, room, mention, named)
    PROVE  Conducted' /\ OwnDraftFirst
<1> DEFINE all == IF mention # Nobody THEN room ELSE Invited(kind, room, named)
           path == Path(kind, all, mention)
<1>0. /\ TypeOK /\ OnPath /\ RoundOpen /\ AnswersInOwnRound
      /\ turn.pc = "idle" /\ turn.id < MaxMessages /\ kind \in AllKinds
      /\ turn.id \in Nat /\ MaxMessages \in Nat /\ drafts \in Nat
  BY ConversationAssumption
     DEF Conducted, Take, ConversationAssumption, TypeOK, Turn
<1>1. all \in SUBSET Guests
  BY DEF Invited
<1>2. path \in Paths
  BY DEF Path, Paths
<1>3. turn' = [pc |-> path, path |-> path, id |-> turn.id + 1, kind |-> kind,
               room |-> all, mention |-> mention, chosen |-> {}, found |-> FALSE,
               sure |-> TRUE]
  BY DEF Take
<1>4. turn.id + 1 \in Ids /\ turn.id + 1 \in 0..MaxMessages /\ path \in Steps
  BY <1>0, <1>2 DEF Ids, Steps, Paths, Handling
<1>5. path = "mention" => mention \in Guests
  BY DEF Path
<1>6. path = "handle" => all = {} \/ kind = "execute"
  BY DEF Path
<1> HIDE DEF all, path
<1>7. /\ turn' \in Turn /\ turn'.pc = path /\ turn'.path = path /\ turn'.id \in Ids
      /\ turn'.chosen = {} /\ turn'.kind = kind /\ turn'.room = all
      /\ turn'.mention = mention
  BY <1>0, <1>1, <1>2, <1>3, <1>4 DEF Turn
<1>8. /\ feed' = Quiet /\ feed' \in Feed /\ feed'.open = {}
      /\ UNCHANGED <<guest, convo, shared, updates, busy, compiling, session, respec>>
  BY DEF Take, Quiet, Feed
<1>9. drafts' \in Nat
  BY <1>0, LooksAndWrites DEF Take, Archived
<1>10. GuestsOut /\ busy = {}
  <2>1. GuestsOut
    BY <1>0 DEF RoundOpen, InRound, Handling
  <2> QED BY <1>0, <2>1 DEF Conducted, Followed, Going, Mentioned, GuestsOut
<1>11. Followed' /\ GuestsOut' /\ Running' = Running
  <2>1. Mentioned' = {} /\ OrchStreams' = {}
    BY <1>2, <1>7 DEF Mentioned, OrchStreams, Streaming, Paths
  <2> QED BY <1>7, <1>8, <1>10, <2>1, QuietSteps
<1>12. TypeOK'
  <2>1. updates' \subseteq [after : Ids, rests : SUBSET Ids]
    BY <1>0, <1>8 DEF TypeOK
  <2> QED BY <1>0, <1>7, <1>8, <1>9, <1>11, <2>1 DEF TypeOK, Feed
<1>13. OnPath'
  BY <1>2, <1>5, <1>6, <1>7 DEF OnPath, Paths, Handling, PlanSteps
<1>14. RoundOpen' /\ DraftFirst'
  <2>1. turn'.pc = "handle" => turn'.path = "handle"
    BY <1>7
  <2>2. ~InRound' /\ turn'.pc \notin {"route", "mentioned", "voiced", "write"}
    BY <1>2, <1>7 DEF InRound, Paths, Handling
  <2> QED BY <1>11, <2>2 DEF RoundOpen, DraftFirst
<1>15. AnswersInOwnRound'
  BY <1>0, <1>8 DEF AnswersInOwnRound, Rounds
<1>16. OwnDraftFirst
  BY <1>0 DEF OwnDraftFirst
<1> QED BY <1>11, <1>12, <1>13, <1>14, <1>15, <1>16 DEF Conducted

\* Off the round's handling every guest is out and no task is active but the one
\* of the guest that was mentioned.
LEMMA OffRound ==
    ASSUME Conducted, turn.pc \in {"context", "mention", "mentioned", "voice", "voiced",
                                   "respec", "respeccing", "round", "route"}
    PROVE  /\ GuestsOut /\ ~InRound /\ turn.id \in Ids /\ turn \in Turn /\ feed \in Feed
           /\ busy = Mentioned /\ session \in Sessions
           /\ turn.path # "respec" => feed.open = Mentioned \cup OrchStreams
           /\ turn.chosen \subseteq feed.heard
           /\ convo \in [Channels -> Convo] /\ shared \in [Channels -> SUBSET Ids]
           /\ \A x \in Channels : Len(convo[x].history) <= HistoryCap
           /\ respec \in [on : BOOLEAN, resumable : BOOLEAN]
           /\ (UNCHANGED convo => AnswersInOwnRound')
<1>1. TypeOK /\ RoundOpen /\ Followed /\ AnswersInOwnRound
  BY DEF Conducted
<1>2. ~InRound
  BY DEF InRound, Handling
<1>3. GuestsOut
  BY <1>1, <1>2 DEF RoundOpen
<1>4. Going = {}
  BY <1>3 DEF Going, GuestsOut
<1>5. UNCHANGED convo => AnswersInOwnRound'
  BY <1>1 DEF AnswersInOwnRound, Rounds
<1>6. turn.chosen \subseteq feed.heard
  BY <1>1, <1>3 DEF Followed, GuestsOut, TypeOK, Turn
<1> QED BY <1>1, <1>2, <1>3, <1>4, <1>5, <1>6
        DEF TypeOK, Followed, Convo, Feed, Sessions

\* What the steps of the short paths - mention, voice, respec, context - have to
\* do, to keep it all.
LEMMA ShortPathKeeps ==
    ASSUME Conducted, NEW pc \in {"idle", "mentioned", "voiced", "respeccing"}, Goto(pc),
           turn.pc \in {"context", "mention", "mentioned", "voice", "voiced", "respec",
                        "respeccing"},
           pc = "mentioned" => turn.pc = "mention", pc = "voiced" => turn.pc = "voice",
           pc = "respeccing" => turn.pc = "respec",
           UNCHANGED <<guest, updates, shared, compiling>>, Saves,
           pc = "mentioned" => convo'[Channel(turn.kind)].current.msg = turn.id,
           pc = "voiced" => convo'["voice"].current.msg = turn.id,
           convo' \in [Channels -> Convo],
           \A x \in Channels : Len(convo'[x].history) <= HistoryCap,
           AnswersInOwnRound', session' \in Sessions,
           respec' \in [on : BOOLEAN, resumable : BOOLEAN],
           feed' \in Feed, feed.heard \subseteq feed'.heard,
           turn.path # "respec" => feed'.open = Mentioned' \cup OrchStreams',
           busy' = Mentioned'
    PROVE  Conducted' /\ OwnDraftFirst
<1>0. /\ TypeOK /\ OnPath /\ drafts \in Nat /\ turn.path \in Paths /\ pc \in Steps
  BY DEF Conducted, TypeOK, Turn, Steps
<1>1. turn' \in Turn /\ SameMessage /\ turn'.pc = pc
  BY <1>0, GotoStep DEF TypeOK
<1>2. /\ GuestsOut /\ turn.id \in Ids
      /\ turn.chosen \subseteq feed.heard
  BY OffRound
<1>3. Followed' /\ GuestsOut' /\ Running' = Running
  BY <1>1, <1>2, QuietSteps DEF SameMessage
<1>4. drafts' \in Nat
  BY <1>0 DEF Saves
<1>5. OwnDraftFirst
  BY DEF OwnDraftFirst
<1>6. turn.pc \in {"mention", "mentioned"} => turn.path = "mention" /\ turn.mention \in Guests
  BY <1>0 DEF OnPath, Paths, Handling
<1>7. TypeOK'
  <2>1. busy' \subseteq Guests
    BY <1>1, <1>6 DEF Mentioned, SameMessage
  <2>2. /\ guest' \in [Guests -> {"out", "named", "queued", "running", "done"}]
        /\ Cardinality(Running') <= GuestSlots
        /\ updates' \subseteq [after : Ids, rests : SUBSET Ids]
        /\ shared' \in [Channels -> SUBSET Ids]
    BY <1>0, <1>3 DEF TypeOK
  <2> QED BY <1>0, <1>1, <1>2, <1>4, <2>1, <2>2 DEF TypeOK, Convo, Feed, Sessions, SameMessage
<1>8. OnPath'
  BY <1>0, <1>1 DEF OnPath, SameMessage, Paths, Handling, PlanSteps
<1>9. RoundOpen' /\ DraftFirst'
  <2>1. ~InRound' /\ turn'.pc \notin {"route", "write"} /\ turn'.id = turn.id
        /\ turn'.kind = turn.kind
    BY <1>1 DEF InRound, Handling, SameMessage
  <2> QED BY <1>1, <1>3, <2>1 DEF RoundOpen, DraftFirst
<1> QED BY <1>3, <1>5, <1>7, <1>8, <1>9 DEF Conducted

ShortStep == ContextCommand \/ MentionStep \/ VoiceStep \/ RespecStep

\* So do the paths without a handler: a context command, a mention, voice, respec.
LEMMA ShortStepKeeps ==
    ASSUME Conducted, ShortStep
    PROVE  Conducted' /\ OwnDraftFirst
<1>0. /\ TypeOK /\ turn \in Turn /\ feed \in Feed /\ drafts \in Nat
      /\ turn.path \in Paths /\ OnPath /\ RoundOpen /\ AnswersInOwnRound
      /\ Orch \in Speakers /\ session \in Sessions
      /\ Channel(turn.kind) \in Channels /\ "voice" \in Channels
      /\ respec \in [on : BOOLEAN, resumable : BOOLEAN]
      /\ {"idle", "mentioned", "voiced", "respeccing"} \subseteq Steps
  BY SpeakersApart DEF Conducted, TypeOK, Turn, Feed, Sessions, Channel, Channels, Steps
<1>1. CASE ContextCommand
  <2>1. turn.pc = "context" /\ Goto("idle") /\ feed' = Tells(feed, Orch)
        /\ UNCHANGED <<guest, convo, shared, updates, busy, drafts, compiling, session, respec>>
    BY <1>1 DEF ContextCommand
  <2>2. turn'.pc = "idle" /\ SameMessage
    BY <1>0, <2>1, GotoStep
  <2>3. Mentioned = {} /\ Mentioned' = {} /\ OrchStreams = {} /\ OrchStreams' = {}
    BY <2>1, <2>2 DEF Mentioned, OrchStreams, Streaming
  <2>4. feed' \in Feed /\ feed'.open = feed.open /\ feed.heard \subseteq feed'.heard
    BY <1>0, <2>1, FeedChanges
  <2> QED BY <2>1, <2>3, <2>4, OffRound, ShortPathKeeps DEF Saves
<1>2. ASSUME NEW ok \in BOOLEAN, MentionStart(ok) PROVE Conducted' /\ OwnDraftFirst
  <2> DEFINE to == IF ok THEN "mentioned" ELSE "idle"
  <2>1. /\ turn.pc = "mention" /\ Goto(to) /\ RecordUserMessage(Channel(turn.kind))
        /\ UNCHANGED <<guest, shared, updates, drafts, compiling, session, respec>>
    BY <1>2 DEF MentionStart
  <2>2. \/ /\ to = "mentioned" /\ busy' = busy \cup {turn.mention}
           /\ feed' = Opens(feed, turn.mention)
        \/ to = "idle" /\ busy' = busy /\ feed' = Tells(feed, Orch)
    BY <1>2 DEF MentionStart
  <2> HIDE DEF to
  <2>3. turn'.pc = to /\ SameMessage
    BY <1>0, <2>1, <2>2, GotoStep
  <2>4. turn.path = "mention" /\ turn.mention \in Speakers /\ turn.id \in Ids
    BY <1>0, <2>1, SpeakersApart, OffRound DEF OnPath, Paths, Handling
  <2>5. /\ convo' \in [Channels -> Convo] /\ AnswersInOwnRound'
        /\ \A x \in Channels : Len(convo'[x].history) <= HistoryCap
        /\ convo'[Channel(turn.kind)].current.msg = turn.id
    BY <1>0, <2>1, <2>4, UserMessageRecorded
  <2>6. /\ busy = {} /\ feed.open = {}
        /\ Mentioned' = (IF to = "mentioned" THEN {turn.mention} ELSE {})
        /\ OrchStreams' = {}
    <3>1. Mentioned = {} /\ OrchStreams = {}
      BY <2>1 DEF Mentioned, OrchStreams, Streaming
    <3> QED BY <2>1, <2>2, <2>3, <2>4, <3>1, OffRound
            DEF Mentioned, OrchStreams, Streaming, SameMessage
  <2>7. /\ feed' \in Feed /\ feed.heard \subseteq feed'.heard
        /\ feed'.open = (IF to = "mentioned" THEN {turn.mention} ELSE {})
        /\ busy' = (IF to = "mentioned" THEN {turn.mention} ELSE {})
    <3>1. CASE to = "mentioned"
      <4>1. feed' = Opens(feed, turn.mention) /\ busy' = busy \cup {turn.mention}
        BY <2>2, <3>1
      <4>2. /\ feed' \in Feed /\ feed'.heard = feed.heard
            /\ feed'.open = feed.open \cup {turn.mention}
        BY <1>0, <2>4, <4>1, FeedChanges
      <4> QED BY <2>6, <3>1, <4>1, <4>2
    <3>2. CASE to = "idle"
      <4>1. feed' = Tells(feed, Orch) /\ busy' = busy
        BY <2>2, <3>2
      <4>2. /\ feed' \in Feed /\ feed'.heard = feed.heard \cup {Orch}
            /\ feed'.open = feed.open
        BY <1>0, <4>1, FeedChanges
      <4> QED BY <2>6, <3>2, <4>1, <4>2
    <3> QED BY <2>2, <3>1, <3>2
  <2>8. session' \in Sessions /\ respec' \in [on : BOOLEAN, resumable : BOOLEAN]
    BY <1>0, <2>1
  <2> QED BY <2>1, <2>2, <2>5, <2>6, <2>7, <2>8, ShortPathKeeps DEF Saves
<1>3. ASSUME NEW ok \in BOOLEAN, NEW edits \in BOOLEAN, MentionEnd(ok, edits)
      PROVE  Conducted' /\ OwnDraftFirst
  <2>1. /\ turn.pc = "mentioned" /\ Goto("idle") /\ busy' = busy \ {turn.mention}
        /\ feed' = Closes(feed, turn.mention)
        /\ Saves
        /\ UNCHANGED convo \/ RecordResponse(Channel(turn.kind), turn.mention)
        /\ UNCHANGED <<guest, shared, updates, compiling, session, respec>>
    BY <1>3 DEF MentionEnd, Edits, Saves
  <2>2. turn'.pc = "idle" /\ SameMessage
    BY <1>0, <2>1, GotoStep
  <2>3. /\ turn.path = "mention" /\ turn.mention \in Guests /\ turn.mention \in Speakers
        /\ turn.id \in Ids
    BY <1>0, <2>1, SpeakersApart, OffRound DEF OnPath, Paths, Handling
  <2>4. busy = {turn.mention} /\ feed.open = {turn.mention}
    <3>1. Mentioned = {turn.mention} /\ OrchStreams = {}
      BY <2>1 DEF Mentioned, OrchStreams, Streaming
    <3> QED BY <2>1, <2>3, <3>1, OffRound
  <2>5. Mentioned' = {} /\ OrchStreams' = {}
    BY <2>2 DEF Mentioned, OrchStreams, Streaming
  <2>6. /\ feed' \in Feed /\ feed.heard \subseteq feed'.heard
        /\ feed'.open = {} /\ busy' = {}
    <3>1. /\ feed' \in Feed /\ feed'.heard = feed.heard \cup {turn.mention}
          /\ feed'.open = feed.open \ {turn.mention}
      BY <1>0, <2>1, <2>3, FeedChanges
    <3> QED BY <2>1, <2>4, <3>1
  <2>7. /\ convo' \in [Channels -> Convo] /\ AnswersInOwnRound'
        /\ \A x \in Channels : Len(convo'[x].history) <= HistoryCap
    <3>1. CASE UNCHANGED convo
      BY <2>1, <3>1, OffRound
    <3>2. CASE RecordResponse(Channel(turn.kind), turn.mention)
      <4>1. convo[Channel(turn.kind)].current.msg = turn.id
        BY <1>0, <2>1 DEF RoundOpen
      <4>2. /\ convo' \in [Channels -> Convo] /\ AnswersInOwnRound'
            /\ \A x \in Channels : convo'[x].history = convo[x].history
        BY <1>0, <2>3, <3>2, <4>1, ResponseRecorded
      <4>3. \A x \in Channels : Len(convo[x].history) <= HistoryCap
        BY <2>1, OffRound
      <4> QED BY <4>2, <4>3
    <3> QED BY <2>1, <3>1, <3>2
  <2>8. session' \in Sessions /\ respec' \in [on : BOOLEAN, resumable : BOOLEAN]
    BY <1>0, <2>1
  <2> QED BY <2>1, <2>3, <2>5, <2>6, <2>7, <2>8, ShortPathKeeps DEF Saves
<1>4. CASE VoiceStart
  <2>1. /\ turn.pc = "voice" /\ Goto("voiced") /\ RecordUserMessage("voice")
        /\ feed' = Opens(feed, Orch)
        /\ UNCHANGED <<guest, shared, updates, busy, drafts, compiling, session, respec>>
    BY <1>4 DEF VoiceStart
  <2>2. turn'.pc = "voiced" /\ SameMessage
    BY <1>0, <2>1, GotoStep
  <2>3. turn.path = "voice" /\ turn.id \in Ids
    BY <1>0, <2>1, OffRound DEF OnPath, Paths, Handling
  <2>4. busy = {} /\ feed.open = {}
    <3>1. Mentioned = {} /\ OrchStreams = {}
      BY <2>1 DEF Mentioned, OrchStreams, Streaming
    <3> QED BY <2>1, <2>3, <3>1, OffRound
  <2>5. Mentioned' = {} /\ OrchStreams' = {Orch}
    BY <2>2 DEF Mentioned, OrchStreams, Streaming
  <2>6. feed' \in Feed /\ feed.heard \subseteq feed'.heard /\ feed'.open = {Orch}
    BY <1>0, <2>1, <2>4, FeedChanges
  <2>7. /\ convo' \in [Channels -> Convo] /\ AnswersInOwnRound'
        /\ \A x \in Channels : Len(convo'[x].history) <= HistoryCap
        /\ convo'["voice"].current.msg = turn.id
    BY <1>0, <2>1, <2>3, UserMessageRecorded
  <2>8. session' \in Sessions /\ respec' \in [on : BOOLEAN, resumable : BOOLEAN]
    BY <1>0, <2>1
  <2> QED BY <2>1, <2>4, <2>5, <2>6, <2>7, <2>8, ShortPathKeeps DEF Saves
<1>5. ASSUME NEW called \in BOOLEAN, NEW replies \in BOOLEAN, VoiceEnd(called, replies)
      PROVE  Conducted' /\ OwnDraftFirst
  <2>1. /\ turn.pc = "voiced" /\ Goto("idle") /\ feed' = Closes(feed, Orch)
        /\ Consulted \/ Unanswered
        /\ UNCHANGED convo \/ RecordResponse("voice", Orch)
        /\ UNCHANGED <<guest, shared, updates, busy, drafts, compiling, respec>>
    BY <1>5 DEF VoiceEnd
  <2>2. turn'.pc = "idle" /\ SameMessage
    BY <1>0, <2>1, GotoStep
  <2>3. turn.path = "voice" /\ turn.id \in Ids
    BY <1>0, <2>1, OffRound DEF OnPath, Paths, Handling
  <2>4. busy = {} /\ feed.open = {Orch}
    <3>1. Mentioned = {} /\ OrchStreams = {Orch}
      BY <2>1 DEF Mentioned, OrchStreams, Streaming
    <3> QED BY <2>1, <2>3, <3>1, OffRound
  <2>5. Mentioned' = {} /\ OrchStreams' = {}
    BY <2>2 DEF Mentioned, OrchStreams, Streaming
  <2>6. feed' \in Feed /\ feed.heard \subseteq feed'.heard /\ feed'.open = {}
    <3>1. /\ feed' \in Feed /\ feed'.heard = feed.heard \cup {Orch}
          /\ feed'.open = feed.open \ {Orch}
      BY <1>0, <2>1, FeedChanges
    <3> QED BY <2>4, <3>1
  <2>7. /\ convo' \in [Channels -> Convo] /\ AnswersInOwnRound'
        /\ \A x \in Channels : Len(convo'[x].history) <= HistoryCap
    <3>1. CASE UNCHANGED convo
      BY <2>1, <3>1, OffRound
    <3>2. CASE RecordResponse("voice", Orch)
      <4>1. convo["voice"].current.msg = turn.id
        BY <1>0, <2>1 DEF RoundOpen
      <4>2. /\ convo' \in [Channels -> Convo] /\ AnswersInOwnRound'
            /\ \A x \in Channels : convo'[x].history = convo[x].history
        BY <1>0, <2>3, <3>2, <4>1, ResponseRecorded
      <4>3. \A x \in Channels : Len(convo[x].history) <= HistoryCap
        BY <2>1, OffRound
      <4> QED BY <4>2, <4>3
    <3> QED BY <2>1, <3>1, <3>2
  <2>8. session' \in Sessions /\ respec' \in [on : BOOLEAN, resumable : BOOLEAN]
    BY <1>0, <2>1 DEF Consulted, Unanswered, Sessions
  <2> QED BY <2>1, <2>4, <2>5, <2>6, <2>7, <2>8, ShortPathKeeps DEF Saves
<1>6. CASE RespecStep
  <2>1. PICK pc \in {"idle", "respeccing"} :
           /\ Goto(pc) /\ turn.pc \in {"respec", "respeccing"}
           /\ pc = "respeccing" => turn.pc = "respec"
           /\ \E f \in {Tells(feed, Orch), Opens(feed, Orch), Closes(feed, Orch)} : feed' = f
    BY <1>6 DEF RespecStep, RespecReply, RespecStart, RespecFails, RespecAnswers
  <2>2. UNCHANGED <<guest, convo, shared, updates, busy, drafts, compiling>>
    BY <1>6 DEF RespecStep, RespecReply, RespecStart, RespecFails, RespecAnswers
  <2>3. session' \in Sessions
    BY <1>0, <1>6 DEF RespecStep, RespecReply, RespecStart, RespecFails, RespecAnswers,
       Recorded, Sessions
  <2>4. respec' \in [on : BOOLEAN, resumable : BOOLEAN]
    <3>1. \/ respec' = respec \/ respec' = RespecOff
          \/ respec' = [respec EXCEPT !.on = TRUE]
          \/ \E id \in BOOLEAN : respec' = [on |-> TRUE, resumable |-> id]
      BY <1>6 DEF RespecStep, RespecReply, RespecStart, RespecFails, RespecAnswers
    <3>2. /\ RespecOff \in [on : BOOLEAN, resumable : BOOLEAN]
          /\ [respec EXCEPT !.on = TRUE] \in [on : BOOLEAN, resumable : BOOLEAN]
          /\ \A id \in BOOLEAN :
                [on |-> TRUE, resumable |-> id] \in [on : BOOLEAN, resumable : BOOLEAN]
      BY <1>0 DEF RespecOff
    <3> QED BY <1>0, <3>1, <3>2
  <2>5. turn'.pc = pc /\ SameMessage
    BY <1>0, <2>1, GotoStep
  <2>6. turn.path = "respec"
    BY <1>0, <2>1 DEF OnPath, Paths, Handling
  <2>7. Mentioned = {} /\ Mentioned' = {}
    BY <2>1, <2>5 DEF Mentioned
  <2>8. feed' \in Feed /\ feed.heard \subseteq feed'.heard
    BY <1>0, <2>1, FeedChanges
  <2>9. /\ convo' \in [Channels -> Convo] /\ AnswersInOwnRound' /\ busy' = Mentioned'
        /\ \A x \in Channels : Len(convo'[x].history) <= HistoryCap
    BY <2>1, <2>2, <2>7, OffRound
  <2> QED BY <2>1, <2>2, <2>3, <2>4, <2>6, <2>8, <2>9, ShortPathKeeps DEF Saves
<1> QED BY <1>1, <1>2, <1>3, <1>4, <1>5, <1>6 DEF ShortStep, MentionStep, VoiceStep

-------------------------------------------------------------------------------
(* The round: opened, routed, finalised, summarised.                          *)

\* So does the opening of a round: it is empty, and no task runs in it yet.
LEMMA OpenRoundKeeps ==
    ASSUME Conducted, OpenRound
    PROVE  Conducted' /\ OwnDraftFirst
<1>0. /\ TypeOK /\ OnPath /\ turn \in Turn /\ drafts \in Nat
      /\ turn.path \in Paths /\ "room" \in Channels
  BY DEF Conducted, TypeOK, Turn, Channels
<1>1. /\ turn.pc = "round" /\ RecordUserMessage("room")
      /\ UNCHANGED <<guest, shared, updates, feed, busy, drafts, compiling, session, respec>>
  BY DEF OpenRound
<1>2. PICK found \in LatestDraft :
         turn' = [turn EXCEPT !.pc = IF FirstDraft(found) THEN "handle" ELSE "route",
                              !.sure = Sure(found)]
  BY DEF OpenRound
<1> DEFINE to == IF FirstDraft(found) THEN "handle" ELSE "route"
<1>20. to \in {"handle", "route"} /\ (Planning(turn.kind) /\ to = "route" => drafts # 0)
  BY <1>0, LooksAndWrites DEF FirstDraft
<1>21. turn' = [turn EXCEPT !.pc = to, !.sure = Sure(found)]
  BY <1>2
<1> HIDE DEF to
<1>3. turn' \in Turn /\ SameMessage /\ turn'.pc = to
  <2>1. Sure(found) \in BOOLEAN /\ to \in Steps
    BY <1>0, <1>20 DEF Sure, Turn, Steps, Handling
  <2> QED BY <1>0, <1>21, <2>1 DEF Turn, SameMessage
<1>4. /\ GuestsOut /\ turn.id \in Ids /\ busy = Mentioned
      /\ turn.chosen \subseteq feed.heard /\ feed \in Feed
  BY <1>1, OffRound
<1>5. turn.path = "round"
  BY <1>0, <1>1 DEF OnPath, Paths, Handling
<1>6. /\ convo' \in [Channels -> Convo] /\ AnswersInOwnRound'
      /\ \A x \in Channels : Len(convo'[x].history) <= HistoryCap
      /\ convo'["room"].current.msg = turn.id
  BY <1>0, <1>1, <1>4, UserMessageRecorded DEF Conducted
<1>7. Mentioned = {} /\ Mentioned' = {} /\ OrchStreams = {} /\ OrchStreams' = {}
  BY <1>1, <1>20, <1>3 DEF Mentioned, OrchStreams, Streaming
<1>8. Followed' /\ GuestsOut' /\ Running' = Running
  <2>1. feed.open = {}
    BY <1>1, <1>5, <1>7, OffRound
  <2> QED BY <1>1, <1>3, <1>4, <1>7, <2>1, QuietSteps DEF SameMessage
<1>9. TypeOK'
  BY <1>0, <1>1, <1>3, <1>4, <1>6, <1>8 DEF TypeOK, Convo, SameMessage
<1>10. OnPath'
  BY <1>0, <1>20, <1>3, <1>5 DEF OnPath, SameMessage, Handling, PlanSteps
<1>11. RoundOpen'
  BY <1>20, <1>3, <1>6, <1>8 DEF RoundOpen, SameMessage
<1>12. DraftFirst'
  BY <1>1, <1>20, <1>3, <1>8 DEF DraftFirst, SameMessage
<1>13. OwnDraftFirst
  BY <1>0, <1>1 DEF OwnDraftFirst
<1> QED BY <1>6, <1>8, <1>9, <1>10, <1>11, <1>12, <1>13 DEF Conducted

\* The router's guests are named; the round they answer in is open.
LEMMA RouteKeeps ==
    ASSUME Conducted, NEW chosen \in SUBSET Guests, NEW withOrch \in BOOLEAN,
           NEW rewrites \in BOOLEAN, Route(chosen, withOrch, rewrites)
    PROVE  Conducted' /\ OwnDraftFirst
<1>0. /\ TypeOK /\ OnPath /\ RoundOpen /\ DraftFirst /\ turn \in Turn /\ drafts \in Nat
      /\ turn.path \in Paths /\ "room" \in Channels
      /\ guest \in [Guests -> {"out", "named", "queued", "running", "done"}]
      /\ shared \in [Channels -> SUBSET Ids] /\ GuestSlots \in Nat
  BY ConversationAssumption
     DEF Conducted, TypeOK, Turn, Channels, ConversationAssumption
<1>1. PICK to \in {"wait", "handle"} :
         turn' = [turn EXCEPT !.chosen = chosen, !.pc = to]
  BY DEF Route
<1>2. /\ turn.pc = "route"
      /\ guest' = [g \in Guests |-> IF g \in chosen THEN "named" ELSE guest[g]]
      /\ UNCHANGED <<convo, updates, feed, busy, drafts, compiling, session, respec>>
  BY DEF Route
<1>3. /\ turn' \in Turn /\ turn'.pc = to /\ turn'.path = turn.path /\ turn'.id = turn.id
      /\ turn'.kind = turn.kind /\ turn'.room = turn.room /\ turn'.mention = turn.mention
      /\ turn'.chosen = chosen /\ turn'.found = turn.found /\ turn'.sure = turn.sure
  BY <1>0, <1>1 DEF Turn, Steps, Handling
<1>4. /\ GuestsOut /\ turn.id \in Ids /\ busy = Mentioned
      /\ feed \in Feed /\ (turn.path # "respec" => feed.open = Mentioned \cup OrchStreams)
      /\ (UNCHANGED convo => AnswersInOwnRound')
  BY <1>2, OffRound
<1>5. turn.path = "round" /\ InRound'
  <2>1. turn.path = "round"
    BY <1>0, <1>2 DEF OnPath, Paths, Handling
  <2> QED BY <1>3, <2>1 DEF InRound, Handling
<1>6. shared' \in [Channels -> SUBSET Ids]
  <2>1. History("room") \cup {turn.id} \in SUBSET Ids
    BY <1>0, <1>4, HistoryTypes
  <2>2. \/ shared' = shared
        \/ shared' = [shared EXCEPT !["room"] = shared["room"] \cup History("room") \cup {turn.id}]
    BY DEF Route
  <2> QED BY <1>0, <2>1, <2>2
<1>7. Running' = {} /\ Cardinality(Running') <= GuestSlots /\ Going' = {}
  <2>1. Running' = {} /\ Going' = {}
    BY <1>2, <1>4 DEF Running, Going, GuestsOut
  <2> QED BY <1>0, <2>1, FS_EmptySet
<1>8. TypeOK'
  <2>1. guest' \in [Guests -> {"out", "named", "queued", "running", "done"}]
    BY <1>0, <1>2
  <2> QED BY <1>0, <1>2, <1>3, <1>4, <1>6, <1>7, <2>1 DEF TypeOK
<1>9. OnPath'
  BY <1>0, <1>3, <1>5 DEF OnPath, Handling, PlanSteps
<1>10. RoundOpen'
  BY <1>0, <1>2, <1>3, <1>5 DEF RoundOpen
<1>11. Followed'
  <2>1. Mentioned = {} /\ Mentioned' = {} /\ OrchStreams = {} /\ OrchStreams' = {}
    BY <1>2, <1>3 DEF Mentioned, OrchStreams, Streaming
  <2>2. \A g \in turn'.chosen : guest'[g] = "named"
    BY <1>2, <1>3
  <2> QED BY <1>2, <1>3, <1>4, <1>5, <1>7, <2>1, <2>2 DEF Followed
<1>12. DraftFirst'
  BY <1>0, <1>2, <1>3 DEF DraftFirst
<1>13. OwnDraftFirst /\ AnswersInOwnRound'
  BY <1>0, <1>2, <1>4 DEF OwnDraftFirst
<1> QED BY <1>8, <1>9, <1>10, <1>11, <1>12, <1>13 DEF Conducted

\* So does the end of a round: what was said goes to the history, up to the cap.
LEMMA FinalizeRoundKeeps ==
    ASSUME Conducted, FinalizeRound
    PROVE  Conducted' /\ OwnDraftFirst
<1>0. /\ TypeOK /\ OnPath /\ RoundOpen /\ Followed /\ turn \in Turn /\ drafts \in Nat
      /\ turn.path \in Paths /\ "room" \in Channels
      /\ AnswersInOwnRound /\ feed \in Feed
  BY DEF Conducted, TypeOK, Turn, Channels, Feed
<1>1. /\ turn.pc = "wait" /\ GuestsOut /\ Goto("idle")
      /\ UNCHANGED <<guest, convo, shared, feed, busy, drafts, compiling, session, respec>>
  BY DEF FinalizeRound, GuestsOut
<1>2. turn' \in Turn /\ SameMessage /\ turn'.pc = "idle"
  BY <1>0, <1>1, GotoStep DEF Steps
<1>3. Mentioned = {} /\ Mentioned' = {} /\ OrchStreams = {} /\ OrchStreams' = {}
  BY <1>1, <1>2 DEF Mentioned, OrchStreams, Streaming
<1>4. Followed' /\ GuestsOut' /\ Running' = Running
  <2>1. Going = {} /\ turn.chosen \subseteq feed.heard
    BY <1>0, <1>1 DEF Going, GuestsOut, Followed, Turn
  <2>2. busy = {} /\ (turn.path # "respec" => feed.open = {})
    BY <1>0, <1>3, <2>1 DEF Followed
  <2> QED BY <1>0, <1>1, <1>2, <1>3, <2>1, <2>2, QuietSteps DEF SameMessage
<1>5. updates' \subseteq [after : Ids, rests : SUBSET Ids]
  <2>1. shared["room"] \cup History("room") \in SUBSET Ids /\ turn.id \in Ids
    BY <1>0, <1>1, HistoryTypes DEF TypeOK
  <2> DEFINE u == [after |-> turn.id, rests |-> shared["room"] \cup History("room")]
  <2>2. u \in [after : Ids, rests : SUBSET Ids]
    BY <2>1
  <2>3. updates' = updates \/ updates' = updates \cup {u}
    BY DEF FinalizeRound
  <2> HIDE DEF u
  <2> QED BY <1>0, <2>2, <2>3 DEF TypeOK
<1>6. TypeOK'
  BY <1>0, <1>1, <1>2, <1>4, <1>5 DEF TypeOK, SameMessage
<1>7. OnPath'
  BY <1>0, <1>2 DEF OnPath, SameMessage, PlanSteps
<1>8. RoundOpen' /\ DraftFirst'
  <2>1. ~InRound'
    BY <1>2 DEF InRound, Handling
  <2> QED BY <1>2, <1>4, <2>1 DEF RoundOpen, DraftFirst
<1>9. AnswersInOwnRound' /\ OwnDraftFirst
  BY <1>0, <1>1 DEF AnswersInOwnRound, Rounds, OwnDraftFirst
<1> QED BY <1>4, <1>6, <1>7, <1>8, <1>9 DEF Conducted

\* So does a summary in the background, which only replaces what the room shares.
LEMMA UpdateKeeps ==
    ASSUME Conducted, NEW u \in updates, NEW ok \in BOOLEAN, UpdateContext(u, ok)
    PROVE  Conducted' /\ OwnDraftFirst
<1>0. /\ TypeOK /\ OnPath /\ RoundOpen /\ Followed /\ DraftFirst /\ AnswersInOwnRound
  BY DEF Conducted
<1>1. /\ updates' = updates \ {u} /\ (shared' = shared \/ shared' = [shared EXCEPT !["room"] = u.rests])
      /\ UNCHANGED <<turn, guest, convo, feed, busy, drafts, compiling, session, respec>>
  BY DEF UpdateContext
<1>2. shared' \in [Channels -> SUBSET Ids] /\ updates' \subseteq [after : Ids, rests : SUBSET Ids]
  <2>1. u.rests \in SUBSET Ids /\ shared \in [Channels -> SUBSET Ids]
        /\ updates \subseteq [after : Ids, rests : SUBSET Ids]
    BY <1>0 DEF TypeOK
  <2> QED BY <1>1, <2>1
<1>3. TypeOK'
  BY <1>0, <1>1, <1>2 DEF TypeOK, Running
<1>4. OnPath' /\ RoundOpen' /\ AnswersInOwnRound'
  BY <1>0, <1>1 DEF OnPath, RoundOpen, InRound, GuestsOut, AnswersInOwnRound, Rounds
<1>5. Followed' /\ DraftFirst'
  BY <1>0, <1>1 DEF Followed, Going, Mentioned, OrchStreams, DraftFirst, GuestsOut
<1>6. OwnDraftFirst
  BY <1>0, <1>1 DEF OwnDraftFirst
<1> QED BY <1>3, <1>4, <1>5, <1>6 DEF Conducted

\* So does a compile in the background: once it has written to the store, nothing
\* is said any more about what the listener saw there.
LEMMA RecompileKeeps ==
    ASSUME Conducted, NEW over \in BOOLEAN, Recompile(over)
    PROVE  Conducted' /\ OwnDraftFirst
<1>0. /\ TypeOK /\ OnPath /\ RoundOpen /\ Followed /\ DraftFirst /\ AnswersInOwnRound
      /\ turn \in Turn /\ drafts \in Nat
  BY DEF Conducted, TypeOK
<1>1. /\ drafts' \in Written \cup {drafts + 1} /\ compiling' \in BOOLEAN
      /\ turn' = [turn EXCEPT !.sure = turn.sure /\ drafts' = drafts]
      /\ UNCHANGED <<guest, convo, shared, updates, feed, busy, respec>>
      /\ session' \in {session, "compile"}
  BY DEF Recompile, Recorded
<1>2. /\ turn' \in Turn /\ SameMessage /\ turn'.pc = turn.pc /\ turn'.found = turn.found
      /\ turn'.sure => turn.sure /\ drafts' = drafts
  BY <1>0, <1>1 DEF Turn, SameMessage
<1>3. drafts' \in Nat
  BY <1>0, <1>1, LooksAndWrites
<1>4. TypeOK'
  BY <1>0, <1>1, <1>2, <1>3 DEF TypeOK, Running, SameMessage
<1>5. OnPath' /\ RoundOpen' /\ AnswersInOwnRound'
  BY <1>0, <1>1, <1>2 DEF OnPath, RoundOpen, InRound, GuestsOut, AnswersInOwnRound, Rounds,
     SameMessage
<1>6. Followed' /\ DraftFirst'
  BY <1>0, <1>1, <1>2 DEF Followed, Going, Mentioned, OrchStreams, DraftFirst, GuestsOut,
     SameMessage
<1>7. OwnDraftFirst
  BY <1>2 DEF OwnDraftFirst
<1> QED BY <1>4, <1>5, <1>6, <1>7 DEF Conducted

-------------------------------------------------------------------------------
\* The invariant holds before the first message.
LEMMA ConductedAtFirst == Init => Conducted
<1> SUFFICES ASSUME Init PROVE Conducted
  OBVIOUS
<1>0. /\ MaxMessages \in Nat /\ HistoryCap \in Nat /\ GuestSlots \in Nat
  BY ConversationAssumption DEF ConversationAssumption
<1>1. NoRound \in Round /\ [current |-> NoRound, history |-> <<>>] \in Convo
  BY <1>0, EmptySeq DEF NoRound, Round, Convo
<1>2. Running = {} /\ Going = {} /\ Cardinality(Running) <= GuestSlots
  <2>1. Running = {} /\ Going = {}
    BY DEF Init, Running, Going
  <2> QED BY <1>0, <2>1, FS_EmptySet
<1>3. convo \in [Channels -> Convo] /\ \A ch \in Channels : Len(convo[ch].history) <= HistoryCap
  <2>1. Len(<<>>) = 0
    BY EmptySeq
  <2> QED BY <1>0, <1>1, <2>1 DEF Init
<1>4. turn \in Turn /\ drafts \in Nat
  <2>1. 0 \in 0..MaxMessages /\ 0 \in Nat
    BY <1>0
  <2> QED BY <2>1 DEF Init, Turn, Steps, Paths, AllKinds
<1>5. TypeOK
  BY <1>2, <1>3, <1>4 DEF Init, TypeOK, Convo, Quiet, RespecOff
<1>6. OnPath
  BY DEF Init, OnPath, PlanSteps
<1>7. RoundOpen /\ DraftFirst
  BY DEF Init, RoundOpen, DraftFirst, GuestsOut, InRound, Handling, Planning
<1>8. Followed
  <2>1. Mentioned = {} /\ OrchStreams = {}
    BY DEF Init, Mentioned, OrchStreams, Streaming
  <2> QED BY <1>2, <2>1 DEF Init, Followed, Quiet
<1>9. AnswersInOwnRound
  <2>1. \A r \in Rounds : r.answers = {}
    BY EmptySeq DEF Init, Rounds, NoRound
  <2> QED BY <2>1 DEF AnswersInOwnRound
<1> QED BY <1>5, <1>6, <1>7, <1>8, <1>9 DEF Conducted

\* Every step keeps the invariant, and opens no draft beside an open one.
LEMMA StepKeepsConducted == Conducted /\ [Next]_vars => Conducted' /\ OwnDraftFirst
<1> SUFFICES ASSUME Conducted, [Next]_vars PROVE Conducted' /\ OwnDraftFirst
  OBVIOUS
<1>1. CASE Arrive
  BY <1>1, TakeKeeps DEF Arrive
<1>2. CASE RouteAny
  <2>1. turn.room \in SUBSET Guests
    BY DEF Conducted, TypeOK, Turn
  <2> QED BY <1>2, <2>1, RouteKeeps DEF RouteAny
<1>3. CASE ShortStep
  BY <1>3, ShortStepKeeps
<1>4. CASE HandlerStep
  BY <1>4, HandlerKeeps
<1>5. CASE OpenRound \/ FinalizeRound
  BY <1>5, OpenRoundKeeps, FinalizeRoundKeeps
<1>6. CASE Background
  BY <1>6, UpdateKeeps, RecompileKeeps DEF Background, Summarise
<1>7. ASSUME NEW g \in Guests, GuestStep(g) PROVE Conducted' /\ OwnDraftFirst
  BY <1>7, GuestStepKeeps
<1>8. CASE UNCHANGED vars
  <2>2. OwnDraftFirst
    BY <1>8 DEF vars, OwnDraftFirst
  <2>3. TypeOK' /\ OnPath'
    BY <1>8 DEF vars, Conducted, TypeOK, Running, OnPath
  <2>4. RoundOpen' /\ AnswersInOwnRound'
    BY <1>8 DEF vars, Conducted, RoundOpen, InRound, GuestsOut, AnswersInOwnRound, Rounds
  <2>5. Followed' /\ DraftFirst'
    BY <1>8 DEF vars, Conducted, Followed, Going, Mentioned, OrchStreams, DraftFirst,
                GuestsOut
  <2> QED BY <2>2, <2>3, <2>4, <2>5 DEF Conducted
<1> QED BY <1>1, <1>2, <1>3, <1>4, <1>5, <1>6, <1>7, <1>8
        DEF Next, Listen, ShortStep, HandlerStep

\* The inductive invariant of the listener and its guests (routeMessage,
\* dispatchGuests, orchagent.go) holds in every reachable state.
THEOREM AlwaysConducted == Spec => []Conducted
<1>1. Conducted /\ [Next]_vars => Conducted'
  BY StepKeepsConducted
<1> QED BY <1>1, ConductedAtFirst, PTL DEF Spec

\* Every variable keeps its type; no more guests run at once than there are
\* slots, and no history outgrows its cap.
THEOREM TypeCorrect == Spec => []TypeOK
<1>1. Conducted => TypeOK
  BY DEF Conducted
<1> QED BY <1>1, AlwaysConducted, PTL

\* An answer is recorded in the round of the message it answers, whoever gives
\* it and however long it takes.
THEOREM AnswersStayInRound == Spec => []AnswersInOwnRound
<1>1. Conducted => AnswersInOwnRound
  BY DEF Conducted
<1> QED BY <1>1, AlwaysConducted, PTL

\* When the listener is done with a message, all the guests the router chose have
\* been heard or reported missing, the streams are closed, but for that of a
\* respec, and no task is active, whatever failed on the way.
THEOREM TurnsAreClosed == Spec => []TurnIsClosed
<1>1. Conducted => TurnIsClosed
  <2> SUFFICES ASSUME Conducted, turn.pc = "idle"
               PROVE  /\ turn.chosen \subseteq feed.heard
                      /\ turn.path # "respec" => feed.open = {}
                      /\ busy = {}
    BY DEF TurnIsClosed
  <2>1. GuestsOut /\ Followed /\ TypeOK
    BY DEF Conducted, RoundOpen, InRound, Handling
  <2>2. Going = {} /\ Mentioned = {} /\ OrchStreams = {}
    BY <2>1 DEF Going, GuestsOut, Mentioned, OrchStreams, Streaming
  <2> QED BY <2>1, <2>2 DEF Followed, GuestsOut, TypeOK, Turn
<1> QED BY <1>1, AlwaysConducted, PTL

\* The orchestrator starts a plan of its own only when the project has no open
\* draft, although it looks and writes in two steps and guests save drafts too -
\* unless a read of the drafts failed under way or a compile in the background has
\* written one.
THEOREM OneDraftOfOwnEver == Spec => OneDraftOfOwn
<1>1. Conducted /\ [Next]_vars =>
        [(turn.pc = "write" /\ turn'.pc = "wait" /\ drafts' > drafts)
             => drafts = 0 \/ ~turn.sure]_vars
  BY StepKeepsConducted DEF OwnDraftFirst
<1> QED BY <1>1, AlwaysConducted, PTL DEF Spec, OneDraftOfOwn
===============================================================================
