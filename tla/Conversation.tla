---------------------------- MODULE Conversation ----------------------------
(***************************************************************************)
(* The channel listener: HandleUserMessage with the room of guest agents.  *)
(*                                                                         *)
(* StartChannelListener handles one message at a time.  A message is       *)
(* claimed by the first of these paths that wants it: a mention of one     *)
(* guest, voice, a respec in progress, the context command, and otherwise  *)
(* the mode of its tag.  On the last path a routing call picks guests, who *)
(* answer in goroutines of their own (dispatchSelectedGuests) while the    *)
(* mode's handler works, and finalizeGuestRound waits for them.            *)
(*                                                                         *)
(* Model calls are the two or three steps of a handler, with every outcome *)
(* possible.  Texts are left out: an answer is the pair of its speaker and *)
(* the message it answers, a session summary the set of rounds it rests    *)
(* on, the plan store its open drafts.  A Revise click compiles in the    *)
(* background and writes the plan files meanwhile (PlanCompile has the     *)
(* details); the listener waits for a run to take a gate resolution        *)
(* (PlanRunner).                                                           *)
(***************************************************************************)
EXTENDS Integers, FiniteSets, Sequences

CONSTANTS
    Guests,       \* the guest agents with a file in the project
    Kinds,        \* the kinds of message the clients send
    MaxMessages,  \* bound: messages handled in a behaviour
    HistoryCap,   \* maxHistoryRounds: completed rounds kept per channel
    GuestSlots,   \* guests of a round that run at once
    MaxDrafts     \* bound: open drafts, but for those of the orchestrator

AllKinds == {"chat", "plan", "newplan", "loop", "execute", "voice", "respec",
             "cancel", "context"}

ASSUME ConversationAssumption ==
    /\ IsFiniteSet(Guests) /\ Guests \cap {"orch", "none"} = {}
    /\ Kinds \subseteq AllKinds
    /\ MaxMessages \in Nat /\ HistoryCap \in Nat \ {0}
    /\ GuestSlots \in Nat \ {0} /\ MaxDrafts \in Nat

Orch == "orch"                      \* the orchestrator as a speaker
Nobody == "none"
Speakers == Guests \cup {Orch}
Channels == {"room", "voice"}       \* convoBuf and sharedCtx are keyed by it
Ids == 1..MaxMessages

VARIABLES
    turn,      \* the message in hand, where its handling stands
    guest,     \* where the goroutine of each guest stands
    convo,     \* convoBuf: current round and history of each channel
    shared,    \* sharedCtx: the rounds each channel's summary rests on
    updates,   \* updateContextAfterRound calls in flight
    feed,      \* what the clients were sent for the message in hand
    busy,      \* guests that task-state.yaml calls active
    drafts,    \* the open drafts in the plan store, how many
    compiling, \* a compile in the background, or what it made others write back
    session,   \* what the session of the orchestrator agent was started for
    respec     \* the respec session of the room

vars == <<turn, guest, convo, shared, updates, feed, busy, drafts, compiling, session,
          respec>>

-----------------------------------------------------------------------------
(* Rounds *)

NoRound == [msg |-> 0, answers |-> {}]

Opened(c, id) ==
    [history |-> IF c.current.msg = 0 THEN c.history
                 ELSE LET h == Append(c.history, c.current)
                      IN  SubSeq(h, IF Len(h) > HistoryCap THEN 2 ELSE 1, Len(h)),
     current |-> [msg |-> id, answers |-> {}]]

RecordUserMessage(ch) == convo' = [convo EXCEPT ![ch] = Opened(@, turn.id)]

RecordResponse(ch, who) ==
    convo' = [convo EXCEPT ![ch].current.answers =
                @ \cup {[by |-> who, to |-> turn.id]}]

\* History: completed rounds only, the round in progress is not among them.
History(ch) == {convo[ch].history[i].msg : i \in DOMAIN convo[ch].history}

(* Plan drafts *)

\* LatestDraft finds one or none.  Nobody looks at its errors, and a plan that is
\* being written reads as no draft
LatestDraft == {FALSE} \cup (IF drafts = 0 THEN {} ELSE {TRUE})

\* A look that found no draft is not to be trusted when there is one
Sure(found) == turn.sure /\ (found \/ drafts = 0)

\* A draft is written in place: the write, or one that fails, may cost its status
Written == {drafts} \cup (IF drafts = 0 THEN {} ELSE {drafts - 1})

-----------------------------------------------------------------------------
(* What is sent for the message in hand *)

Quiet == [open |-> {}, heard |-> {}]
Opens(f, who) == [f EXCEPT !.open = @ \cup {who}]
Closes(f, who) == [f EXCEPT !.open = @ \ {who}, !.heard = @ \cup {who}]
Tells(f, who) == [f EXCEPT !.heard = @ \cup {who}]

Channel(kind) == IF kind = "voice" THEN "voice" ELSE "room"
Planning(kind) == kind \in {"plan", "newplan"}

Goto(pc) == turn' = [turn EXCEPT !.pc = pc]

-----------------------------------------------------------------------------
(* Taking a message *)

\* Guests a message invites join its room, unless its mode is plan or execute
\* (the respec tags count as execute).
Invited(kind, room, named) ==
    IF Planning(kind) \/ kind \in {"execute", "respec", "cancel"} THEN room
    ELSE room \cup named

\* /newplan archives a draft it finds, whatever path the message then takes;
\* when the status cannot be written the draft stays.
Archived(kind) == IF kind = "newplan" THEN Written ELSE {drafts}

Path(kind, room, mention) ==
    IF mention # Nobody THEN "mention"
    ELSE IF kind = "voice" THEN "voice"
    ELSE IF kind \in {"respec", "cancel"} \/ respec.on THEN "respec"
    ELSE IF kind = "context" THEN "context"
    ELSE IF room # {} /\ kind # "execute" THEN "round"
    ELSE "handle"

Take(kind, room, mention, named) ==
    /\ turn.pc = "idle" /\ turn.id < MaxMessages
    /\ LET all == IF mention # Nobody THEN room ELSE Invited(kind, room, named)
           path == Path(kind, all, mention)
       IN  turn' = [pc |-> path, path |-> path, id |-> turn.id + 1, kind |-> kind,
                    room |-> all, mention |-> mention, chosen |-> {}, found |-> FALSE,
                    sure |-> TRUE]
    /\ drafts' \in Archived(kind)
    /\ feed' = Quiet
    /\ UNCHANGED <<guest, convo, shared, updates, busy, compiling, session, respec>>

ContextCommand ==
    /\ turn.pc = "context" /\ Goto("idle")
    /\ feed' = Tells(feed, Orch)
    /\ UNCHANGED <<guest, convo, shared, updates, busy, drafts, compiling, session,
                   respec>>

-----------------------------------------------------------------------------
(* Guests: opening the round, routing, the goroutines *)

\* Mutant: the guests are asked for the first draft too
FirstDraft_shared(found) == FALSE

\* The first draft of a plan is the orchestrator's alone.
FirstDraft(found) == Planning(turn.kind) /\ ~found

OpenRound ==
    /\ turn.pc = "round"
    /\ RecordUserMessage("room")
    /\ \E found \in LatestDraft :
          turn' = [turn EXCEPT !.pc = IF FirstDraft(found) THEN "handle" ELSE "route",
                               !.sure = Sure(found)]
    /\ UNCHANGED <<guest, shared, updates, feed, busy, drafts, compiling, session,
                   respec>>

\* The routing call names any guests and may rewrite the summary; when it
\* fails every guest of the room is dispatched.
Route(chosen, withOrch, rewrites) ==
    /\ turn.pc = "route"
    /\ turn' = [turn EXCEPT !.chosen = chosen,
                  !.pc = IF chosen # {} /\ ~withOrch /\ ~Planning(turn.kind)
                         THEN "wait" ELSE "handle"]
    /\ guest' = [g \in Guests |-> IF g \in chosen THEN "named" ELSE guest[g]]
    /\ shared' = IF rewrites
                 THEN [shared EXCEPT !["room"] = @ \cup History("room") \cup {turn.id}]
                 ELSE shared
    /\ UNCHANGED <<convo, updates, feed, busy, drafts, compiling, session, respec>>

RouteAny ==
    \/ \E chosen \in SUBSET Guests, withOrch, rewrites \in BOOLEAN :
          Route(chosen, withOrch, rewrites)
    \/ Route(turn.room, FALSE, FALSE)

\* LoadPersona fails: the guest is announced and left out.
Missing(g) ==
    /\ guest[g] = "named" /\ guest' = [guest EXCEPT ![g] = "out"]
    /\ feed' = Tells(feed, g)
    /\ UNCHANGED <<turn, convo, shared, updates, busy, drafts, compiling, session,
                   respec>>

Launch(g) ==
    /\ guest[g] = "named" /\ guest' = [guest EXCEPT ![g] = "queued"]
    /\ UNCHANGED <<turn, convo, shared, updates, feed, busy, drafts, compiling, session,
                   respec>>

\* A slot of the semaphore is held until the goroutine is over
Running == {g \in Guests : guest[g] \in {"running", "done"}}

\* The goroutine has a slot: SetTaskActive, then the run, which streams.
Start(g) ==
    /\ guest[g] = "queued" /\ Cardinality(Running) < GuestSlots
    /\ guest' = [guest EXCEPT ![g] = "running"]
    /\ busy' = busy \cup {g}
    /\ feed' = Opens(feed, g)
    /\ UNCHANGED <<turn, convo, shared, updates, drafts, compiling, session, respec>>

\* Mutants: only a run that succeeds resets its task; a failed one never reports
Finish_okOnly(g, ok) ==
    /\ guest[g] = "running"
    /\ guest' = [guest EXCEPT ![g] = IF ok THEN "done" ELSE "out"]
    /\ busy' = IF ok THEN busy \ {g} ELSE busy
    /\ feed' = Closes(feed, g)
    /\ UNCHANGED <<turn, convo, shared, updates, drafts, compiling, session, respec>>

Finish_noDone(g, ok) ==
    /\ guest[g] = "running"
    /\ guest' = [guest EXCEPT ![g] = IF ok THEN "done" ELSE "failed"]
    /\ busy' = busy \ {g}
    /\ feed' = Closes(feed, g)
    /\ UNCHANGED <<turn, convo, shared, updates, drafts, compiling, session, respec>>

\* UpdateTaskState and StreamDone follow every run, failed or not.
Finish(g, ok) ==
    /\ guest[g] = "running"
    /\ guest' = [guest EXCEPT ![g] = IF ok THEN "done" ELSE "out"]
    /\ busy' = busy \ {g}
    /\ feed' = Closes(feed, g)
    /\ UNCHANGED <<turn, convo, shared, updates, drafts, compiling, session, respec>>

\* A plan-edit block in a plan message is saved as a draft of the guest's own.
Edits(edits) ==
    /\ edits => Planning(turn.kind) /\ drafts < MaxDrafts
    /\ drafts' = IF edits THEN drafts + 1 ELSE drafts

Answer(g, edits) ==
    /\ guest[g] = "done" /\ guest' = [guest EXCEPT ![g] = "out"]
    /\ Edits(edits)
    /\ RecordResponse("room", g)
    /\ UNCHANGED <<turn, shared, updates, feed, busy, compiling, session, respec>>

\* Mutant: the round is closed without waiting
FinalizeRound_early ==
    /\ turn.pc = "wait"
    /\ Goto("idle")
    /\ UNCHANGED <<guest, convo, shared, updates, feed, busy, drafts, compiling, session,
                   respec>>

\* finalizeGuestRound: wait, then summarise the round in the background.
FinalizeRound ==
    /\ turn.pc = "wait" /\ \A g \in Guests : guest[g] = "out"
    /\ Goto("idle")
    /\ updates' = IF turn.room = {} THEN updates
                  ELSE updates \cup {[after |-> turn.id,
                                      rests |-> shared["room"] \cup History("room")]}
    /\ UNCHANGED <<guest, convo, shared, feed, busy, drafts, compiling, session, respec>>

\* The summary is written over whatever is there by then; a failed call drops it.
UpdateContext(u, ok) ==
    /\ updates' = updates \ {u}
    /\ shared' = IF ok THEN [shared EXCEPT !["room"] = u.rests] ELSE shared
    /\ UNCHANGED <<turn, guest, convo, feed, busy, drafts, compiling, session, respec>>

-----------------------------------------------------------------------------
(* A mention: one guest, no routing, no orchestrator, no summary *)

MentionStart(ok) ==
    /\ turn.pc = "mention"
    /\ RecordUserMessage(Channel(turn.kind))
    /\ Goto(IF ok THEN "mentioned" ELSE "idle")
    /\ busy' = IF ok THEN busy \cup {turn.mention} ELSE busy
    /\ feed' = IF ok THEN Opens(feed, turn.mention) ELSE Tells(feed, Orch)
    /\ UNCHANGED <<guest, shared, updates, drafts, compiling, session, respec>>

MentionEnd(ok, edits) ==
    /\ turn.pc = "mentioned" /\ Goto("idle")
    /\ busy' = busy \ {turn.mention}
    /\ feed' = Closes(feed, turn.mention)
    /\ edits => ok /\ Edits(TRUE)
    /\ ~edits => UNCHANGED drafts
    /\ IF ok THEN RecordResponse(Channel(turn.kind), turn.mention) ELSE UNCHANGED convo
    /\ UNCHANGED <<guest, shared, updates, compiling, session, respec>>

-----------------------------------------------------------------------------
(* The orchestrator agent: one session for every kind of call *)

\* recordResult: whatever the call was for, its session becomes the session.
Recorded(for) == session' = for

\* Consult starts a session when there is none or the one there is has grown too
\* long, and else continues it, whatever it was started for.
Consulted == session' \in {session, "loop"} \ {"none"}

\* A session that has grown too long is dropped before its successor answers.
Unanswered == session' \in {session, "none"}

-----------------------------------------------------------------------------
(* Chat: one run outside the session *)

LeanStart ==
    /\ turn.pc = "handle" /\ turn.kind = "chat"
    /\ Goto("lean") /\ feed' = Opens(feed, Orch)
    /\ UNCHANGED <<guest, convo, shared, updates, busy, drafts, compiling, session,
                   respec>>

LeanEnd ==
    /\ turn.pc = "lean" /\ Goto("wait")
    /\ feed' = Closes(feed, Orch)
    /\ UNCHANGED <<guest, convo, shared, updates, busy, drafts, compiling, session,
                   respec>>

(* Execute: the run and its compile have modules of their own                *)

\* A click on a preview, or a text without an answer of the agent.  Revise
\* compiles in the background
Execute(revises) ==
    /\ turn.pc = "handle" /\ turn.kind = "execute"
    /\ Goto("wait") /\ feed' = Tells(feed, Orch)
    /\ compiling' = (compiling \/ revises)
    /\ UNCHANGED <<guest, convo, shared, updates, busy, drafts, session, respec>>

\* A compile on the listener: a call of the agent, and SaveCompiled
ExecuteCompiles ==
    /\ turn.pc = "handle" /\ turn.kind = "execute"
    /\ Goto("wait") /\ feed' = Tells(feed, Orch)
    /\ Recorded("compile") /\ drafts' \in Written
    /\ UNCHANGED <<guest, convo, shared, updates, busy, compiling, respec>>

\* routeGateResolution: the resolution goes to the run ...
ResolveGate ==
    /\ turn.pc = "handle" /\ turn.kind = "execute"
    /\ Goto("gate")
    /\ UNCHANGED <<guest, convo, shared, updates, feed, busy, drafts, compiling, session,
                   respec>>

\* ... once its channel has room.  Nothing says that the run takes it, and a run
\* that is over by now leaves no runner to ask: the process dies of it
GateTaken ==
    /\ turn.pc = "gate" /\ Goto("wait")
    /\ feed' = Tells(feed, Orch)
    /\ UNCHANGED <<guest, convo, shared, updates, busy, drafts, compiling, session,
                   respec>>

\* A compile in the background: a call of the agent; the plan is written back with
\* the status it had when it was read, or with none
Recompile(over) ==
    /\ compiling /\ compiling' = ~over
    /\ drafts' \in Written \cup (IF drafts < MaxDrafts THEN {drafts + 1} ELSE {})
    /\ turn' = [turn EXCEPT !.sure = turn.sure /\ drafts' = drafts]
    /\ IF over THEN UNCHANGED session ELSE Recorded("compile")
    /\ UNCHANGED <<guest, convo, shared, updates, feed, busy, respec>>

(* Loop: a consult of the session, once repaired, then the actions *)

LoopUnlisted ==
    /\ turn.pc = "handle" /\ turn.kind = "loop"
    /\ Goto("wait") /\ feed' = Tells(feed, Orch)
    /\ UNCHANGED <<guest, convo, shared, updates, busy, drafts, compiling, session,
                   respec>>

LoopStart ==
    /\ turn.pc = "handle" /\ turn.kind = "loop"
    /\ Goto("consult") /\ feed' = Opens(feed, Orch)
    /\ UNCHANGED <<guest, convo, shared, updates, busy, drafts, compiling, session,
                   respec>>

\* No answer; or an answer that is no JSON, which is repaired or given
\* up on, and the user is told so.
LoopFails(called) ==
    /\ turn.pc = "consult" /\ Goto("wait")
    /\ feed' = Closes(feed, Orch)
    /\ IF called THEN Consulted ELSE Unanswered
    /\ UNCHANGED <<guest, convo, shared, updates, busy, drafts, compiling, respec>>

LoopAnswers(rewrites, replies) ==
    /\ turn.pc = "consult" /\ Goto("wait")
    /\ feed' = Closes(feed, Orch)
    /\ Consulted
    /\ shared' = IF rewrites /\ turn.room # {}
                 THEN [shared EXCEPT !["room"] = @ \cup History("room") \cup {turn.id}]
                 ELSE shared
    /\ IF replies /\ turn.room # {} THEN RecordResponse("room", Orch) ELSE UNCHANGED convo
    /\ UNCHANGED <<guest, updates, busy, drafts, compiling, respec>>

(* Voice: the same consult without routing, guests or summary *)

VoiceStart ==
    /\ turn.pc = "voice"
    /\ RecordUserMessage("voice")
    /\ Goto("voiced") /\ feed' = Opens(feed, Orch)
    /\ UNCHANGED <<guest, shared, updates, busy, drafts, compiling, session, respec>>

VoiceEnd(called, replies) ==
    /\ turn.pc = "voiced" /\ Goto("idle")
    /\ feed' = Closes(feed, Orch)
    /\ IF called THEN Consulted ELSE Unanswered
    /\ IF called /\ replies THEN RecordResponse("voice", Orch) ELSE UNCHANGED convo
    /\ UNCHANGED <<guest, shared, updates, busy, drafts, compiling, respec>>

-----------------------------------------------------------------------------
(* Plan: scout, explorers, synthesis, or one single run when one of them     *)
(* fails; a plan block in the output goes to the store                       *)

\* The stream of a phase is closed; the fallback opens another one.
Closed(fallsBack) ==
    IF fallsBack THEN Opens(Closes(feed, Orch), Orch) ELSE Closes(feed, Orch)

\* Each phase is a fresh run, whose session is recorded when it answers.
PlanCall(answered) == IF answered THEN Recorded("plan") ELSE UNCHANGED session

PlanStart ==
    /\ turn.pc = "handle" /\ Planning(turn.kind)
    /\ Goto("scout") /\ feed' = Opens(feed, Orch)
    /\ UNCHANGED <<guest, convo, shared, updates, busy, drafts, compiling, session,
                   respec>>

\* No answer, one that does not parse, or nothing to explore: the single run
Scout(ok, explores) ==
    /\ turn.pc = "scout"
    /\ feed' = Closed(~(ok /\ explores))
    /\ PlanCall(ok)
    /\ Goto(IF ok /\ explores THEN "explore" ELSE "single")
    /\ UNCHANGED <<guest, convo, shared, updates, busy, drafts, compiling, respec>>

\* The explorers run in parallel, outside the session; a failed one is a finding.
Explore ==
    /\ turn.pc = "explore"
    /\ Goto("synthesis") /\ feed' = Opens(feed, Orch)
    /\ UNCHANGED <<guest, convo, shared, updates, busy, drafts, compiling, session,
                   respec>>

\* A plan block is stored, any other text is the reply.
AfterOutput(block) == IF block THEN "finalize" ELSE "wait"

Synthesize(ok, block) ==
    /\ turn.pc = "synthesis"
    /\ feed' = Closed(~ok)
    /\ PlanCall(ok)
    /\ Goto(IF ok THEN AfterOutput(block) ELSE "single")
    /\ UNCHANGED <<guest, convo, shared, updates, busy, drafts, compiling, respec>>

ConsultPlan(ok, block) ==
    /\ turn.pc = "single"
    /\ feed' = Closes(feed, Orch)
    /\ PlanCall(ok)
    /\ Goto(AfterOutput(ok /\ block))
    /\ UNCHANGED <<guest, convo, shared, updates, busy, drafts, compiling, respec>>

\* finalizePlan looks for the latest draft first and writes afterwards.
FinalizeLook ==
    /\ turn.pc = "finalize"
    /\ \E found \in LatestDraft :
          turn' = [turn EXCEPT !.pc = "write", !.found = found, !.sure = Sure(found)]
    /\ UNCHANGED <<guest, convo, shared, updates, feed, busy, drafts, compiling, session,
                   respec>>

\* Save, or Update of the draft that was found; an error is logged.
FinalizeWrite ==
    /\ turn.pc = "write" /\ Goto("wait")
    /\ drafts' \in IF turn.found THEN Written ELSE {drafts, drafts + 1}
    /\ UNCHANGED <<guest, convo, shared, updates, feed, busy, compiling, session, respec>>

-----------------------------------------------------------------------------
(* Respec: a dialogue that takes over the room until it ends *)

RespecOff == [on |-> FALSE, resumable |-> FALSE]

\* Cancelled; or refused: one is in progress, or the agent's name is no file
\* name; or the session has no id to continue.
RespecReply ==
    /\ turn.pc = "respec" /\ Goto("idle")
    /\ \/ turn.kind = "cancel" /\ respec' = RespecOff
       \/ turn.kind = "respec" /\ UNCHANGED respec
       \/ turn.kind \notin {"respec", "cancel"} /\ ~respec.resumable /\ respec' = RespecOff
    /\ feed' = Tells(feed, Orch)
    /\ UNCHANGED <<guest, convo, shared, updates, busy, drafts, compiling, session>>

RespecStart ==
    /\ turn.pc = "respec"
    /\ \/ turn.kind = "respec" /\ ~respec.on
       \/ turn.kind \notin {"respec", "cancel"} /\ respec.resumable
    /\ respec' = [respec EXCEPT !.on = TRUE]
    /\ Goto("respeccing") /\ feed' = Opens(feed, Orch)
    /\ UNCHANGED <<guest, convo, shared, updates, busy, drafts, compiling, session>>

\* A failed run ends the respec, and its stream is never closed.
RespecFails ==
    /\ turn.pc = "respeccing" /\ Goto("idle")
    /\ respec' = RespecOff
    /\ feed' = Tells(feed, Orch)
    /\ UNCHANGED <<guest, convo, shared, updates, busy, drafts, compiling, session>>

\* The answer ends the respec only when it holds actions as well.
RespecAnswers(id, actions, complete) ==
    /\ turn.pc = "respeccing" /\ Goto("idle")
    /\ Recorded(IF id THEN "respec" ELSE "none")
    /\ respec' = IF actions /\ complete THEN RespecOff ELSE [on |-> TRUE, resumable |-> id]
    /\ feed' = Closes(feed, Orch)
    /\ UNCHANGED <<guest, convo, shared, updates, busy, drafts, compiling>>

-----------------------------------------------------------------------------
Init ==
    /\ turn = [pc |-> "idle", path |-> "handle", id |-> 0, kind |-> "chat", room |-> {},
               mention |-> Nobody, chosen |-> {}, found |-> FALSE, sure |-> TRUE]
    /\ guest = [g \in Guests |-> "out"]
    /\ convo = [ch \in Channels |-> [current |-> NoRound, history |-> <<>>]]
    /\ shared = [ch \in Channels |-> {}]
    /\ updates = {}
    /\ feed = Quiet
    /\ busy = {}
    /\ drafts = 0                   \* older plans may be there, archived
    /\ compiling = FALSE
    /\ session = "none"
    /\ respec = RespecOff

\* A mention counts when it is of a guest in the room.
Arrive == \E kind \in Kinds, room, named \in SUBSET Guests :
             \E mention \in room \cup {Nobody} : Take(kind, room, mention, named)

GuestStep(g) ==
    \/ Missing(g) \/ Launch(g) \/ Start(g)
    \/ \E ok \in BOOLEAN : Finish(g, ok)
    \/ \E edits \in BOOLEAN : Answer(g, edits)

ExecuteStep ==
    ExecuteCompiles \/ ResolveGate \/ \E revises \in BOOLEAN : Execute(revises)

MentionStep ==
    \/ \E ok \in BOOLEAN : MentionStart(ok)
    \/ \E ok, edits \in BOOLEAN : MentionEnd(ok, edits)

LoopStep ==
    \/ LoopUnlisted \/ LoopStart
    \/ \E called \in BOOLEAN : LoopFails(called)
    \/ \E rewrites, replies \in BOOLEAN : LoopAnswers(rewrites, replies)

VoiceStep == VoiceStart \/ \E called, replies \in BOOLEAN : VoiceEnd(called, replies)

PlanStep ==
    \/ PlanStart \/ Explore \/ FinalizeLook \/ FinalizeWrite
    \/ \E ok, explores \in BOOLEAN : Scout(ok, explores)
    \/ \E ok, block \in BOOLEAN : Synthesize(ok, block)
    \/ \E ok, block \in BOOLEAN : ConsultPlan(ok, block)

RespecStep ==
    \/ RespecReply \/ RespecStart \/ RespecFails
    \/ \E id, actions, complete \in BOOLEAN : RespecAnswers(id, actions, complete)

Listen ==
    \/ ContextCommand \/ OpenRound \/ RouteAny \/ MentionStep \/ VoiceStep
    \/ LeanStart \/ LeanEnd \/ ExecuteStep
    \/ LoopStep \/ PlanStep \/ RespecStep \/ FinalizeRound

Summarise == \E u \in updates, ok \in BOOLEAN : UpdateContext(u, ok)

Background == Summarise \/ \E over \in BOOLEAN : Recompile(over)

Next == Arrive \/ Listen \/ GateTaken \/ Background \/ \E g \in Guests : GuestStep(g)

\* Goroutines are scheduled and every agent run ends: the driver kills a run
\* that is silent for too long (claude/driver.go).  A run need not take a gate
\* resolution: GateTaken is not fair.
Fairness == WF_vars(Listen) /\ \A g \in Guests : WF_vars(GuestStep(g))

Spec == Init /\ [][Next]_vars /\ Fairness

-----------------------------------------------------------------------------
(* Properties *)

Rounds == UNION {{convo[ch].current} \cup
                 {convo[ch].history[i] : i \in DOMAIN convo[ch].history} : ch \in Channels}

\* An answer is recorded in the round of the message it answers, however long a
\* guest takes (every path of HandleUserMessage waits in finalizeGuestRound).
AnswersInOwnRound == \A r \in Rounds : \A a \in r.answers : a.to = r.msg

\* Before the next message is taken, every guest the router chose has been heard
\* or reported missing, every stream is closed, but for that of a respec, and
\* task-state.yaml calls no guest active any more: a failed run resets it like any
\* other (finalizeGuestRound).
TurnIsClosed ==
    turn.pc = "idle" =>
        /\ turn.chosen \subseteq feed.heard
        /\ turn.path # "respec" => feed.open = {}
        /\ busy = {}

\* The orchestrator starts a plan of its own only when the project has no open
\* draft, unless a read of the drafts has failed while the message is handled or a
\* compile in the background has written one: it looks before it writes, and no
\* guest drafts in between.
OneDraftOfOwn ==
    [][(turn.pc = "write" /\ turn'.pc = "wait" /\ drafts' > drafts)
         => drafts = 0 \/ ~turn.sure]_vars

\* Every message is handled to its end, so the listener comes back for the next,
\* unless it hands a gate resolution to a run that never takes it.
EveryMessageHandled == []<>(turn.pc = "idle") \/ <>[](turn.pc = "gate")

-----------------------------------------------------------------------------
(* The strengthening that makes the safety properties inductive. *)

Handling == {"handle", "wait", "gate", "lean", "consult", "scout", "explore", "synthesis",
             "single", "finalize", "write"}
PlanSteps == {"scout", "explore", "synthesis", "single", "finalize", "write"}
Steps == {"idle", "mention", "mentioned", "voice", "voiced", "respec", "respeccing",
          "context", "round", "route"} \cup Handling
Paths == {"mention", "voice", "respec", "context", "round", "handle"}

Turn == [pc : Steps, path : Paths, id : 0..MaxMessages, kind : AllKinds,
         room : SUBSET Guests, mention : Guests \cup {Nobody},
         chosen : SUBSET Guests, found : BOOLEAN, sure : BOOLEAN]
Round == [msg : 0..MaxMessages, answers : SUBSET [by : Speakers, to : Ids]]
PastRound == {r \in Round : r.msg # 0}

\* Every variable has its type, and the bounds of the code are kept.
TypeOK ==
    /\ turn \in Turn
    /\ turn.pc # "idle" => turn.id \in Ids
    /\ guest \in [Guests -> {"out", "named", "queued", "running", "done"}]
    /\ Cardinality(Running) <= GuestSlots
    /\ convo \in [Channels -> [current : Round, history : Seq(PastRound)]]
    /\ \A ch \in Channels : Len(convo[ch].history) <= HistoryCap
    /\ shared \in [Channels -> SUBSET Ids]
    /\ updates \subseteq [after : Ids, rests : SUBSET Ids]
    /\ feed \in [open : SUBSET Speakers, heard : SUBSET Speakers]
    /\ busy \subseteq Guests
    /\ drafts \in Nat /\ compiling \in BOOLEAN
    /\ session \in {"none", "loop", "plan", "compile", "respec"}
    /\ respec \in [on : BOOLEAN, resumable : BOOLEAN]

\* A message is handled on one path, and its kind decides the steps of that path
OnPath ==
    /\ turn.path = "mention" => turn.pc \in {"idle", "mention", "mentioned"}
    /\ turn.path = "voice" => turn.pc \in {"idle", "voice", "voiced"}
    /\ turn.path = "respec" => turn.pc \in {"idle", "respec", "respeccing"}
    /\ turn.path = "context" => turn.pc \in {"idle", "context"}
    /\ turn.path = "round" => turn.pc \in {"idle", "round", "route"} \cup Handling
    /\ turn.path = "handle" => turn.pc \in {"idle"} \cup Handling
    /\ turn.path = "handle" => turn.room = {} \/ turn.kind = "execute" \/ turn.pc = "idle"
    /\ turn.path = "mention" => turn.mention \in Guests
    /\ turn.pc = "consult" => turn.kind = "loop"
    /\ turn.pc \in PlanSteps => Planning(turn.kind)

GuestsOut == \A g \in Guests : guest[g] = "out"
InRound == turn.path = "round" /\ turn.pc \in Handling

\* Guests are out unless the handling of their round is under way, and whoever may
\* still answer finds the round of the message in hand open
RoundOpen ==
    /\ GuestsOut \/ InRound
    /\ InRound \/ turn.pc = "route" => convo["room"].current.msg = turn.id
    /\ turn.pc = "mentioned" => convo[Channel(turn.kind)].current.msg = turn.id
    /\ turn.pc = "voiced" => convo["voice"].current.msg = turn.id

Streaming == {"lean", "consult", "voiced", "scout", "synthesis", "single"}
Going == {g \in Guests : guest[g] = "running"}
Mentioned == IF turn.pc = "mentioned" THEN {turn.mention} ELSE {}
OrchStreams == IF turn.pc \in Streaming THEN {Orch} ELSE {}

\* A guest the router chose is on its way or has been heard; streams are open,
\* and tasks active, for those who run
Followed ==
    /\ \A g \in turn.chosen :
          guest[g] \in {"named", "queued", "running"} \/ g \in feed.heard
    /\ turn.path # "respec" => feed.open = Going \cup Mentioned \cup OrchStreams
    /\ busy = Going \cup Mentioned

\* Until the plan is written, guests take part only when there is a draft to work on
DraftFirst ==
    turn.sure =>
        /\ Planning(turn.kind) /\ turn.pc # "wait" /\ (turn.pc = "route" \/ ~GuestsOut)
              => drafts # 0
        /\ turn.pc = "write" /\ ~turn.found => drafts = 0

Conducted == TypeOK /\ OnPath /\ RoundOpen /\ Followed /\ DraftFirst /\ AnswersInOwnRound

=============================================================================
