------------------------------- MODULE VoiceRoom -------------------------------
(***************************************************************************)
(* The voice channel: the floor of the room and the three kinds of          *)
(* goroutine that move it (internal/channel/voice/adapter.go, floor.go,     *)
(* fastllm.go, commands.go).  What is said, and the sockets it goes         *)
(* through, are left out.                                                   *)
(*                                                                         *)
(* The speech-to-text loop takes one transcript after another; every        *)
(* committed turn starts a fast-model request of its own; and the           *)
(* orchestrator streams text into Send.  FloorController.State and          *)
(* FloorController.Transition lock the floor one call at a time, so what a  *)
(* goroutine saw of the floor may be over when it acts on it.               *)
(***************************************************************************)
EXTENDS Naturals, Sequences, SequencesExt

CONSTANTS
    HasFastLLM,     \* an Anthropic key is configured
    HistoryCap,     \* 2 * maxHistoryTurns, two or more
    QueueCap,       \* 64
    MaxTurns, MaxDeltas     \* bounds: turns spoken, deltas sent

Turns == 1..MaxTurns

VARIABLES
    floor,      \* FloorController.state
    stt,        \* where sttLoop is in handleTranscript
    turn,       \* the last turn committed
    llm,        \* Adapter.llmCancel: the request it would cancel, 0 for none
    cancelled,  \* the requests whose context has been cancelled
    req,        \* where handleFastLLM of a turn is
    saw,        \* what a goroutine last saw of the floor
    history,    \* FastLLM.history
    asked,      \* the messages a request was sent with
    queue,      \* messages in Adapter.incoming
    text,       \* where the orchestrator's stream is in Send
    deltas      \* deltas it has sent

vars == <<floor, stt, turn, llm, cancelled, req, saw, history, asked, queue,
          text, deltas>>

Floor == {"Idle", "UserSpeaking", "CommitPending", "OrchestratorSpeaking",
          "BargeInAbort"}

sttVars  == <<stt, turn>>
llmVars  == <<llm, cancelled, req, history, asked>>
textVars == <<text, deltas>>

-------------------------------------------------------------------------------
\* Mutant: the abort has nowhere to go
Allowed_noRecovery ==
    {<<"Idle", "UserSpeaking">>, <<"Idle", "OrchestratorSpeaking">>,
     <<"UserSpeaking", "CommitPending">>, <<"UserSpeaking", "Idle">>,
     <<"CommitPending", "OrchestratorSpeaking">>,
     <<"OrchestratorSpeaking", "Idle">>, <<"OrchestratorSpeaking", "BargeInAbort">>,
     <<"BargeInAbort", "Idle">>}

\* orchestratorTransitions
Allowed ==
    {<<"Idle", "UserSpeaking">>, <<"Idle", "OrchestratorSpeaking">>,
     <<"UserSpeaking", "CommitPending">>, <<"UserSpeaking", "Idle">>,
     <<"CommitPending", "OrchestratorSpeaking">>,
     <<"OrchestratorSpeaking", "Idle">>, <<"OrchestratorSpeaking", "BargeInAbort">>,
     <<"BargeInAbort", "UserSpeaking">>}

\* FloorController.Transition: refused, with the floor as it was, unless the
\* table has it
Moves(to) == <<floor, to>> \in Allowed
Transition(to) == floor' = IF Moves(to) THEN to ELSE floor

\* A response may take the floor when the user has finished, or nobody speaks
MaySpeak(state) == state \in {"CommitPending", "Idle"}

Sees(p) == saw' = [saw EXCEPT ![p] = floor]

User(r)  == [role |-> "user", turn |-> r]
Reply(r) == [role |-> "assistant", turn |-> r]

\* Mutant: a full history loses its newest entries
Remembered_newest(h, m) ==
    LET longer == Append(h, m) IN
    IF Len(longer) > HistoryCap THEN SubSeq(longer, 1, Len(longer) - 2) ELSE longer

\* StreamChat and readSSE append to the history and cut its two oldest entries
Remembered(h, m) ==
    LET longer == Append(h, m) IN
    IF Len(longer) > HistoryCap THEN SubSeq(longer, 3, Len(longer)) ELSE longer

\* The non-blocking send into Adapter.incoming
Enqueue == queue' = IF queue < QueueCap THEN queue + 1 ELSE queue

-------------------------------------------------------------------------------
Init ==
    /\ floor = "Idle" /\ stt = "idle" /\ turn = 0
    /\ llm = 0 /\ cancelled = {} /\ req = [r \in Turns |-> "none"]
    /\ saw = [p \in Turns \cup {0} |-> "Idle"]
    /\ history = <<>> /\ asked = [r \in Turns |-> <<>>]
    /\ queue = 0 /\ text = "quiet" /\ deltas = 0

\* A partial transcript is only logged.  One of low confidence gives the floor
\* back, if the user has it (by FloorOpen nobody ever has)
Doubtful ==
    /\ stt = "idle"
    /\ IF floor = "UserSpeaking" THEN Transition("Idle") ELSE UNCHANGED floor
    /\ UNCHANGED <<sttVars, llmVars, saw, queue, textVars>>

\* cancelLLM: the request that last stored its cancel function
Superseded == cancelled \cup ({llm} \ {0})

\* A final transcript: handleTranscript begins with cancelLLM
Hear ==
    /\ stt = "idle" /\ turn < MaxTurns
    /\ turn' = turn + 1 /\ stt' = "look"
    /\ cancelled' = Superseded /\ llm' = 0
    /\ UNCHANGED <<floor, req, saw, history, asked, queue, textVars>>

Goes(to) == stt' = to /\ UNCHANGED turn

\* Does somebody speak, so that this is a barge-in?
Look ==
    /\ stt = "look"
    /\ Goes(IF floor = "OrchestratorSpeaking" THEN "barge in" ELSE "onset?")
    /\ UNCHANGED <<floor, llmVars, saw, queue, textVars>>

\* BargeIn: nothing to do, or refused, when the speaker has just finished
BargeIn ==
    /\ stt = "barge in"
    /\ Transition("BargeInAbort")
    /\ Goes(IF Moves("BargeInAbort") THEN "cut" ELSE "onset?")
    /\ UNCHANGED <<llmVars, saw, queue, textVars>>

\* StreamingTTS.Cancel dials a new socket and the sentence buffer is reset
Cut ==
    /\ stt = "cut"
    /\ Goes("recover")
    /\ UNCHANGED <<floor, llmVars, saw, queue, textVars>>

Recover ==
    /\ stt = "recover"
    /\ Transition("UserSpeaking") /\ Goes("onset?")
    /\ UNCHANGED <<llmVars, saw, queue, textVars>>

\* The turn begins, if the room is idle ...
Onset ==
    /\ stt = "onset?"
    /\ Goes(IF floor = "Idle" THEN "onset" ELSE "commit")
    /\ UNCHANGED <<floor, llmVars, saw, queue, textVars>>

TakeFloor ==
    /\ stt = "onset"
    /\ Transition("UserSpeaking") /\ Goes("commit")
    /\ UNCHANGED <<llmVars, saw, queue, textVars>>

\* ... and is over
Commit ==
    /\ stt = "commit"
    /\ Transition("CommitPending") /\ Goes("hand over")
    /\ UNCHANGED <<llmVars, saw, queue, textVars>>

\* The turn goes to the fast model, or to the orchestrator without one
HandOver ==
    /\ stt = "hand over"
    /\ Goes("idle")
    /\ IF HasFastLLM
       THEN req' = [req EXCEPT ![turn] = "spawned"] /\ UNCHANGED queue
       ELSE Enqueue /\ UNCHANGED req
    /\ UNCHANGED <<floor, llm, cancelled, history, asked, saw, textVars>>

-------------------------------------------------------------------------------
\* handleFastLLM of turn r

At(r, from) == req[r] = from
To(r, to) == req' = [req EXCEPT ![r] = to]

\* It stores its cancel function, over that of an older request
Register(r) ==
    /\ At(r, "spawned") /\ To(r, "registered")
    /\ llm' = r
    /\ UNCHANGED <<floor, cancelled, history, asked, saw, queue>>
    /\ UNCHANGED <<sttVars, textVars>>

\* StreamChat adds the question and copies the history
Ask(r) ==
    LET messages == Remembered(history, User(r)) IN
    /\ At(r, "registered") /\ To(r, "asked")
    /\ history' = messages /\ asked' = [asked EXCEPT ![r] = messages]
    /\ UNCHANGED <<floor, llm, cancelled, saw, queue, sttVars, textVars>>

\* The request fails, which a cancelled one does too: the turn goes to the
\* orchestrator (fallbackToOrchestrator)
Refused(r) ==
    /\ At(r, "asked") /\ To(r, "over")
    /\ Enqueue
    /\ UNCHANGED <<floor, llm, cancelled, history, asked, saw, sttVars, textVars>>

Respond(r) ==
    /\ At(r, "asked") /\ r \notin cancelled /\ To(r, "streaming")
    /\ UNCHANGED <<floor, llm, cancelled, history, asked, saw, queue>>
    /\ UNCHANGED <<sttVars, textVars>>

\* A tool call: delegate_task is a message to the agent
Delegate(r) ==
    /\ At(r, "streaming") /\ r \notin cancelled /\ queue = 0
    /\ Enqueue
    /\ UNCHANGED <<floor, llmVars, saw, sttVars, textVars>>

\* The first words: handleFastLLM looks at the floor ...
FirstDelta(r) ==
    /\ At(r, "streaming") /\ r \notin cancelled
    /\ To(r, "first") /\ Sees(r)
    /\ UNCHANGED <<floor, llm, cancelled, history, asked, queue>>
    /\ UNCHANGED <<sttVars, textVars>>

\* ... takes it if it was free, and speaks whether or not it got it
Speak(r) ==
    /\ At(r, "first") /\ To(r, "speaking")
    /\ IF MaySpeak(saw[r]) THEN Transition("OrchestratorSpeaking") ELSE UNCHANGED floor
    /\ UNCHANGED <<llm, cancelled, history, asked, saw, queue>>
    /\ UNCHANGED <<sttVars, textVars>>

\* readSSE reads to the end of the answer, ahead of the loop that speaks it
Answered(r) ==
    /\ At(r, "speaking") /\ To(r, "answered")
    /\ history' = Remembered(history, Reply(r))
    /\ UNCHANGED <<floor, llm, cancelled, asked, saw, queue, sttVars, textVars>>

\* The Done event: the buffer is flushed and the floor looked at
Done(r) ==
    /\ At(r, "answered") /\ r \notin cancelled
    /\ To(r, "done") /\ Sees(r)
    /\ UNCHANGED <<floor, llm, cancelled, history, asked, queue>>
    /\ UNCHANGED <<sttVars, textVars>>

Release(r) ==
    /\ At(r, "done") /\ To(r, "over")
    /\ IF saw[r] = "OrchestratorSpeaking" THEN Transition("Idle") ELSE UNCHANGED floor
    /\ UNCHANGED <<llm, cancelled, history, asked, saw, queue>>
    /\ UNCHANGED <<sttVars, textVars>>

\* The stream ends without a word, or breaks off before the Done event; the
\* floor stays as it is
Break(r) ==
    /\ req[r] \in {"streaming", "speaking"} /\ To(r, "over")
    /\ UNCHANGED <<floor, llm, cancelled, history, asked, saw, queue>>
    /\ UNCHANGED <<sttVars, textVars>>

\* The loop, or the reader, sees that the context is cancelled
Stop(r) ==
    /\ req[r] \in {"streaming", "speaking", "answered"} /\ r \in cancelled
    /\ To(r, "over")
    /\ UNCHANGED <<floor, llm, cancelled, history, asked, saw, queue>>
    /\ UNCHANGED <<sttVars, textVars>>

-------------------------------------------------------------------------------
\* Send of a stream of the orchestrator or of a guest

\* handleStreamDelta looks at the floor
Delta ==
    /\ text \in {"quiet", "open"} /\ deltas < MaxDeltas
    /\ text' = "delta" /\ deltas' = deltas + 1 /\ Sees(0)
    /\ UNCHANGED <<floor, llmVars, queue, sttVars>>

\* and takes it, if it was free; a delta is dropped
\* during an abort, or when the floor was lost meanwhile
SpeakText ==
    /\ text = "delta" /\ text' = "open"
    /\ IF MaySpeak(saw[0])
       THEN Transition("OrchestratorSpeaking") ELSE UNCHANGED floor
    /\ UNCHANGED <<llmVars, saw, queue, deltas, sttVars>>

\* handleStreamDone flushes and gives the floor back, whoever has it by now
TextDone ==
    /\ text = "open"
    /\ text' = "done" /\ Sees(0)
    /\ UNCHANGED <<floor, llmVars, queue, deltas, sttVars>>

ReleaseText ==
    /\ text = "done" /\ text' = "quiet"
    /\ IF saw[0] = "OrchestratorSpeaking" THEN Transition("Idle") ELSE UNCHANGED floor
    /\ UNCHANGED <<llmVars, saw, queue, deltas, sttVars>>

-------------------------------------------------------------------------------
\* Manager.fanIn takes a message
Take ==
    /\ queue > 0 /\ queue' = queue - 1
    /\ UNCHANGED <<floor, llmVars, saw, sttVars, textVars>>

-------------------------------------------------------------------------------
Listens == Look \/ BargeIn \/ Cut \/ Recover \/ Onset \/ TakeFloor \/ Commit \/ HandOver

Requests(r) ==
    \/ Register(r) \/ Ask(r) \/ Refused(r) \/ Respond(r) \/ Delegate(r)
    \/ FirstDelta(r) \/ Speak(r) \/ Answered(r) \/ Done(r) \/ Release(r)
    \/ Break(r) \/ Stop(r)

Next ==
    \/ Doubtful \/ Hear \/ Listens
    \/ \E r \in Turns : Requests(r)
    \/ Delta \/ SpeakText \/ TextDone \/ ReleaseText
    \/ Take

Spec == Init /\ [][Next]_vars

-------------------------------------------------------------------------------
\* Whenever the transcription loop waits, the floor is in a state from which a
\* response can be spoken: no turn, barge-in or lost race leaves it with the
\* user or in the abort, where text is dropped or spoken over the user
\* (handleTranscript, BargeIn, against Send and the requests)
FloorOpen == stt = "idle" => floor \notin {"UserSpeaking", "BargeInAbort"}

\* What a request sends to the model ends with its own question, and no answer
\* stands before the question it answers, however requests overlap and the
\* history is cut (StreamChat, readSSE)
QuestionsLast ==
    /\ \A r \in Turns : asked[r] # <<>> => Last(asked[r]) = User(r)
    /\ \A i, j \in DOMAIN history :
        history[i] = Reply(history[j].turn) /\ history[j].role = "user" => j < i

\* A new turn leaves no older request running (adapter.go: "Cancel any in-flight
\* FastLLM request (barge-in or new turn)").  The code does not keep this: a
\* request that has not stored its cancel function is missed
NewTurnCancels ==
    stt = "look" => \A r \in Turns :
        r < turn /\ req[r] # "none" => r \in cancelled \/ req[r] = "over"

\* The model is never sent a conversation that begins with an answer.  The code
\* does not keep this: one unanswered question shifts what the cut removes
BeginsWithUser == \A r \in Turns : asked[r] # <<>> => asked[r][1].role = "user"
-------------------------------------------------------------------------------
(* The strengthening that makes FloorOpen and QuestionsLast inductive. *)

Entry == [role : {"user", "assistant"}, turn : Turns]

\* Every variable has its type.
TypeOK ==
    /\ floor \in Floor /\ turn \in 0..MaxTurns
    /\ stt \in {"idle", "look", "barge in", "cut", "recover", "onset?", "onset",
                "commit", "hand over"}
    /\ llm \in {0} \cup Turns /\ cancelled \subseteq Turns
    /\ req \in [Turns -> {"none", "spawned", "registered", "asked", "streaming",
                          "first", "speaking", "answered", "done", "over"}]
    /\ saw \in [Turns \cup {0} -> Floor]
    /\ history \in Seq(Entry) /\ asked \in [Turns -> Seq(Entry)]
    /\ queue \in 0..QueueCap
    /\ text \in {"quiet", "open", "delta", "done"} /\ deltas \in 0..MaxDeltas

\* Only the transcription loop gives the user the floor or aborts the speaker,
\* and it undoes both before it waits again
Held ==
    /\ floor = "BargeInAbort" => stt \in {"cut", "recover"}
    /\ floor = "UserSpeaking" => stt \in {"onset?", "commit"}

\* A turn has a request once the loop has handed it over
HandedOver ==
    /\ stt # "idle" => turn \in Turns
    /\ \A r \in Turns : req[r] # "none" => r < turn \/ (r = turn /\ stt = "idle")

\* The answer in the history is that of a request that has been answered
RepliesAnswered ==
    \A i \in DOMAIN history :
        history[i].role = "assistant" =>
            req[history[i].turn] \in {"answered", "done", "over"}

Ordered == HandedOver /\ RepliesAnswered /\ QuestionsLast
===============================================================================
