------------------------------ MODULE MCChannels ------------------------------
(* The channels in one instance for TLC: Prism and Dispatch behind the        *)
(* manager (PrismChannel) and the voice room (VoiceRoom).  Each has its own   *)
(* adapter and goroutines, so each is explored with the other at rest.        *)
EXTENDS PrismChannel

CONSTANTS HasFastLLM, HistoryCap, MaxTurns, MaxDeltas
VARIABLES floor, stt, turn, llm, cancelled, req, saw, history, asked, queue, text, deltas

ASSUME VoiceConstants ==
    /\ HasFastLLM \in BOOLEAN
    /\ HistoryCap \in Nat \ {0, 1}
    /\ MaxTurns \in Nat /\ MaxDeltas \in Nat

Voice == INSTANCE VoiceRoom

VoiceVars == <<floor, stt, turn, llm, cancelled, req, saw, history, asked, queue, text, deltas>>

MCInit == Init /\ Voice!Init
MCNext == \/ Voice!Init /\ Next /\ UNCHANGED VoiceVars
          \/ Init /\ Voice!Next /\ UNCHANGED vars
\* At Init nothing that Fairness is about can happen
MCSpec == MCInit /\ [][MCNext]_<<vars, VoiceVars>> /\ Fairness

\* Whenever the transcription loop waits, a response can take the floor (VoiceRoom,
\* handleTranscript)
FloorOpen == Voice!FloorOpen

\* What is sent to the fast model ends with the request's own question, and no answer
\* stands before its question (VoiceRoom, StreamChat)
QuestionsLast == Voice!QuestionsLast

\* The Dispatch channel is configured before Prism
DispatchFirst == <<"dispatch", "prism">>
===============================================================================
