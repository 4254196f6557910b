----------------------------- MODULE MCSharedFiles -----------------------------
(* The files that guests, the agents of steps and the user share, in one      *)
(* instance for TLC: those of a feature (FeatureFiles) and a file of story/   *)
(* with the proposals for it (StorySpace).  Neither reads what the other      *)
(* writes, so each is explored with the other at rest.                        *)
EXTENDS FeatureFiles

CONSTANTS Guests, Requests, Opening, Answers, Saved
VARIABLES file, editedBy, guest, status, request, applied

ASSUME SharedConstants ==
    /\ "none" \notin Range(Opening) \cup Guests
    /\ \A answer \in Answers : answer \in Seq(Range(answer))

Stories == INSTANCE StorySpace

StoryVars == <<file, editedBy, guest, status, request, applied>>

FeatureAtRest == bound = [attempts |-> 0, events |-> 0] /\ pc = [r \in Runs |-> "idle"]
StoryAtRest == /\ \A g \in Guests : guest[g].at = "idle"
               /\ \A u \in Requests : request[u].at = "idle"

MCInit == Init /\ Stories!Init
MCNext == \/ StoryAtRest /\ Next /\ UNCHANGED StoryVars
          \/ FeatureAtRest /\ Stories!Next /\ UNCHANGED vars
MCSpec == MCInit /\ [][MCNext]_<<vars, StoryVars>>

\* While a key of a proposal is pending, none of its edits is written (StorySpace,
\* ProposalStore)
PendingNotApplied == Stories!PendingNotApplied

\* What an edit does not name stays, in its order (StorySpace, Apply)
OthersUnchanged == Stories!OthersUnchanged

-------------------------------------------------------------------------------
\* Two guests of a round
MCRuns == {"r1", "r2"}
MCAgentOf == [r \in MCRuns |-> IF r = "r2" THEN "walt" ELSE "mia"]
MCReports == {"r1", "r2"}

\* StorySpace's None: written Stories!None, a constant of the instance would be
\* defined by the instance
NoId == "none"

Replace(s, anchor) ==
    [section |-> s, after |-> NoId, anchor |-> anchor, path |-> TRUE]
Insertion(s, anchor, path) ==
    [section |-> NoId, after |-> s, anchor |-> anchor, path |-> path]

MCOpening == <<"a", "b">>
\* A replacement, with or without the anchor, and one insertion that shares its key
\* or follows another section; an append; a path out of story/; an edit with both
MCAnswers ==
    {<<Replace("a", "a"), Insertion("a", "c", TRUE)>>,
     <<Replace("b", NoId), Insertion("a", "b", TRUE)>>,
     <<Insertion(NoId, "c", TRUE), Insertion("b", "c", FALSE)>>,
     <<[Replace("a", "a") EXCEPT !.after = "b"], Replace("c", "c")>>}
MCSaved == {Replace("a", "a"), Replace("b", NoId)}
===============================================================================
