------------------------------- MODULE StorySpace -------------------------------
(***************************************************************************)
(* One file of story/ and the proposals for it: StoryStore (storystore.go,  *)
(* storyvalidation.go), ProposalStore (proposalstore.go), the story edits   *)
(* of writer guests (storyedit.go, guestdispatch.go, handleGuestMention)    *)
(* and the user's requests to accept, reject and save                       *)
(* (HandleStoryAccept, HandleStoryReject, HandleStorySave).                 *)
(*                                                                         *)
(* The file is a sequence of pieces of text, some of which begin with an    *)
(* anchor <!-- id: x -->; a section is an anchored piece and what follows   *)
(* up to the next anchor.  A text stands for its hash.                      *)
(***************************************************************************)
EXTENDS Integers, Sequences, FiniteSets, SequencesExt, FiniteSetsExt, Functions

CONSTANTS
    Guests,         \* runs of writer guests, none of them "none"
    Requests,       \* requests of the user to accept or save
    Opening,        \* the ids of the sections of the file at the start, nor of these
    Answers,        \* what a guest may answer: sequences of edit shapes
    Saved           \* shapes of the edits the user saves

VARIABLES
    file,           \* the pieces: [anchor, text]
    editedBy,       \* frontmatter: the last editor of a section id
    guest,          \* per guest: [at, seen, edits, valid]
    status,         \* the staged proposal of a guest: its key's status
    request,        \* per request: [at, edit, by, out]
    applied         \* history: texts that were written to the file

vars == <<file, editedBy, guest, status, request, applied>>

None == "none"
Human == "human"

-------------------------------------------------------------------------------
\* parseSections and reassemble

Anchors(f) == {i \in DOMAIN f : f[i].anchor # None}

\* What stands before the first anchor is in no section
Parsed(f) ==
    LET starts == SetToSortSeq(Anchors(f), <)
        End(k) == IF k = Len(starts) THEN Len(f) ELSE starts[k + 1] - 1
    IN [k \in DOMAIN starts |-> SubSeq(f, starts[k], End(k))]
Id(section) == section[1].anchor

\* The first section of an id; 0 without one
Find(f, id) ==
    LET ks == {k \in DOMAIN Parsed(f) : Id(Parsed(f)[k]) = id}
    IN IF ks = {} THEN 0 ELSE Min(ks)

\* ReadContext: the rev of every section; the last of two with one id counts
Revs(f) ==
    [id \in {f[i].anchor : i \in Anchors(f)} |->
        Last(SelectSeq(Parsed(f), LAMBDA section : Id(section) = id))]

\* CheckRevision, which looks at neither rev nor path of an insertion
Fresh(f, edit) ==
    \/ edit.section = None
    \/ /\ edit.path /\ Find(f, edit.section) # 0
       /\ edit.rev \in {<<>>, Parsed(f)[Find(f, edit.section)]}

\* Apply
Piece(edit) == [anchor |-> edit.anchor, text |-> edit.text]
Refused(f, edit) ==
    \/ ~edit.path
    \/ edit.section # None /\ edit.after # None
    \/ edit.section # None /\ Find(f, edit.section) = 0
    \/ edit.section = None /\ edit.after # None /\ Find(f, edit.after) = 0

\* Mutant: the new section takes the place of the next one
Inserted_over(sections, k, section) ==
    Append(SubSeq(sections, 1, k), section) \o SubSeq(sections, k + 2, Len(sections))

Inserted(sections, k, section) ==
    Append(SubSeq(sections, 1, k), section) \o SubSeq(sections, k + 1, Len(sections))

Result(f, edit) ==
    LET new == <<Piece(edit)>>
    IN FlattenSeq(
         IF edit.section # None THEN [Parsed(f) EXCEPT ![Find(f, edit.section)] = new]
         ELSE IF edit.after # None THEN Inserted(Parsed(f), Find(f, edit.after), new)
         ELSE Append(Parsed(f), new))

\* updateFrontmatter: under the id that the edit names or brings
Marked(by, edit) ==
    LET id == IF edit.section # None THEN edit.section ELSE edit.anchor
    IN IF id = None THEN editedBy
       ELSE [i \in DOMAIN editedBy \cup {id} |-> IF i = id THEN by ELSE editedBy[i]]

-------------------------------------------------------------------------------
Edit(shape, rev, text) ==
    [section |-> shape.section, after |-> shape.after, anchor |-> shape.anchor,
     path |-> shape.path, rev |-> rev, text |-> text]
NoEdit == Edit([section |-> None, after |-> None, anchor |-> None, path |-> FALSE], <<>>, <<None, 0>>)

Init ==
    /\ file = [i \in DOMAIN Opening |-> [anchor |-> Opening[i], text |-> <<Opening[i], 0>>]]
    /\ editedBy = [id \in {} |-> None]
    /\ guest = [g \in Guests |-> [at |-> "idle", seen |-> <<>>, edits |-> <<>>, valid |-> <<>>]]
    /\ status = [g \in Guests |-> [k \in {} |-> None]]
    /\ request = [u \in Requests |-> [at |-> "idle", edit |-> NoEdit, by |-> None, out |-> <<>>]]
    /\ applied = {}

\* The run of a writer guest: its prompt has the story and the revs, ...
ReadContext(g) ==
    /\ guest[g].at = "idle"
    /\ guest' = [guest EXCEPT ![g].at = "run", ![g].seen = Revs(file)]
    /\ UNCHANGED <<file, editedBy, status, request, applied>>

\* ... its answer has edits, with a rev as shown, or none, ...
Answer(g) ==
    /\ guest[g].at = "run"
    /\ \E answer \in Answers, cites \in BOOLEAN :
         LET Rev(s) == IF cites /\ s \in DOMAIN guest[g].seen THEN guest[g].seen[s] ELSE <<>>
         IN guest' = [guest EXCEPT ![g].at = "check",
               ![g].edits = [i \in DOMAIN answer |-> Edit(answer[i], Rev(answer[i].section), <<g, i>>)]]
    /\ UNCHANGED <<file, editedBy, status, request, applied>>

\* ... each of which is checked against the file as it is then, without the lock
CheckRevision(g) ==
    /\ guest[g].at = "check" /\ guest[g].edits # <<>>
    /\ LET edit == Head(guest[g].edits)
           ok == ~(edit.section # None /\ edit.after # None) /\ Fresh(file, edit)
       IN guest' = [guest EXCEPT ![g].edits = Tail(@),
                                 ![g].valid = IF ok THEN Append(@, edit) ELSE @]
    /\ UNCHANGED <<file, editedBy, status, request, applied>>

\* The status of a proposal has a key per place, not per edit; an append's key is
\* made of the proposal's id, and no edit has it
Key(g, edit) ==
    IF edit.section # None THEN edit.section ELSE IF edit.after # None THEN edit.after ELSE g
Stage(g) ==
    /\ guest[g].at = "check" /\ guest[g].edits = <<>>
    /\ guest' = [guest EXCEPT ![g].at = "done"]
    /\ status' = [status EXCEPT ![g] =
                    [k \in {Key(g, e) : e \in Range(guest[g].valid)} |-> "pending"]]
    /\ UNCHANGED <<file, editedBy, request, applied>>

-------------------------------------------------------------------------------
\* The user's requests

Begins(u, edit, by) ==
    request' = [request EXCEPT ![u].at = "apply", ![u].edit = edit, ![u].by = by]
Ends(u) == request' = [request EXCEPT ![u].at = "done"]

\* Mutant: the status follows when the edit has been applied
Answered_late(g, key) == status

Answered(g, key) == [status EXCEPT ![g][key] = "accepted"]

\* HandleStoryAccept: Accept returns the first edit of the key, whatever the status;
\* it has set the status also when it finds none (an append)
Accept(u) ==
    /\ request[u].at = "idle"
    /\ \E g \in Guests : \E key \in DOMAIN status[g] :
         LET edits == guest[g].valid
             mine == {i \in DOMAIN edits : key \in {edits[i].section, edits[i].after}}
         IN /\ status' = Answered(g, key)
            /\ IF mine = {} THEN Ends(u) ELSE Begins(u, edits[Min(mine)], g)
    /\ UNCHANGED <<file, editedBy, guest, applied>>

\* HandleStoryReject
Reject ==
    /\ \E g \in Guests : \E key \in DOMAIN status[g] :
         status' = [status EXCEPT ![g][key] = "rejected"]
    /\ UNCHANGED <<file, editedBy, guest, request, applied>>

\* HandleStorySave: a section as the user sees it, checked without the lock
Save(u) ==
    /\ request[u].at = "idle"
    /\ \E shape \in Saved, cites \in BOOLEAN :
         LET rev == IF cites /\ shape.section \in DOMAIN Revs(file) THEN Revs(file)[shape.section] ELSE <<>>
             edit == Edit(shape, rev, <<u, 0>>)
         IN IF Fresh(file, edit) THEN Begins(u, edit, Human) ELSE Ends(u)
    /\ UNCHANGED <<file, editedBy, guest, status, applied>>

\* The store's mutex
Free == \A u \in Requests : request[u].at # "write"

\* Apply under the lock: an error returns at once, or the new text is written to a
\* temporary file ...
Apply(u) ==
    /\ request[u].at = "apply" /\ Free
    /\ IF Refused(file, request[u].edit) THEN Ends(u)
       ELSE request' = [request EXCEPT ![u].at = "write", ![u].out = Result(file, request[u].edit)]
    /\ UNCHANGED <<file, editedBy, guest, status, applied>>

\* ... that takes the file's name.  It may fail to: the old file stays
Rename(u) ==
    /\ request[u].at = "write"
    /\ file' = request[u].out
    /\ editedBy' = Marked(request[u].by, request[u].edit)
    /\ applied' = applied \cup {request[u].edit.text}
    /\ request' = [request EXCEPT ![u].at = "report", ![u].out = <<>>]
    /\ UNCHANGED <<guest, status>>
RenameFails(u) ==
    /\ request[u].at = "write" /\ Ends(u)
    /\ UNCHANGED <<file, editedBy, guest, status, applied>>

\* Validate and the display that follows read the file again, without the lock
Report(u) ==
    /\ request[u].at = "report" /\ Ends(u)
    /\ UNCHANGED <<file, editedBy, guest, status, applied>>

GuestStep(g) == ReadContext(g) \/ Answer(g) \/ CheckRevision(g) \/ Stage(g)
Handle(u) == Apply(u) \/ Rename(u) \/ RenameFails(u) \/ Report(u)
Next ==
    \/ \E g \in Guests : GuestStep(g)
    \/ \E u \in Requests : Accept(u) \/ Save(u) \/ Handle(u)
    \/ Reject

Spec == Init /\ [][Next]_vars

-------------------------------------------------------------------------------
\* Properties

\* What an edit does not name stays, in its order: of the pieces in sections only
\* those of the section it replaces leave the file, however many requests write at
\* once ("other sections should be unchanged", storystore_test.go)
Sectioned(f) == FlattenSeq(Parsed(f))
OthersUnchanged ==
    [][file' # file =>
        \E u \in Requests :
            LET edit == request[u].edit
                named == IF edit.section = None THEN {}
                         ELSE Range(Parsed(file)[Find(file, edit.section)])
            IN /\ request[u].at = "write"
               /\ SelectSeq(file', LAMBDA p : p.text # edit.text)
                  = SelectSeq(Sectioned(file), LAMBDA p : p \notin named /\ p.text # edit.text)]_vars

\* Nothing the user has not answered is written: while a key of a proposal is
\* pending, none of its edits is in the file, or on its way (ProposalStore)
PendingNotApplied ==
    \A g \in Guests : \A key \in DOMAIN status[g] :
        status[g][key] = "pending" =>
            \A e \in Range(guest[g].valid) :
                Key(g, e) = key =>
                    e.text \notin applied /\ \A u \in Requests : request[u].edit.text # e.text
===============================================================================
