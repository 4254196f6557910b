------------------------------ MODULE PrismChannel ------------------------------
(***************************************************************************)
(* The WebSocket channels and the channel manager between the clients and   *)
(* the orchestrator: internal/channel/prism/adapter.go,                     *)
(* internal/channel/dispatch/adapter.go, internal/channel/manager.go, the   *)
(* on-connect history of Orchestrator.HistoryEventsForConnect and the       *)
(* guest index that scanGuests pushes.                                      *)
(*                                                                         *)
(* Each connection has a server goroutine (handleWS, readLoop); the runner, *)
(* the channel listener and the config watcher write to all of them while   *)
(* connections come and go.  A connection is one dial: a client that comes  *)
(* back is another connection.                                              *)
(***************************************************************************)
EXTENDS Naturals, Sequences, FiniteSets, Functions

CONSTANTS
    PrismConns,     \* connections to the Prism adapter
    DispatchConns,  \* connections to the Dispatch adapter
    Threads,        \* request ids, chosen by the clients
    NoThread,       \* the empty thread id of a click without one
    NoConn,
    Order,          \* the channels, in the order of the configuration
    QueueCap,       \* 64 in both adapters and the manager
    MaxEvents, MaxRequests, MaxIndex    \* bounds on what happens

ASSUME ChannelConstants ==
    /\ PrismConns \cap DispatchConns = {}
    /\ Order \in Seq({"prism", "dispatch"})
    /\ Range(Order) = {"prism", "dispatch"} /\ Len(Order) = 2
    /\ QueueCap \in Nat \ {0}
    /\ MaxEvents \in Nat /\ MaxRequests \in Nat /\ MaxIndex \in Nat

Conns == PrismConns \cup DispatchConns
Kind(c) == IF c \in PrismConns THEN "prism" ELSE "dispatch"

Senders == {"runner", "listener"}

VARIABLES
    \* the connections
    stage,      \* how far handleWS has got with a connection
    wire,       \* its socket: up, jammed by a write that timed out, cut
    conns,      \* Adapter.conns of both adapters
    threads,    \* Adapter.threads of each adapter
    \* inbound
    incoming,   \* Adapter.incoming of each adapter
    merged,     \* Manager.merged
    \* outbound
    out,        \* the Manager.Broadcast a sender is in
    made,       \* the number of run events there have been
    log,        \* those appended to the run logs
    told,       \* those broadcast
    scanned,    \* the run events in the history being sent to a connection
    whole,      \* history: the connections that were sent the history of the whole log
    index,      \* Adapter.guestAgents, as its version
    telling,    \* connections the running setGuestAgents has still to write to
    \* what the clients saw
    events, answers, shownIndex,
    quiet,      \* history: threads with a message that the listener did not reply to
    requests

vars == <<stage, wire, conns, threads, incoming, merged, out, made, log, told, scanned,
          whole, index, telling, events, answers, shownIndex, quiet, requests>>

conVars == <<stage, wire, conns, threads, scanned, whole>>
inVars  == <<incoming, merged, quiet, requests>>
runVars == <<made, log, told>>
seen    == <<events, answers, shownIndex>>
idxVars == <<index, telling>>

Stages == {"out", "known", "hook", "history", "open", "closed", "gone"}

\* An event is its number; a stream and its reply carry the thread they answer, and
\* "held" stands for a message whose handling blocks
Thread  == Threads \cup {NoThread}
Message == [type : {"none"}, of : {0}] \cup [type : {"event"}, of : 1..MaxEvents]
              \cup [type : {"stream", "reply", "held"}, of : Thread]

Silence == [type |-> "none", of |-> 0]
Idle == [msg |-> Silence, todo |-> {}, left |-> <<>>]

Reading(c) == stage[c] = "open"
Up(c) == wire[c] = "up"

-------------------------------------------------------------------------------
\* The connections of an adapter that one Send writes to
Members(k) == {c \in conns : Kind(c) = k}

\* The thread has a connection (sendReply)
Owned(t) == t # NoThread /\ threads["prism"][t] # NoConn

\* sendReply, sendDisplay and sendStream of Prism: the thread's connection, and
\* all of them when the thread has none
PrismTargets(t) ==
    IF Owned(t) THEN {threads["prism"][t]} ELSE Members("prism")

\* Dispatch leaves streams out and gives up on a thread it does not know
DispatchTargets(msg) ==
    IF msg.type = "stream" THEN {}
    ELSE IF msg.of = NoThread THEN Members("dispatch")
    ELSE {threads["dispatch"][msg.of]} \ {NoConn}

\* Typed events go to everybody, whatever their thread
Targets(k, msg) ==
    IF msg.type = "event" THEN Members(k)
    ELSE IF k = "prism" THEN PrismTargets(msg.of) ELSE DispatchTargets(msg)

Fails(k, msg) ==
    /\ k = "dispatch" /\ msg.type = "reply" /\ msg.of # NoThread
    /\ threads["dispatch"][msg.of] = NoConn

\* Mutant: the first channel that fails ends the broadcast
Rest_untilError(k, msg, left) == IF Fails(k, msg) THEN <<>> ELSE left

\* Manager.Broadcast joins the errors of the channels and goes on
Rest(k, msg, left) == left

Starts(msg) == [msg |-> msg, todo |-> {}, left |-> Order]
Busy(s) == out[s].msg.type # "none"

\* When nothing is left to write the Broadcast returns; the listener follows a
\* stream with the reply
Returned(o) ==
    IF o.todo # {} \/ o.left # <<>> THEN o
    ELSE IF o.msg.type = "stream" THEN Starts([o.msg EXCEPT !.type = "reply"])
    ELSE Idle

-------------------------------------------------------------------------------
Init ==
    /\ stage = [c \in Conns |-> "out"] /\ wire = [c \in Conns |-> "up"]
    /\ conns = {}
    /\ threads = [k \in Range(Order) |-> [t \in Threads |-> NoConn]]
    /\ incoming = [k \in Range(Order) |-> <<>>] /\ merged = <<>>
    /\ out = [s \in Senders |-> Idle]
    /\ made = 0 /\ log = {} /\ told = {}
    /\ scanned = [c \in Conns |-> {}] /\ whole = {}
    /\ index = 0 /\ telling = {}
    /\ events = [c \in Conns |-> {}]
    /\ answers = [c \in Conns |-> {}]
    /\ shownIndex = [c \in Conns |-> 0]
    /\ quiet = {} /\ requests = 0

Goes(c, to) == stage' = [stage EXCEPT ![c] = to]

\* A client dials and authenticate fails: no frame in time, an unreadable one,
\* or a wrong token
Refuse(c) ==
    /\ stage[c] = "out"
    /\ Goes(c, "gone")
    /\ UNCHANGED <<wire, conns, threads, scanned, whole, out, runVars, inVars, idxVars, seen>>

\* A client dials and authenticate succeeds: auth_ok carries the guest index of
\* this moment
Admit(c) ==
    /\ stage[c] = "out"
    /\ Goes(c, "known")
    /\ shownIndex' = [shownIndex EXCEPT ![c] = index]
    /\ UNCHANGED <<wire, conns, threads, scanned, whole, out, runVars, events, answers>>
    /\ UNCHANGED <<inVars, idxVars>>

\* Mutant: the hook runs and the connection is read, but it is not registered
Join_late(c) ==
    /\ stage[c] = "known"
    /\ Goes(c, IF Kind(c) = "prism" THEN "hook" ELSE "open")
    /\ UNCHANGED <<wire, conns, threads, scanned, whole, out, runVars>>
    /\ UNCHANGED <<inVars, idxVars, seen>>

\* handleWS registers the connection, then runs the on-connect hook (Prism)
Join(c) ==
    /\ stage[c] = "known"
    /\ conns' = conns \cup {c}
    /\ Goes(c, IF Kind(c) = "prism" THEN "hook" ELSE "open")
    /\ UNCHANGED <<wire, threads, scanned, whole, out, runVars, inVars, idxVars, seen>>

\* HistoryEventsForConnect reduces the run logs to their snapshots: some of them, or
\* none, where logs cannot be read, there are more than the limit, or no plan store
Scan(c) ==
    /\ stage[c] = "hook"
    /\ \E part \in SUBSET log :
         /\ scanned' = [scanned EXCEPT ![c] = part]
         /\ whole' = IF part = log THEN whole \cup {c} ELSE whole
    /\ Goes(c, "history")
    /\ UNCHANGED <<wire, conns, threads, out, runVars, inVars, idxVars, seen>>

\* sendToConn writes the history; if that fails the connection is read anyway
SendHistory(c) ==
    /\ stage[c] = "history"
    /\ Goes(c, "open")
    /\ events' = IF Up(c)
                 THEN [events EXCEPT ![c] = @ \cup scanned[c]] ELSE events
    /\ UNCHANGED <<wire, conns, threads, scanned, whole, out, runVars, answers, shownIndex>>
    /\ UNCHANGED <<inVars, idxVars>>

\* A hydrate frame: the hook again, for this connection
Hydrate(c) ==
    /\ Reading(c) /\ Up(c) /\ Kind(c) = "prism" /\ requests < MaxRequests
    /\ requests' = requests + 1
    /\ Goes(c, "hook")
    /\ UNCHANGED <<wire, conns, threads, scanned, whole, out, runVars, incoming, merged>>
    /\ UNCHANGED <<quiet, idxVars, seen>>

\* A click on a gate may come without a thread, a request never does
Carried(c) == IF Kind(c) = "prism" THEN Thread ELSE Threads

\* The thread is the connection's from now on
Claimed(c, t) ==
    IF t = NoThread THEN threads ELSE [threads EXCEPT ![Kind(c)][t] = c]

\* The message is queued, or dropped when the queue is full
Queued(k, t) ==
    IF Len(incoming[k]) < QueueCap
    THEN [incoming EXCEPT ![k] = Append(@, t)] ELSE incoming

\* req, gate_action and execute_rerun frames (frames that name no id, no plan
\* or no known action change nothing)
Request(c, t) ==
    /\ Reading(c) /\ wire[c] # "cut" /\ requests < MaxRequests
    /\ t \in Carried(c)
    /\ requests' = requests + 1
    /\ threads' = Claimed(c, t) /\ incoming' = Queued(Kind(c), t)
    /\ UNCHANGED <<stage, wire, conns, scanned, whole, merged, quiet, out, runVars>>
    /\ UNCHANGED <<idxVars, seen>>

\* The client hangs up, or the network does
HangUp(c) ==
    /\ stage[c] \notin {"out", "gone"} /\ wire[c] # "cut"
    /\ wire' = [wire EXCEPT ![c] = "cut"]
    /\ UNCHANGED <<stage, conns, threads, scanned, whole, out, runVars, inVars, idxVars, seen>>

\* readLoop returns on a read error and closes the connection
Leave(c) ==
    /\ Reading(c) /\ wire[c] = "cut"
    /\ Goes(c, "closed")
    /\ UNCHANGED <<wire, conns, threads, scanned, whole, out, runVars, inVars, idxVars, seen>>

\* removeConn forgets the threads of the connection
Without(c) ==
    [k \in DOMAIN threads |->
        [t \in Threads |-> IF threads[k][t] = c THEN NoConn ELSE threads[k][t]]]

Remove(c) ==
    /\ stage[c] = "closed"
    /\ conns' = conns \ {c} /\ threads' = Without(c)
    /\ Goes(c, "gone")
    /\ scanned' = [scanned EXCEPT ![c] = {}] /\ whole' = whole \ {c}
    /\ events' = [events EXCEPT ![c] = {}] /\ answers' = [answers EXCEPT ![c] = {}]
    /\ UNCHANGED <<wire, out, runVars, shownIndex, inVars, idxVars>>

-------------------------------------------------------------------------------
\* Manager.fanIn of one channel; a full merged queue drops the message
FanIn(k) ==
    /\ incoming[k] # <<>>
    /\ incoming' = [incoming EXCEPT ![k] = Tail(@)]
    /\ merged' = IF Len(merged) < QueueCap
                 THEN Append(merged, Head(incoming[k])) ELSE merged
    /\ UNCHANGED <<quiet, requests, out, runVars, conVars, idxVars, seen>>

\* The channel listener takes a message (HandleUserMessage) and answers it, first with
\* the stream; or leaves it to the guests; or blocks in it, with a click that
\* PlanRunner.ResolveGate cannot hand over (routeGateResolution)
Handle ==
    /\ merged # <<>> /\ ~Busy("listener")
    /\ merged' = Tail(merged)
    /\ LET t == Head(merged) IN
       \/ /\ out' = [out EXCEPT !["listener"] = Starts([type |-> "stream", of |-> t])]
          /\ UNCHANGED quiet
       \/ quiet' = quiet \cup {t} /\ UNCHANGED out
       \/ /\ out' = [out EXCEPT !["listener"] = [Idle EXCEPT !.msg = [type |-> "held", of |-> t]]]
          /\ UNCHANGED quiet
    /\ UNCHANGED <<incoming, requests, runVars, conVars, idxVars, seen>>

\* The runner takes the click after all, and a follow-up says so
Unblock ==
    /\ out["listener"].msg.type = "held"
    /\ out' = [out EXCEPT !["listener"] = Starts([@.msg EXCEPT !.type = "reply"])]
    /\ UNCHANGED <<runVars, conVars, inVars, idxVars, seen>>

\* PlanRunner appends a transition to the run log, where an error goes unnoticed
\* (FileAppender), and then broadcasts it
Emit ==
    /\ ~Busy("runner") /\ made < MaxEvents
    /\ made' = made + 1 /\ told' = told \cup {made + 1}
    /\ log' \in {log, log \cup {made + 1}}
    /\ out' = [out EXCEPT !["runner"] = Starts([type |-> "event", of |-> made + 1])]
    /\ UNCHANGED <<conVars, inVars, idxVars, seen>>

\* An event is appended and nothing is broadcast: PlanRunner's step_queued and the
\* run_aborted of a stuck plan; the orchestrator's run_aborted of runs it triages or
\* supersedes, at any time
Record ==
    /\ made < MaxEvents
    /\ made' = made + 1 /\ log' = log \cup {made + 1}
    /\ UNCHANGED <<told, out, conVars, inVars, idxVars, seen>>

\* Broadcast calls the next channel's Send, which looks up whom to write to
NextChannel(o) ==
    LET k == Head(o.left) IN
    [o EXCEPT !.todo = Targets(k, o.msg), !.left = Rest(k, o.msg, Tail(o.left))]

Send(s) ==
    /\ Busy(s) /\ out[s].todo = {} /\ out[s].left # <<>>
    /\ out' = [out EXCEPT ![s] = Returned(NextChannel(out[s]))]
    /\ UNCHANGED <<runVars, conVars, inVars, idxVars, seen>>

Written(o, c) == [o EXCEPT !.todo = @ \ {c}]

\* One writeJSON.  The write to a client that does not read runs into its
\* deadline, after which every later write on the socket fails too; the
\* connection stays registered and is still read
Write(s, c) ==
    LET m == out[s].msg IN
    /\ c \in out[s].todo
    /\ out' = [out EXCEPT ![s] = Returned(Written(out[s], c))]
    /\ \/ /\ Up(c)
          /\ events' = IF m.type = "event"
                       THEN [events EXCEPT ![c] = @ \cup {m.of}] ELSE events
          /\ answers' = IF m.type = "reply"
                        THEN [answers EXCEPT ![c] = @ \cup {m.of}] ELSE answers
          /\ UNCHANGED wire
       \/ /\ Up(c) /\ wire' = [wire EXCEPT ![c] = "jammed"]
          /\ UNCHANGED <<events, answers>>
       \/ /\ ~Up(c) /\ UNCHANGED <<wire, events, answers>>
    /\ UNCHANGED <<stage, conns, threads, scanned, whole, runVars, shownIndex, inVars>>
    /\ UNCHANGED idxVars

-------------------------------------------------------------------------------
\* A reload scans the guests: setGuestAgents caches the index with its list of
\* connections, and writes to them after it has let go of the lock
SetIndex ==
    /\ telling = {} /\ index < MaxIndex
    /\ index' = index + 1 /\ telling' = Members("prism")
    /\ UNCHANGED <<out, runVars, conVars, inVars, seen>>

TellIndex(c) ==
    /\ c \in telling
    /\ telling' = telling \ {c}
    /\ \/ /\ shownIndex' = IF Up(c) THEN [shownIndex EXCEPT ![c] = index]
                                ELSE shownIndex
          /\ UNCHANGED wire
       \/ Up(c) /\ wire' = [wire EXCEPT ![c] = "jammed"] /\ UNCHANGED shownIndex
    /\ UNCHANGED <<stage, conns, threads, scanned, whole, index, events, answers, out>>
    /\ UNCHANGED <<runVars, inVars>>

-------------------------------------------------------------------------------
Connection(c) ==
    \/ Refuse(c) \/ Admit(c) \/ Join(c) \/ Scan(c) \/ SendHistory(c)
    \/ Hydrate(c) \/ HangUp(c) \/ Leave(c) \/ Remove(c)
    \/ \E t \in Thread : Request(c, t)

Next ==
    \/ \E c \in Conns : Connection(c) \/ TellIndex(c)
    \/ \E k \in Range(Order) : FanIn(k)
    \/ \E s \in Senders : Send(s) \/ \E c \in Conns : Write(s, c)
    \/ Handle \/ Unblock \/ Emit \/ Record \/ SetIndex

\* Goroutines run on; clients owe nothing, and nothing says that a held click is taken
Fairness ==
    /\ \A c \in Conns : /\ WF_vars(Join(c)) /\ WF_vars(Scan(c))
                        /\ WF_vars(SendHistory(c))
                        /\ WF_vars(Leave(c)) /\ WF_vars(Remove(c))
                        /\ WF_vars(TellIndex(c))
    /\ \A k \in Range(Order) : WF_vars(FanIn(k))
    /\ \A s \in Senders :
        /\ WF_vars(Send(s))
        /\ \A c \in Conns : WF_vars(Write(s, c))
    /\ WF_vars(Handle)

Spec == Init /\ [][Next]_vars /\ Fairness

-------------------------------------------------------------------------------
\* A thread never belongs to a connection that has been removed, or a reply to
\* it would be lost instead of going to everybody (removeConn, sendReply)
ThreadsAreLive ==
    \A k \in Range(Order), t \in Threads :
        threads[k][t] # NoConn => threads[k][t] \in conns /\ Kind(threads[k][t]) = k

\* Whenever a client connects, once it has been sent the history of the whole log and
\* the runner is between two broadcasts, it knows every event in the log that was
\* ever broadcast: those before its registration from the history, the others as
\* they happened (handleWS against PlanRunner's append-then-broadcast).  Events that
\* are appended and not broadcast reach a client only with its next history
NothingMissed ==
    \A c \in PrismConns :
        Reading(c) /\ Up(c) /\ c \in whole /\ ~Busy("runner") => log \cap told \subseteq events[c]

\* A message the listener will take is answered to the connection that owns
\* its thread, as long as that connection is there, whatever the other
\* channels make of the reply (Manager.Broadcast, sendReply); unless the listener
\* leaves it to the guests, or is held up by a click
Waiting(c, t) == threads[Kind(c)][t] = c /\ t \in Range(merged)
Held == out["listener"].msg.type = "held"
AskerAnswered ==
    \A c \in Conns, t \in Threads :
        Waiting(c, t) ~> \/ t \in answers[c] \/ ~Up(c) \/ threads[Kind(c)][t] # c
                         \/ t \in quiet \/ Held

\* Every connected Prism client shows the current guest index once nothing is
\* being sent (adapter.go: UpdateGuestIndex "broadcasts to all connected
\* clients").  The code does not keep this
IndexCurrent ==
    \A c \in PrismConns :
        Reading(c) /\ Up(c) /\ telling = {} => shownIndex[c] = index
-------------------------------------------------------------------------------
(* The strengthening that makes NothingMissed and ThreadsAreLive inductive. *)

\* Every variable has its type.
TypeOK ==
    /\ stage \in [Conns -> Stages] /\ wire \in [Conns -> {"up", "jammed", "cut"}]
    /\ conns \subseteq Conns
    /\ threads \in [Range(Order) -> [Threads -> Conns \cup {NoConn}]]
    /\ out \in [Senders -> [msg : Message, todo : SUBSET Conns, left : Seq(Range(Order))]]
    /\ made \in 0..MaxEvents /\ log \subseteq 1..made /\ told \subseteq 1..made
    /\ scanned \in [Conns -> SUBSET (1..MaxEvents)] /\ whole \subseteq Conns
    /\ incoming \in [Range(Order) -> Seq(Thread)] /\ merged \in Seq(Thread)
    /\ index \in 0..MaxIndex /\ telling \subseteq Conns
    /\ events \in [Conns -> SUBSET (1..MaxEvents)] /\ answers \in [Conns -> SUBSET Thread]
    /\ shownIndex \in [Conns -> 0..MaxIndex]
    /\ quiet \subseteq Thread /\ requests \in 0..MaxRequests

\* An adapter's list holds the connections between handleWS's registration and
\* removeConn, and only these are sent a history
Registered ==
    /\ \A c \in Conns : c \in conns <=> stage[c] \in {"hook", "history", "open", "closed"}
    /\ whole \subseteq conns

\* What PlanRunner sends is an event, one of those broadcast
RunnerSends ==
    Busy("runner") => out["runner"].msg.type = "event" /\ out["runner"].msg.of \in told

\* The event e is being broadcast and will still be written to c
Coming(c, e) ==
    /\ Busy("runner") /\ out["runner"].msg.of = e
    /\ c \in out["runner"].todo \/ "prism" \in Range(out["runner"].left)

\* The connection has an event, or the history that is about to be written has it,
\* or it is on its way
Known(c, e) ==
    \/ e \in events[c]
    \/ stage[c] = "history" /\ e \in scanned[c]
    \/ Coming(c, e)

AllKnown ==
    \A c \in PrismConns :
        Up(c) /\ c \in whole => \A e \in log \cap told : Known(c, e)
===============================================================================
