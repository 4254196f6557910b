----------------------------- MODULE ChannelsProofs -----------------------------
(***************************************************************************)
(* Proofs about the channels: PrismChannel, for any connections, threads,   *)
(* queue capacity and order of the channels, and VoiceRoom, for any number  *)
(* of turns and deltas, any history cap of two entries or more, and with    *)
(* and without a fast model.                                                *)
(***************************************************************************)
EXTENDS MCChannels, SequenceTheorems, TLAPS

Channel  == {"prism", "dispatch"}
Outbound == [msg : Message, todo : SUBSET Conns, left : Seq(Range(Order))]

Handler(c) == Connection(c) \/ TellIndex(c)

-------------------------------------------------------------------------------
(* Constants and helpers.                                                   *)

\* The two channels of the order, and what a Broadcast begins with.
LEMMA Channels ==
    /\ Range(Order) = Channel /\ Order \in Seq(Channel) /\ Order # <<>>
    /\ \A c \in Conns : Kind(c) \in Channel
    /\ \A c \in PrismConns : Kind(c) = "prism" /\ c \in Conns
<1>1. Range(Order) = Channel /\ Len(Order) = 2
  BY ChannelConstants DEF ChannelConstants, Channel
<1>2. Order \in Seq(Channel)
  BY ChannelConstants DEF ChannelConstants, Channel
<1> QED BY <1>1, <1>2, EmptySeq DEF Kind, Conns, Channel
\* What is carried.
LEMMA MessageTypes ==
    /\ Silence \in Message /\ Idle \in Outbound
    /\ \A msg \in Message : Starts(msg) \in Outbound
<1>2. Silence \in Message
  BY ChannelConstants DEF ChannelConstants, Silence, Message
<1>3. Order \in Seq(Range(Order)) /\ <<>> \in Seq(Range(Order))
  BY Channels
<1> QED BY <1>2, <1>3 DEF Idle, Starts, Outbound

\* The connections a Send writes to.
LEMMA TargetTypes ==
    ASSUME TypeOK, NEW k \in Channel, NEW msg \in Message, msg.type # "none"
    PROVE  Targets(k, msg) \in SUBSET Conns
<1>0. /\ conns \subseteq Conns
      /\ \A x \in Channel, t \in Threads : threads[x][t] \in Conns \cup {NoConn}
  BY Channels DEF TypeOK
<1>1. /\ Members(k) \in SUBSET Conns /\ Members("prism") \in SUBSET Conns
      /\ Members("dispatch") \in SUBSET Conns
  BY <1>0 DEF Members
<1>2. CASE msg.type = "event"
  BY <1>1, <1>2 DEF Targets
<1>3. CASE msg.type # "event"
  <2>1. msg.of = NoThread \/ msg.of \in Threads
    BY <1>3 DEF Message, Thread
  <2>2. PrismTargets(msg.of) \in SUBSET Conns
    BY <1>0, <1>1, <2>1 DEF PrismTargets, Owned, Channel
  <2>3. DispatchTargets(msg) \in SUBSET Conns
    <3>1. msg.of \in Threads => {threads["dispatch"][msg.of]} \ {NoConn} \in SUBSET Conns
      BY <1>0 DEF Channel
    <3> QED BY <1>1, <2>1, <3>1 DEF DispatchTargets
  <2> QED BY <1>3, <2>2, <2>3 DEF Targets
<1> QED BY <1>2, <1>3

-------------------------------------------------------------------------------
(* Types.                                                                   *)

\* The steps of the connections' goroutines.
LEMMA HandlerKeepsTypes ==
    ASSUME TypeOK, NEW c \in Conns, Handler(c)
    PROVE  TypeOK'
<1>0. Stages = {"out", "known", "hook", "history", "open", "closed", "gone"}
  BY DEF Stages
<1>1. ASSUME NEW to \in Stages, Goes(c, to) PROVE stage' \in [Conns -> Stages]
  BY <1>1 DEF Goes, TypeOK
<1>2. CASE Refuse(c)
  BY <1>0, <1>1, <1>2 DEF Refuse, TypeOK, runVars, inVars, idxVars, seen
<1>3. CASE Admit(c)
  BY <1>0, <1>1, <1>3 DEF Admit, TypeOK, runVars, inVars, idxVars
<1>4. CASE Join(c)
  BY <1>0, <1>1, <1>4 DEF Join, TypeOK, runVars, inVars, idxVars, seen
<1>5. CASE Scan(c)
  <2>1. log \subseteq 1..MaxEvents
    BY ChannelConstants DEF TypeOK, ChannelConstants
  <2>2. PICK part \in SUBSET log :
            /\ scanned' = [scanned EXCEPT ![c] = part]
            /\ whole' = IF part = log THEN whole \cup {c} ELSE whole
    BY <1>5 DEF Scan
  <2>3. scanned' \in [Conns -> SUBSET (1..MaxEvents)]
    BY <2>1, <2>2 DEF TypeOK
  <2>4. whole' \subseteq Conns
    BY <2>2 DEF TypeOK
  <2> QED BY <1>0, <1>1, <1>5, <2>3, <2>4
          DEF Scan, TypeOK, runVars, inVars, idxVars, seen
<1>6. CASE SendHistory(c)
  <2>1. events' \in [Conns -> SUBSET (1..MaxEvents)]
    BY <1>6 DEF SendHistory, TypeOK
  <2> QED BY <1>0, <1>1, <1>6, <2>1
          DEF SendHistory, TypeOK, runVars, inVars, idxVars
<1>7. CASE Hydrate(c)
  <2>1. requests' \in 0..MaxRequests
    BY <1>7, ChannelConstants DEF Hydrate, TypeOK, ChannelConstants
  <2> QED BY <1>0, <1>1, <1>7, <2>1 DEF Hydrate, TypeOK, runVars, idxVars, seen
<1>8. CASE HangUp(c)
  BY <1>8 DEF HangUp, TypeOK, runVars, inVars, idxVars, seen
<1>9. CASE Leave(c)
  BY <1>0, <1>1, <1>9 DEF Leave, TypeOK, runVars, inVars, idxVars, seen
<1>10. CASE Remove(c)
  <2>1. threads' \in [Range(Order) -> [Threads -> Conns \cup {NoConn}]]
    BY <1>10 DEF Remove, Without, TypeOK
  <2>2. scanned' \in [Conns -> SUBSET (1..MaxEvents)] /\ whole' \subseteq Conns
    BY <1>10 DEF Remove, TypeOK
  <2> QED BY <1>0, <1>1, <1>10, <2>1, <2>2 DEF Remove, TypeOK, runVars, inVars, idxVars
<1>11. ASSUME NEW t \in Thread, Request(c, t) PROVE TypeOK'
  <2>1. Kind(c) \in Range(Order) /\ t \in Thread
    BY Channels
  <2>2. threads' \in [Range(Order) -> [Threads -> Conns \cup {NoConn}]]
    BY <1>11, <2>1 DEF Request, Claimed, TypeOK, Thread
  <2>3. incoming' \in [Range(Order) -> Seq(Thread)]
    BY <1>11, <2>1 DEF Request, Queued, TypeOK
  <2>4. requests' \in 0..MaxRequests
    BY <1>11, ChannelConstants DEF Request, TypeOK, ChannelConstants
  <2> QED BY <1>11, <2>2, <2>3, <2>4 DEF Request, TypeOK, runVars, idxVars, seen
<1>12. CASE TellIndex(c)
  BY <1>12 DEF TellIndex, TypeOK, runVars, inVars
<1> QED BY <1>2, <1>3, <1>4, <1>5, <1>6, <1>7, <1>8, <1>9, <1>10, <1>11, <1>12
        DEF Handler, Connection

\* A Broadcast that goes on or returns.
LEMMA ReturnedType ==
    ASSUME NEW o \in Outbound
    PROVE  Returned(o) \in Outbound
<1>1. o.msg.type = "stream" => [o.msg EXCEPT !.type = "reply"] \in Message
  BY DEF Outbound, Message
<1> QED BY <1>1, MessageTypes DEF Returned

\* The steps of the manager, the runner and the listener.
LEMMA ManagerKeepsTypes ==
    ASSUME TypeOK,
           \/ \E k \in Range(Order) : FanIn(k)
           \/ \E s \in Senders : Send(s) \/ \E c \in Conns : Write(s, c)
           \/ Handle \/ Unblock \/ Emit \/ Record \/ SetIndex
    PROVE  TypeOK'
<1>0. out \in [Senders -> Outbound]
  BY DEF TypeOK, Outbound
<1>1. ASSUME NEW k \in Range(Order), FanIn(k) PROVE TypeOK'
  <2>1. incoming[k] \in Seq(Thread) /\ incoming[k] # <<>>
    BY <1>1 DEF FanIn, TypeOK
  <2>2. Head(incoming[k]) \in Thread /\ Tail(incoming[k]) \in Seq(Thread)
    BY <2>1, HeadTailProperties
  <2>3. incoming' \in [Range(Order) -> Seq(Thread)]
    BY <1>1, <2>2 DEF FanIn, TypeOK
  <2>4. merged' \in Seq(Thread)
    BY <1>1, <2>2, AppendProperties DEF FanIn, TypeOK
  <2> QED BY <1>1, <2>3, <2>4 DEF FanIn, TypeOK, runVars, conVars, idxVars, seen
<1>2. CASE Handle
  <2> DEFINE t == Head(merged)
             held == [Idle EXCEPT !.msg = [type |-> "held", of |-> t]]
  <2>1. t \in Thread /\ Tail(merged) \in Seq(Thread)
    BY <1>2, HeadTailProperties DEF Handle, TypeOK
  <2>2. /\ Starts([type |-> "stream", of |-> t]) \in Outbound
        /\ [type |-> "held", of |-> t] \in Message
    BY <2>1, MessageTypes DEF Message
  <2>3. held \in Outbound
    BY <2>2, MessageTypes DEF Outbound
  <2>4. quiet' \subseteq Thread
    BY <1>2, <2>1 DEF Handle, TypeOK
  <2>5. out' \in [Senders -> Outbound]
    BY <1>0, <1>2, <2>2, <2>3 DEF Handle
  <2> QED BY <1>2, <2>1, <2>4, <2>5 DEF Handle, TypeOK, Outbound, runVars, conVars, idxVars, seen
<1>3. CASE Emit \/ Record
  <2>1. /\ made \in Nat /\ made' = made + 1 /\ made + 1 \in 0..MaxEvents
        /\ 1..made \subseteq 1..(made + 1) /\ made + 1 \in 1..(made + 1)
    BY <1>3, ChannelConstants DEF Emit, Record, TypeOK, ChannelConstants
  <2>2. log' \subseteq 1..made' /\ told' \subseteq 1..made'
    BY <1>3, <2>1 DEF Emit, Record, TypeOK
  <2>3. Starts([type |-> "event", of |-> made + 1]) \in Outbound
    <3>1. made + 1 \in 1..MaxEvents
      BY <2>1, ChannelConstants DEF ChannelConstants
    <3> QED BY <3>1, MessageTypes DEF Message
  <2>4. out' \in [Senders -> Outbound]
    BY <1>0, <1>3, <2>3 DEF Emit, Record
  <2> QED BY <1>3, <2>1, <2>2, <2>4
          DEF Emit, Record, TypeOK, Outbound, conVars, inVars, idxVars, seen
<1>7. CASE Unblock
  <2>1. [out["listener"].msg EXCEPT !.type = "reply"] \in Message
    BY <1>0, <1>7 DEF Unblock, Senders, Outbound, Message
  <2>2. out' \in [Senders -> Outbound]
    BY <1>0, <1>7, <2>1, MessageTypes DEF Unblock
  <2> QED BY <1>7, <2>2 DEF Unblock, TypeOK, Outbound, runVars, conVars, inVars, idxVars, seen
<1>4. ASSUME NEW s \in Senders, Send(s) PROVE TypeOK'
  <2> DEFINE k == Head(out[s].left)
             o == NextChannel(out[s])
  <2>1. /\ out[s] \in Outbound /\ out[s].left # <<>> /\ out[s].msg.type # "none"
        /\ out[s].left \in Seq(Range(Order))
    BY <1>0, <1>4 DEF Send, Busy, Outbound
  <2>2. k \in Channel /\ Tail(out[s].left) \in Seq(Range(Order))
    BY <2>1, HeadTailProperties, Channels
  <2>3. Targets(k, out[s].msg) \in SUBSET Conns
    BY <2>1, <2>2, TargetTypes DEF Outbound
  <2>4. o \in Outbound
    BY <2>1, <2>2, <2>3 DEF Outbound, Rest, NextChannel
  <2>5. out' = [out EXCEPT ![s] = Returned(o)]
    BY <1>4 DEF Send
  <2> HIDE DEF o
  <2>6. out' \in [Senders -> Outbound]
    BY <1>0, <2>4, <2>5, ReturnedType
  <2> QED BY <1>4, <2>6 DEF Send, TypeOK, Outbound, runVars, conVars, inVars, idxVars, seen
<1>5. ASSUME NEW s \in Senders, NEW c \in Conns, Write(s, c) PROVE TypeOK'
  <2> DEFINE o == Written(out[s], c)
             m == out[s].msg
  <2>1. o \in Outbound /\ m \in Message
    BY <1>0 DEF Outbound, Written
  <2>2. out' = [out EXCEPT ![s] = Returned(o)]
    BY <1>5 DEF Write
  <2>3. out' \in [Senders -> Outbound]
    <3> HIDE DEF o
    <3> QED BY <1>0, <2>1, <2>2, ReturnedType
  <2>4. /\ m.type = "event" => m.of \in 1..MaxEvents
        /\ m.type = "reply" => m.of \in Thread
    BY <2>1 DEF Message
  <2>5. /\ events' = events \/ (m.type = "event" /\ events' = [events EXCEPT ![c] = @ \cup {m.of}])
        /\ answers' = answers \/ (m.type = "reply" /\ answers' = [answers EXCEPT ![c] = @ \cup {m.of}])
        /\ wire' = wire \/ wire' = [wire EXCEPT ![c] = "jammed"]
    BY <1>5 DEF Write
  <2> HIDE DEF m
  <2>6. events' \in [Conns -> SUBSET (1..MaxEvents)]
    <3>1. events \in [Conns -> SUBSET (1..MaxEvents)]
      BY DEF TypeOK
    <3>2. CASE events' = events
      BY <3>1, <3>2
    <3>3. CASE m.type = "event" /\ events' = [events EXCEPT ![c] = @ \cup {m.of}]
      <4>1. events[c] \cup {m.of} \in SUBSET (1..MaxEvents)
        BY <2>4, <3>1, <3>3
      <4> QED BY <3>1, <3>3, <4>1
    <3> QED BY <2>5, <3>2, <3>3
  <2>7. answers' \in [Conns -> SUBSET Thread]
    <3>1. answers \in [Conns -> SUBSET Thread]
      BY DEF TypeOK
    <3>2. CASE answers' = answers
      BY <3>1, <3>2
    <3>3. CASE m.type = "reply" /\ answers' = [answers EXCEPT ![c] = @ \cup {m.of}]
      <4>1. answers[c] \cup {m.of} \in SUBSET Thread
        BY <2>4, <3>1, <3>3
      <4> QED BY <3>1, <3>3, <4>1
    <3> QED BY <2>5, <3>2, <3>3
  <2>8. wire' \in [Conns -> {"up", "jammed", "cut"}]
    BY <2>5 DEF TypeOK
  <2> QED BY <1>5, <2>3, <2>6, <2>7, <2>8 DEF Write, TypeOK, Outbound, runVars, inVars, idxVars
<1>6. CASE SetIndex
  <2>1. index' \in 0..MaxIndex /\ telling' \subseteq Conns
    BY <1>6, ChannelConstants DEF SetIndex, TypeOK, ChannelConstants, Members
  <2> QED BY <1>6, <2>1 DEF SetIndex, TypeOK, runVars, conVars, inVars, seen
<1> QED BY <1>1, <1>2, <1>3, <1>4, <1>5, <1>6, <1>7

\* Every step keeps the types.
LEMMA StepKeepsTypes == TypeOK /\ [Next]_vars => TypeOK'
<1>1. ASSUME TypeOK, UNCHANGED vars PROVE TypeOK'
  BY <1>1 DEF vars, TypeOK
<1> QED BY <1>1, HandlerKeepsTypes, ManagerKeepsTypes DEF Next, Handler

\* Every variable keeps its type.
THEOREM TypeCorrect == Spec => []TypeOK
<1>1. Init => TypeOK
  <2> SUFFICES ASSUME Init PROVE TypeOK
    OBVIOUS
  <2>1. /\ out \in [Senders -> Outbound] /\ incoming \in [Range(Order) -> Seq(Thread)]
        /\ merged \in Seq(Thread)
    BY MessageTypes DEF Init
  <2>2. /\ stage \in [Conns -> Stages] /\ wire \in [Conns -> {"up", "jammed", "cut"}]
        /\ threads \in [Range(Order) -> [Threads -> Conns \cup {NoConn}]]
    BY DEF Init, Stages
  <2>3. /\ 0 \in 0..MaxEvents /\ 0 \in 0..MaxIndex /\ 0 \in 0..MaxRequests
    BY ChannelConstants DEF ChannelConstants
  <2> QED BY <2>1, <2>2, <2>3 DEF Init, TypeOK, Outbound
<1> QED BY <1>1, StepKeepsTypes, PTL DEF Spec

-------------------------------------------------------------------------------
(* Registration and ownership of threads.                                   *)

\* The invariants below share these; the manager's steps leave them alone.
ConnVars == <<stage, conns, threads, whole>>

\* An adapter's list and the stages of its connections change together, and a
\* thread is taken by a connection that is in the list and given up when the
\* connection leaves it.
LEMMA HandlerKeepsOwners ==
    ASSUME TypeOK, Registered, ThreadsAreLive, NEW c \in Conns, Handler(c)
    PROVE  Registered' /\ ThreadsAreLive'
<1>0. /\ stage \in [Conns -> Stages] /\ Kind(c) \in Range(Order)
      /\ whole \subseteq Conns
      /\ threads \in [Range(Order) -> [Threads -> Conns \cup {NoConn}]]
  BY Channels DEF TypeOK
<1>1. CASE Refuse(c)
  BY <1>0, <1>1 DEF Refuse, Goes, Registered, ThreadsAreLive
<1>2. CASE Admit(c)
  BY <1>0, <1>2 DEF Admit, Goes, Registered, ThreadsAreLive
<1>3. CASE Join(c)
  BY <1>0, <1>3 DEF Join, Goes, Registered, ThreadsAreLive
<1>4. CASE Scan(c)
  BY <1>0, <1>4 DEF Scan, Goes, Registered, ThreadsAreLive
<1>5. CASE SendHistory(c)
  BY <1>0, <1>5 DEF SendHistory, Goes, Registered, ThreadsAreLive
<1>6. CASE Hydrate(c)
  BY <1>0, <1>6 DEF Hydrate, Goes, Reading, Registered, ThreadsAreLive
<1>7. CASE HangUp(c)
  BY <1>7 DEF HangUp, Registered, ThreadsAreLive
<1>8. CASE Leave(c)
  BY <1>0, <1>8 DEF Leave, Goes, Reading, Registered, ThreadsAreLive
<1>9. CASE Remove(c)
  <2>1. Registered'
    BY <1>0, <1>9 DEF Remove, Goes, Registered
  <2>2. ASSUME NEW k \in Range(Order), NEW t \in Threads, threads'[k][t] # NoConn
        PROVE  threads'[k][t] \in conns' /\ Kind(threads'[k][t]) = k
    <3>1. threads'[k][t] = threads[k][t] /\ threads[k][t] # c
      BY <1>0, <1>9, <2>2 DEF Remove, Without
    <3> QED BY <1>9, <2>2, <3>1 DEF Remove, ThreadsAreLive
  <2> QED BY <2>1, <2>2 DEF ThreadsAreLive
<1>10. ASSUME NEW t \in Thread, Request(c, t)
       PROVE  Registered' /\ ThreadsAreLive'
  <2>1. c \in conns
    BY <1>10 DEF Request, Reading, Registered
  <2>2. ASSUME NEW k \in Range(Order), NEW u \in Threads, threads'[k][u] # NoConn
        PROVE  threads'[k][u] \in conns' /\ Kind(threads'[k][u]) = k
    <3>1. \/ threads'[k][u] = threads[k][u]
          \/ k = Kind(c) /\ threads'[k][u] = c
      BY <1>0, <1>10 DEF Request, Claimed
    <3> QED BY <1>10, <2>1, <2>2, <3>1 DEF Request, ThreadsAreLive
  <2>3. Registered'
    BY <1>10 DEF Request, Registered
  <2> QED BY <2>2, <2>3 DEF ThreadsAreLive
<1>11. CASE TellIndex(c)
  BY <1>11 DEF TellIndex, Registered, ThreadsAreLive
<1> QED BY <1>1, <1>2, <1>3, <1>4, <1>5, <1>6, <1>7, <1>8, <1>9, <1>10, <1>11
        DEF Handler, Connection

\* The manager, the runner, the listener and the watcher.
Managing ==
    \/ \E k \in Range(Order) : FanIn(k)
    \/ \E s \in Senders : Send(s) \/ \E c \in Conns : Write(s, c)
    \/ Handle \/ Unblock \/ Emit \/ Record \/ SetIndex

\* The manager and the runner leave the connections alone.
LEMMA ManagingLeavesConnections == Managing => UNCHANGED ConnVars
BY DEF Managing, FanIn, Send, Write, Handle, Unblock, Emit, Record, SetIndex, conVars, ConnVars

\* Every step keeps connections registered and threads with live owners,
LEMMA StepKeepsOwners ==
    TypeOK /\ Registered /\ ThreadsAreLive /\ [Next]_vars => Registered' /\ ThreadsAreLive'
<1>1. ASSUME UNCHANGED ConnVars, Registered, ThreadsAreLive
      PROVE  Registered' /\ ThreadsAreLive'
  BY <1>1 DEF ConnVars, Registered, ThreadsAreLive
<1> QED BY <1>1, HandlerKeepsOwners, ManagingLeavesConnections
        DEF Next, Handler, Managing, vars, ConnVars

\* which they are at first.
LEMMA OwnersAtFirst == Init => Registered /\ ThreadsAreLive
BY DEF Init, Registered, ThreadsAreLive

\* A thread belongs to a connection that is still in its adapter's list, so a
\* reply is never sent to one that has been removed.
THEOREM OwnersAreLive == Spec => []ThreadsAreLive
<1> QED BY TypeCorrect, OwnersAtFirst, StepKeepsOwners, PTL DEF Spec

-------------------------------------------------------------------------------
(* What a client knows.                                                     *)

\* Everything the argument rests on.
Informed == TypeOK /\ Registered /\ RunnerSends /\ AllKnown

\* A connection that was sent the history of the whole log, and is not jammed, knows
\* every event of the log that was broadcast.
Knows(c) == Up(c) /\ c \in whole => \A e \in log \cap told : Known(c, e)

\* The steps of a connection: Scan takes the log into the history, SendHistory turns
\* the history into events, and the others leave what is known alone or end the
\* obligation.
LEMMA HandlerKeepsKnowledge ==
    ASSUME Informed, NEW d \in Conns, Handler(d), NEW c \in PrismConns
    PROVE  Knows(c)'
<1>0. /\ c \in Conns /\ Kind(c) = "prism"
      /\ stage \in [Conns -> Stages] /\ wire \in [Conns -> {"up", "jammed", "cut"}]
      /\ events \in [Conns -> SUBSET (1..MaxEvents)]
      /\ scanned \in [Conns -> SUBSET (1..MaxEvents)] /\ whole \subseteq Conns
  BY Channels DEF Informed, TypeOK
<1>1. Knows(c)
  BY DEF Informed, AllKnown, Knows
<1>2. UNCHANGED <<log, told, out>>
  BY DEF Handler, Connection, Refuse, Admit, Join, Scan, SendHistory, Hydrate,
         Request, HangUp, Leave, Remove, TellIndex, runVars
<1>3. ASSUME stage'[c] = stage[c] \/ stage[c] # "history", c \in whole' <=> c \in whole,
             scanned'[c] = scanned[c] \/ stage[c] # "history", events'[c] = events[c],
             wire'[c] = wire[c] \/ wire'[c] # "up"
      PROVE  Knows(c)'
  BY <1>1, <1>2, <1>3 DEF Knows, Known, Coming, Busy, Up
<1>4. CASE Refuse(d)
  BY <1>0, <1>3, <1>4 DEF Refuse, Goes, seen
<1>5. CASE Admit(d)
  BY <1>0, <1>3, <1>5 DEF Admit, Goes
<1>6. CASE Join(d)
  BY <1>0, <1>3, <1>6 DEF Join, Goes, seen
<1>7. CASE Scan(d)
  <2>1. PICK part \in SUBSET log :
            /\ scanned' = [scanned EXCEPT ![d] = part]
            /\ whole' = IF part = log THEN whole \cup {d} ELSE whole
    BY <1>7 DEF Scan
  <2>2. stage[d] = "hook" /\ stage' = [stage EXCEPT ![d] = "history"] /\ UNCHANGED <<events, wire>>
    BY <1>7 DEF Scan, Goes, seen
  <2>3. CASE c = d /\ part = log
    <3>1. scanned'[c] = log /\ stage'[c] = "history"
      BY <1>0, <2>1, <2>2, <2>3
    <3> QED BY <1>2, <3>1 DEF Knows, Known
  <2>4. CASE c # d \/ part # log
    <3>1. c \in whole' <=> c \in whole
      BY <1>0, <2>1, <2>4
    <3>2. \/ stage'[c] = stage[c] /\ scanned'[c] = scanned[c]
          \/ stage[c] # "history"
      BY <1>0, <2>1, <2>2
    <3> QED BY <1>3, <2>2, <3>1, <3>2
  <2> QED BY <2>3, <2>4
<1>8. CASE SendHistory(d)
  <2>1. CASE c = d /\ Up(c)
    <3>1. /\ events'[c] = events[c] \cup scanned[c] /\ stage[c] = "history"
          /\ UNCHANGED <<whole, wire>>
      BY <1>0, <1>8, <2>1 DEF SendHistory
    <3>2. ASSUME NEW e, Known(c, e) PROVE Known(c, e)'
      BY <1>2, <3>1, <3>2 DEF Known, Coming, Busy
    <3> QED BY <1>1, <1>2, <3>1, <3>2 DEF Knows, Up
  <2>2. CASE c = d /\ ~Up(c)
    BY <1>8, <2>2 DEF SendHistory, Knows, Up
  <2>3. CASE c # d
    BY <1>0, <1>3, <1>8, <2>3 DEF SendHistory, Goes
  <2> QED BY <2>1, <2>2, <2>3
<1>9. CASE Hydrate(d)
  BY <1>0, <1>3, <1>9 DEF Hydrate, Goes, Reading, seen
<1>10. ASSUME NEW t \in Thread, Request(d, t) PROVE Knows(c)'
  BY <1>3, <1>10 DEF Request, seen
<1>11. CASE HangUp(d)
  BY <1>0, <1>3, <1>11 DEF HangUp, seen
<1>12. CASE Leave(d)
  BY <1>0, <1>3, <1>12 DEF Leave, Goes, Reading, seen
<1>13. CASE Remove(d)
  <2>1. CASE c = d
    BY <1>0, <1>13, <2>1 DEF Remove, Knows
  <2>2. CASE c # d
    BY <1>0, <1>3, <1>13, <2>2 DEF Remove, Goes
  <2> QED BY <2>1, <2>2
<1>14. CASE TellIndex(d)
  BY <1>0, <1>3, <1>14 DEF TellIndex
<1> QED BY <1>4, <1>5, <1>6, <1>7, <1>8, <1>9, <1>10, <1>11, <1>12, <1>13, <1>14
        DEF Handler, Connection

\* A Broadcast of an event goes on as long as a connection or a channel is left,
\* and is of that event or over.
LEMMA ReturnedEvent ==
    ASSUME NEW o \in Outbound, o.msg.type = "event"
    PROVE  /\ o.todo # {} \/ o.left # <<>> => Returned(o) = o
           /\ Returned(o) = o \/ Returned(o) = Idle
BY DEF Returned

\* The runner's Send of a channel: it has all of the channel's connections to
\* write to, and the other channel still to do.
LEMMA SendKeepsKnowledge ==
    ASSUME Informed, Send("runner")
    PROVE  RunnerSends' /\ \A c \in PrismConns : Knows(c)'
<1> DEFINE b == out["runner"]
           k == Head(b.left)
           o == NextChannel(b)
<1>1. /\ b \in Outbound /\ b.msg.type = "event" /\ b.msg.of \in told
      /\ b.todo = {} /\ b.left \in Seq(Channel) /\ b.left # <<>>
      /\ out \in [Senders -> Outbound] /\ b.msg \in Message
  BY Channels DEF Send, Informed, RunnerSends, TypeOK, Senders, Outbound
<1>2. k \in Channel /\ Tail(b.left) \in Seq(Channel)
      /\ Range(b.left) = {k} \cup Range(Tail(b.left))
  <2>1. k \in Channel /\ Tail(b.left) \in Seq(Channel)
        /\ Len(b.left) \in Nat /\ Len(b.left) > 0 /\ Len(Tail(b.left)) = Len(b.left) - 1
        /\ \A i \in 1..Len(Tail(b.left)) : Tail(b.left)[i] = b.left[i+1]
    BY <1>1, HeadTailProperties, LenProperties, EmptySeq
  <2>2. DOMAIN b.left = 1..Len(b.left) /\ DOMAIN Tail(b.left) = 1..(Len(b.left) - 1)
    BY <1>1, <2>1, LenProperties
  <2>3. k = b.left[1]
    BY <1>1
  <2>4. ASSUME NEW i \in 1..Len(b.left) PROVE b.left[i] \in {k} \cup Range(Tail(b.left))
    <3>1. CASE i = 1
      BY <2>3, <3>1
    <3>2. CASE i # 1
      <4>1. i - 1 \in 1..(Len(b.left) - 1) /\ Tail(b.left)[i - 1] = b.left[i]
        BY <2>1, <2>2, <3>2
      <4> QED BY <2>2, <4>1 DEF Range
    <3> QED BY <3>1, <3>2
  <2>5. Range(b.left) \subseteq {k} \cup Range(Tail(b.left))
    BY <2>2, <2>4 DEF Range
  <2>6. k \in Range(b.left) /\ Range(Tail(b.left)) \subseteq Range(b.left)
    BY <2>1, <2>2, <2>3 DEF Range
  <2> QED BY <2>1, <2>5, <2>6
<1>3. o = [b EXCEPT !.todo = Members(k), !.left = Tail(b.left)]
  BY <1>1 DEF NextChannel, Rest, Targets
<1>4. /\ o.msg = b.msg /\ o.todo = Members(k) /\ o.left = Tail(b.left)
      /\ o \in Outbound
  <2>1. Members(k) \in SUBSET Conns
    BY DEF Informed, TypeOK, Members
  <2> QED BY <1>1, <1>2, <1>3, <2>1, Channels DEF Outbound
<1>5. out'["runner"] = Returned(o)
      /\ UNCHANGED <<log, told, stage, wire, conns, scanned, whole, events>>
  BY <1>1 DEF Send, Senders, runVars, conVars, seen
<1> HIDE DEF o, b, k
<1>6. RunnerSends'
  <2>1. Returned(o) = o \/ Returned(o) = Idle
    BY <1>1, <1>4, ReturnedEvent
  <2> QED BY <1>1, <1>4, <1>5, <2>1 DEF RunnerSends, Busy, Idle, Silence
<1>7. ASSUME NEW c \in PrismConns, Up(c), c \in whole, NEW e \in log \cap told
      PROVE  Known(c, e)'
  <2>1. Known(c, e)
    BY <1>7 DEF Informed, AllKnown
  <2>2. CASE Coming(c, e)
    <3>1. "prism" \in Range(b.left) /\ b.msg.of = e
      BY <1>1, <2>2 DEF Coming, b
    <3>2. c \in Members("prism")
      BY <1>7, Channels DEF Informed, Registered, Members
    <3>3. c \in o.todo \/ "prism" \in Range(o.left)
      BY <1>2, <1>4, <3>1, <3>2
    <3>4. o.todo # {} \/ o.left # <<>>
      <4>1. Range(<<>>) = {}
        BY DEF Range
      <4> QED BY <3>3, <4>1
    <3>5. out'["runner"] = o
      <4>1. o.msg.type = "event"
        BY <1>1, <1>4
      <4>2. Returned(o) = o
        BY <1>4, <3>4, <4>1, ReturnedEvent
      <4> QED BY <1>5, <4>2
    <3> QED BY <1>1, <1>4, <3>1, <3>3, <3>5 DEF Known, Coming, Busy
  <2>3. CASE e \in events[c] \/ (stage[c] = "history" /\ e \in scanned[c])
    BY <1>5, <2>3 DEF Known
  <2> QED BY <2>1, <2>2, <2>3 DEF Known
<1> QED BY <1>5, <1>6, <1>7 DEF Knows, Up

\* One write of the runner: the client gets the event, or its socket is jammed.
LEMMA WriteKeepsKnowledge ==
    ASSUME Informed, NEW d \in Conns, Write("runner", d)
    PROVE  RunnerSends' /\ \A c \in PrismConns : Knows(c)'
<1> DEFINE b == out["runner"]
           o == Written(b, d)
<1>0. /\ out \in [Senders -> Outbound]
      /\ wire \in [Conns -> {"up", "jammed", "cut"}]
      /\ events \in [Conns -> SUBSET (1..MaxEvents)]
  BY DEF Informed, TypeOK, Outbound
<1>1. /\ b \in Outbound /\ d \in b.todo
      /\ out'["runner"] = Returned(o)
      /\ UNCHANGED <<log, told, stage, conns, scanned, whole>>
  BY <1>0 DEF Write, Senders, runVars
<1>2. /\ o \in Outbound /\ o.msg = b.msg /\ o.todo = b.todo \ {d} /\ o.left = b.left
  BY <1>1 DEF Written, Outbound
<1>3. /\ \A c \in Conns : events[c] \subseteq events'[c]
      /\ \A c \in Conns : wire'[c] = "up" => wire[c] = "up"
      /\ wire'[d] = "up" /\ b.msg.type = "event" => b.msg.of \in events'[d]
  <2>1. \/ events' = events
        \/ events' = [events EXCEPT ![d] = @ \cup {b.msg.of}]
    BY DEF Write
  <2>2. \/ wire' = wire
        \/ wire' = [wire EXCEPT ![d] = "jammed"]
    BY DEF Write
  <2>3. \A c \in Conns : events[c] \subseteq events'[c]
    BY <1>0, <2>1
  <2>4. \A c \in Conns : wire'[c] = "up" => wire[c] = "up"
    BY <1>0, <2>2
  <2>5. ASSUME wire'[d] = "up", b.msg.type = "event" PROVE b.msg.of \in events'[d]
    <3>1. events' = [events EXCEPT ![d] = @ \cup {b.msg.of}]
      BY <1>0, <2>5 DEF Write, Up
    <3> QED BY <1>0, <3>1
  <2> QED BY <2>3, <2>4, <2>5
<1> HIDE DEF o, b
<1>4. CASE b.msg.type = "none"
  <2>1. ~Busy("runner")
    BY <1>4 DEF Busy, b
  <2>2. Returned(o) = o \/ Returned(o) = Idle
    BY <1>2, <1>4 DEF Returned
  <2>3. RunnerSends'
    BY <1>1, <1>2, <1>4, <2>2 DEF RunnerSends, Busy, Idle, Silence
  <2>4. ASSUME NEW c \in PrismConns PROVE Knows(c)'
    <3>1. Knows(c) /\ c \in Conns
      BY Channels DEF Informed, AllKnown, Knows
    <3>2. \A e : ~Coming(c, e)
      BY <2>1 DEF Coming
    <3> QED BY <1>1, <1>3, <3>1, <3>2 DEF Knows, Known, Up
  <2> QED BY <2>3, <2>4
<1>5. CASE b.msg.type # "none"
  <2>1. b.msg.type = "event" /\ b.msg.of \in told
    BY <1>5 DEF Informed, RunnerSends, Busy, b
  <2>2. o.msg.type = "event"
    BY <1>2, <2>1
  <2>3. Returned(o) = o \/ Returned(o) = Idle
    BY <1>2, <2>2, ReturnedEvent
  <2>4. RunnerSends'
    BY <1>1, <1>2, <2>1, <2>3 DEF RunnerSends, Busy, Idle, Silence
  <2>5. ASSUME NEW c \in PrismConns, c \in whole, wire'[c] = "up", NEW e \in log \cap told
        PROVE  Known(c, e)'
    <3>1. Known(c, e) /\ c \in Conns
      BY <1>3, <2>5, Channels DEF Informed, AllKnown, Up
    <3>2. CASE e \in events[c] \/ (stage[c] = "history" /\ e \in scanned[c])
      BY <1>1, <1>3, <3>1, <3>2 DEF Known
    <3>3. CASE Coming(c, e) /\ c = d
      BY <1>3, <2>1, <2>5, <3>3 DEF Known, Coming, b
    <3>4. CASE Coming(c, e) /\ c # d
      <4>1. (c \in o.todo \/ "prism" \in Range(o.left)) /\ o.msg.of = e
        BY <1>2, <3>4 DEF Coming, b
      <4>2. o.todo # {} \/ o.left # <<>>
        <5>1. Range(<<>>) = {}
          BY DEF Range
        <5> QED BY <4>1, <5>1
      <4>3. Returned(o) = o
        BY <1>2, <2>2, <4>2, ReturnedEvent
      <4> QED BY <1>1, <2>2, <4>1, <4>3 DEF Known, Coming, Busy
    <3> QED BY <3>1, <3>2, <3>3, <3>4 DEF Known
  <2> QED BY <1>1, <2>4, <2>5 DEF Knows, Up
<1> QED BY <1>4, <1>5

\* An event that is broadcast is on its way to the connections that are there; the
\* earlier ones were no longer on their way when the runner came to it.  An event that
\* is appended alone was never broadcast.
LEMMA EmitKeepsKnowledge ==
    ASSUME Informed, Emit \/ Record
    PROVE  RunnerSends' /\ \A c \in PrismConns : Knows(c)'
<1>0. /\ out \in [Senders -> Outbound] /\ "runner" \in Senders
      /\ made \in Nat /\ log \subseteq 1..made /\ told \subseteq 1..made
  BY ChannelConstants DEF Informed, TypeOK, Outbound, Senders, ChannelConstants
<1>1. made + 1 \notin log \cup told
  BY <1>0
<1>2. CASE Emit
  <2>1. /\ out'["runner"] = Starts([type |-> "event", of |-> made + 1])
        /\ log' \subseteq log \cup {made + 1} /\ told' = told \cup {made + 1}
        /\ UNCHANGED <<stage, wire, scanned, whole, events>> /\ ~Busy("runner")
    BY <1>0, <1>2 DEF Emit, conVars, seen
  <2>2. RunnerSends' /\ Busy("runner")'
    BY <2>1 DEF RunnerSends, Busy, Starts
  <2>3. ASSUME NEW c \in PrismConns, Up(c), c \in whole, NEW e \in log' \cap told'
        PROVE  Known(c, e)'
    <3>1. CASE e = made + 1
      <4>1. "prism" \in Range(out'["runner"].left) /\ out'["runner"].msg.of = e
        BY <2>1, <3>1, Channels DEF Starts, Channel
      <4> QED BY <2>2, <4>1 DEF Known, Coming
    <3>2. CASE e # made + 1
      <4>1. e \in log \cap told
        BY <2>1, <2>3, <3>2
      <4>2. Known(c, e) /\ ~Coming(c, e)
        BY <2>1, <2>3, <4>1 DEF Informed, AllKnown, Coming
      <4> QED BY <2>1, <4>2 DEF Known
    <3> QED BY <3>1, <3>2
  <2> QED BY <2>1, <2>2, <2>3 DEF Knows, Up
<1>3. CASE Record
  <2>1. log' \cap told' = log \cap told /\ UNCHANGED <<told, out, stage, wire, scanned, whole, events>>
    BY <1>1, <1>3 DEF Record, conVars, seen
  <2> QED BY <2>1 DEF Informed, AllKnown, RunnerSends, Busy, Knows, Known, Coming, Up
<1> QED BY <1>2, <1>3

\* The listener's broadcasts are none of the runner's.
LEMMA ListenerKeepsKnowledge ==
    ASSUME Informed,
           Send("listener") \/ (\E d \in Conns : Write("listener", d)) \/ Handle \/ Unblock
    PROVE  RunnerSends' /\ \A c \in PrismConns : Knows(c)'
<1>0. /\ out \in [Senders -> Outbound]
      /\ wire \in [Conns -> {"up", "jammed", "cut"}]
      /\ events \in [Conns -> SUBSET (1..MaxEvents)]
      /\ Senders = {"runner", "listener"}
  BY DEF Informed, TypeOK, Outbound, Senders
<1>1. /\ out'["runner"] = out["runner"] /\ UNCHANGED <<log, told, stage, scanned, whole>>
  BY <1>0 DEF Send, Write, Handle, Unblock, runVars, conVars
<1>2. \A c \in Conns : /\ events[c] \subseteq events'[c]
                       /\ wire'[c] = "up" => wire[c] = "up"
  <2>1. CASE Send("listener") \/ Handle \/ Unblock
    BY <2>1 DEF Send, Handle, Unblock, conVars, seen
  <2>2. ASSUME NEW d \in Conns, Write("listener", d)
        PROVE  \A c \in Conns : /\ events[c] \subseteq events'[c]
                                /\ wire'[c] = "up" => wire[c] = "up"
    <3> DEFINE n == out["listener"].msg.of
    <3>1. events' = events \/ events' = [events EXCEPT ![d] = @ \cup {n}]
      BY <2>2 DEF Write
    <3>2. wire' = wire \/ wire' = [wire EXCEPT ![d] = "jammed"]
      BY <2>2 DEF Write
    <3> QED BY <1>0, <3>1, <3>2
  <2> QED BY <2>1, <2>2
<1>3. RunnerSends'
  BY <1>1 DEF Informed, RunnerSends, Busy
<1>4. ASSUME NEW c \in PrismConns PROVE Knows(c)'
  <2>1. Knows(c) /\ c \in Conns
    BY Channels DEF Informed, AllKnown, Knows
  <2> QED BY <1>1, <1>2, <2>1 DEF Knows, Known, Coming, Busy, Up
<1> QED BY <1>3, <1>4

\* Every step keeps a client informed of all that was sent while it was listed,
LEMMA StepKeepsInformed == Informed /\ ThreadsAreLive /\ [Next]_vars => Informed'
<1> SUFFICES ASSUME Informed, ThreadsAreLive, [Next]_vars PROVE Informed'
  OBVIOUS
<1>0. TypeOK' /\ Registered'
  BY StepKeepsTypes, StepKeepsOwners DEF Informed
<1> SUFFICES RunnerSends' /\ \A c \in PrismConns : Knows(c)'
  BY <1>0 DEF Informed, AllKnown, Knows
<1>1. ASSUME NEW d \in Conns, Handler(d)
      PROVE  RunnerSends' /\ \A c \in PrismConns : Knows(c)'
  <2>1. UNCHANGED <<told, out>>
    BY <1>1 DEF Handler, Connection, Refuse, Admit, Join, Scan, SendHistory, Hydrate,
           Request, HangUp, Leave, Remove, TellIndex, runVars
  <2> QED BY <1>1, <2>1, HandlerKeepsKnowledge DEF Informed, RunnerSends, Busy
<1>2. CASE (\E k \in Range(Order) : FanIn(k)) \/ SetIndex \/ UNCHANGED vars
  <2>1. UNCHANGED <<log, told, out, stage, scanned, whole, events, wire>>
    BY <1>2 DEF FanIn, SetIndex, vars, runVars, conVars, seen
  <2> QED BY <2>1 DEF Informed, RunnerSends, Busy, AllKnown, Knows, Known, Coming, Up
<1>3. CASE \E s \in Senders : Send(s) \/ \E d \in Conns : Write(s, d)
  BY <1>3, SendKeepsKnowledge, WriteKeepsKnowledge, ListenerKeepsKnowledge DEF Senders
<1> QED BY <1>1, <1>2, <1>3, EmitKeepsKnowledge, ListenerKeepsKnowledge DEF Next, Handler

\* which it is at first.
LEMMA InformedAtFirst == Init => RunnerSends /\ AllKnown
<1> SUFFICES ASSUME Init PROVE RunnerSends /\ AllKnown
  OBVIOUS
<1>1. log = {} /\ ~Busy("runner")
  BY DEF Init, Busy, Idle, Silence, Senders
<1> QED BY <1>1 DEF AllKnown, RunnerSends

\* The inductive invariant of connections, sends and what clients know holds in
\* every reachable state.
THEOREM AlwaysInformed == Spec => [](Informed /\ ThreadsAreLive)
<1>1. Init /\ TypeOK => Informed /\ ThreadsAreLive
  BY OwnersAtFirst, InformedAtFirst DEF Informed
<1>2. Informed /\ ThreadsAreLive /\ [Next]_vars => (Informed /\ ThreadsAreLive)'
  BY StepKeepsInformed, StepKeepsOwners DEF Informed
<1> QED BY <1>1, <1>2, TypeCorrect, PTL DEF Spec

\* A Prism client that was sent the history of the whole log knows, whenever the
\* runner is between two broadcasts, every event in the log that was ever broadcast,
\* however it came to connect: the history and the broadcasts leave no gap between
\* them.  It says nothing of the events that are appended and not broadcast.
THEOREM HistoryLeavesNoGap == Spec => []NothingMissed
<1>1. Informed => NothingMissed
  <2> SUFFICES ASSUME Informed, NEW c \in PrismConns, Reading(c), Up(c), c \in whole,
                      ~Busy("runner"), NEW e \in log \cap told
               PROVE  e \in events[c]
    BY DEF NothingMissed
  <2>1. Known(c, e) /\ ~Coming(c, e)
    BY DEF Informed, AllKnown, Coming
  <2> QED BY <2>1 DEF Known, Reading
<1> QED BY <1>1, AlwaysInformed, PTL

-------------------------------------------------------------------------------
(* The floor.  Everybody calls Transition; what matters is that only the      *)
(* transcription loop asks for UserSpeaking and BargeInAbort.                 *)

\* A refused transition leaves the floor as it was, and an allowed one sets it.
LEMMA TransitionSets ==
    ASSUME NEW to \in Voice!Floor, Voice!Transition(to), floor \in Voice!Floor
    PROVE  floor' \in Voice!Floor /\ (floor' = to \/ floor' = floor)
BY DEF Voice!Transition

\* The two transitions that take the floor out of the user's hands.
LEMMA WaysOut ==
    /\ <<"BargeInAbort", "UserSpeaking">> \in Voice!Allowed
    /\ <<"UserSpeaking", "CommitPending">> \in Voice!Allowed
BY DEF Voice!Allowed

\* What the transcription loop does, but for the call that starts a request.
VoiceLoop == Voice!Doubtful \/ Voice!Hear \/ Voice!Listens

\* The transcription loop keeps Held: it waits only with the floor open.
LEMMA LoopHolds == ASSUME Voice!TypeOK, Voice!Held, VoiceLoop PROVE Voice!Held'
<1>0. floor \in Voice!Floor /\ Voice!Floor = {"Idle", "UserSpeaking", "CommitPending",
                                   "OrchestratorSpeaking", "BargeInAbort"}
  BY DEF Voice!TypeOK, Voice!Floor
<1>1. CASE Voice!Doubtful \/ Voice!Hear
  BY <1>0, <1>1 DEF Voice!Doubtful, Voice!Hear, Voice!Held, Voice!Transition, Voice!sttVars
<1>2. CASE Voice!Look \/ Voice!Cut \/ Voice!Onset \/ Voice!HandOver
  BY <1>2 DEF Voice!Look, Voice!Cut, Voice!Onset, Voice!HandOver, Voice!Goes, Voice!Held
<1>3. CASE Voice!BargeIn
  BY <1>0, <1>3 DEF Voice!BargeIn, Voice!Goes, Voice!Held, Voice!Transition, Voice!Moves
<1>4. CASE Voice!Recover
  <2>1. floor = "BargeInAbort" => floor' = "UserSpeaking"
    BY <1>4, WaysOut DEF Voice!Recover, Voice!Transition, Voice!Moves
  <2> QED BY <1>0, <1>4, <2>1, TransitionSets DEF Voice!Recover, Voice!Goes, Voice!Held
<1>5. CASE Voice!TakeFloor
  BY <1>0, <1>5, TransitionSets DEF Voice!TakeFloor, Voice!Goes, Voice!Held
<1>6. CASE Voice!Commit
  <2>1. floor = "UserSpeaking" => floor' = "CommitPending"
    BY <1>6, WaysOut DEF Voice!Commit, Voice!Transition, Voice!Moves
  <2> QED BY <1>0, <1>6, <2>1, TransitionSets DEF Voice!Commit, Voice!Goes, Voice!Held
<1> QED BY <1>1, <1>2, <1>3, <1>4, <1>5, <1>6 DEF VoiceLoop, Voice!Listens

\* Requests, the orchestrator's stream and the manager.
VoiceOthers ==
    \/ \E r \in Voice!Turns : Voice!Requests(r)
    \/ Voice!Delta \/ Voice!SpeakText \/ Voice!TextDone \/ Voice!ReleaseText \/ Voice!Take

\* So do all other steps.
LEMMA OthersHold == ASSUME Voice!TypeOK, Voice!Held, VoiceOthers PROVE Voice!Held'
<1>0. floor \in Voice!Floor /\ {"OrchestratorSpeaking", "Idle"} \subseteq Voice!Floor
  BY DEF Voice!TypeOK, Voice!Floor
<1>1. UNCHANGED stt
  BY
     DEF VoiceOthers, Voice!Requests, Voice!Register, Voice!Ask, Voice!Refused, Voice!Respond,
            Voice!Delegate, Voice!FirstDelta, Voice!Speak, Voice!Answered, Voice!Done,
            Voice!Release, Voice!Break, Voice!Stop, Voice!Delta, Voice!SpeakText,
            Voice!TextDone, Voice!ReleaseText, Voice!Take, Voice!sttVars
<1>2. \/ UNCHANGED floor
      \/ Voice!Transition("OrchestratorSpeaking") \/ Voice!Transition("Idle")
  BY
     DEF VoiceOthers, Voice!Requests, Voice!Register, Voice!Ask, Voice!Refused, Voice!Respond,
            Voice!Delegate, Voice!FirstDelta, Voice!Speak, Voice!Answered, Voice!Done,
            Voice!Release, Voice!Break, Voice!Stop, Voice!Delta, Voice!SpeakText,
            Voice!TextDone, Voice!ReleaseText, Voice!Take
<1> QED BY <1>0, <1>1, <1>2, TransitionSets DEF Voice!Held

-------------------------------------------------------------------------------
(* Types.                                                                     *)

\* Appending to the history and cutting its two oldest entries.
LEMMA RememberedProperties ==
    ASSUME NEW h \in Seq(Voice!Entry), NEW m \in Voice!Entry
    PROVE  LET longer == Append(h, m)
               kept == Voice!Remembered(h, m)
           IN  /\ kept \in Seq(Voice!Entry) /\ kept # <<>> /\ Voice!Last(kept) = m
               /\ \E d \in Nat :
                    \A i \in DOMAIN kept : /\ i + d \in DOMAIN longer
                                           /\ kept[i] = longer[i + d]
                                           /\ i + d = Len(longer) => i = Len(kept)
<1> DEFINE longer == Append(h, m)
           kept == Voice!Remembered(h, m)
           n == Len(longer)
<1>1. /\ longer \in Seq(Voice!Entry) /\ n = Len(h) + 1 /\ Len(h) \in Nat /\ n \in Nat
      /\ longer[n] = m /\ DOMAIN longer = 1..n
  BY AppendProperties, LenProperties
<1>2. HistoryCap \in Nat /\ HistoryCap >= 2
  BY VoiceConstants DEF VoiceConstants
<1>3. CASE n > HistoryCap
  <2>1. kept = SubSeq(longer, 3, n)
    BY <1>3 DEF Voice!Remembered
  <2>2. \A i \in 3..n : longer[i] \in Voice!Entry
    BY <1>1, ElementOfSeq
  <2>3. /\ kept \in Seq(Voice!Entry) /\ Len(kept) = n - 2 /\ n - 2 >= 1
        /\ \A i \in 1..(n - 2) : kept[i] = longer[i + 2]
    <3>1. n - 3 + 1 = n - 2 /\ 3 <= n /\ 3 \in Int /\ n \in Int
      BY <1>1, <1>2, <1>3
    <3>2. /\ SubSeq(longer, 3, n) \in Seq(Voice!Entry)
          /\ Len(SubSeq(longer, 3, n)) = IF 3 <= n THEN n - 3 + 1 ELSE 0
          /\ \A i \in 1..(n - 3 + 1) : SubSeq(longer, 3, n)[i] = longer[3 + i - 1]
      BY <2>2, <3>1, SubSeqProperties
    <3>3. \A i \in 1..(n - 2) : 3 + i - 1 = i + 2
      OBVIOUS
    <3> QED BY <2>1, <3>1, <3>2, <3>3
  <2>4. DOMAIN kept = 1..(n - 2)
    BY <2>3, LenProperties
  <2>5. kept # <<>> /\ Voice!Last(kept) = m
    <3>1. kept[n - 2] = longer[n]
      BY <1>1, <2>3
    <3> QED BY <1>1, <2>3, <3>1, EmptySeq DEF Voice!Last
  <2>6. \A i \in DOMAIN kept : /\ i + 2 \in DOMAIN longer
                               /\ kept[i] = longer[i + 2]
                               /\ i + 2 = n => i = Len(kept)
    BY <1>1, <2>3, <2>4
  <2> HIDE DEF longer, kept
  <2>7. 2 \in Nat
    OBVIOUS
  <2> QED BY <2>3, <2>5, <2>6, <2>7 DEF longer, kept
<1>4. CASE ~(n > HistoryCap)
  <2>1. kept = longer
    BY <1>4 DEF Voice!Remembered
  <2>2. kept # <<>> /\ Voice!Last(kept) = m
    BY <1>1, <2>1, EmptySeq DEF Voice!Last
  <2>3. \A i \in DOMAIN kept : /\ i + 0 \in DOMAIN longer
                               /\ kept[i] = longer[i + 0]
                               /\ i + 0 = n => i = Len(kept)
    BY <1>1, <2>1
  <2> HIDE DEF longer, kept
  <2>4. 0 \in Nat
    OBVIOUS
  <2> QED BY <1>1, <2>1, <2>2, <2>3, <2>4 DEF longer, kept
<1> QED BY <1>3, <1>4

\* A question and an answer are entries of the history.
LEMMA EntryTypes ==
    \A r \in Voice!Turns : Voice!User(r) \in Voice!Entry /\ Voice!Reply(r) \in Voice!Entry
BY DEF Voice!User, Voice!Reply, Voice!Entry

\* The transcription loop keeps the types.
LEMMA LoopKeepsTypes == ASSUME Voice!TypeOK, Voice!HandedOver, VoiceLoop PROVE Voice!TypeOK'
<1>0. /\ floor \in Voice!Floor /\ turn \in 0..MaxTurns /\ llm \in {0} \cup Voice!Turns
      /\ cancelled \subseteq Voice!Turns /\ MaxTurns \in Nat /\ QueueCap \in Nat
      /\ queue \in 0..QueueCap
      /\ {"Idle", "UserSpeaking", "CommitPending", "OrchestratorSpeaking",
          "BargeInAbort"} \subseteq Voice!Floor
  BY VoiceConstants, ChannelConstants
     DEF Voice!TypeOK, VoiceConstants, ChannelConstants, Voice!Floor
<1>1. CASE Voice!Doubtful
  BY <1>0, <1>1
     DEF Voice!Doubtful, Voice!TypeOK, Voice!Transition, Voice!sttVars, Voice!llmVars,
         Voice!textVars
<1>2. CASE Voice!Hear
  <2>1. turn' \in 0..MaxTurns /\ cancelled' \subseteq Voice!Turns
    BY <1>0, <1>2 DEF Voice!Hear, Voice!Superseded, Voice!Turns
  <2> QED BY <1>2, <2>1 DEF Voice!Hear, Voice!TypeOK, Voice!textVars
<1>3. CASE Voice!Look \/ Voice!Cut \/ Voice!Onset
  BY <1>3
     DEF Voice!Look, Voice!Cut, Voice!Onset, Voice!Goes, Voice!TypeOK, Voice!llmVars,
         Voice!textVars
<1>4. CASE Voice!BargeIn \/ Voice!Recover \/ Voice!TakeFloor \/ Voice!Commit
  BY <1>0, <1>4
     DEF Voice!BargeIn, Voice!Recover, Voice!TakeFloor, Voice!Commit, Voice!Goes,
         Voice!TypeOK, Voice!Transition,
                    Voice!llmVars, Voice!textVars
<1>5. CASE Voice!HandOver
  <2>1. turn \in Voice!Turns
    BY <1>5 DEF Voice!HandOver, Voice!HandedOver
  <2>0. Voice!Enqueue \/ UNCHANGED queue
    BY <1>5 DEF Voice!HandOver
  <2>2. queue' \in 0..QueueCap
    BY <1>0, <2>0 DEF Voice!Enqueue
  <2> QED BY <1>5, <2>1, <2>2 DEF Voice!HandOver, Voice!Goes, Voice!TypeOK, Voice!textVars
<1> QED BY <1>1, <1>2, <1>3, <1>4, <1>5 DEF VoiceLoop, Voice!Listens

\* So do all other steps.
LEMMA OthersKeepTypes == ASSUME Voice!TypeOK, VoiceOthers PROVE Voice!TypeOK'
<1>0. /\ floor \in Voice!Floor /\ MaxTurns \in Nat /\ QueueCap \in Nat /\ queue \in 0..QueueCap
      /\ MaxDeltas \in Nat /\ deltas \in 0..MaxDeltas
      /\ {"Idle", "OrchestratorSpeaking"} \subseteq Voice!Floor
  BY VoiceConstants, ChannelConstants
     DEF Voice!TypeOK, VoiceConstants, ChannelConstants, Voice!Floor
<1>1. ASSUME NEW r \in Voice!Turns, Voice!Requests(r) PROVE Voice!TypeOK'
  <2>1. CASE Voice!Register(r)
    BY <2>1 DEF Voice!Register, Voice!To, Voice!TypeOK, Voice!sttVars, Voice!textVars
  <2>2. CASE Voice!Ask(r)
    <3> DEFINE messages == Voice!Remembered(history, Voice!User(r))
    <3>1. messages \in Seq(Voice!Entry)
      BY EntryTypes, RememberedProperties DEF Voice!TypeOK
    <3>2. history' = messages /\ asked' = [asked EXCEPT ![r] = messages]
      BY <2>2 DEF Voice!Ask
    <3> HIDE DEF messages
    <3> QED BY <2>2, <3>1, <3>2 DEF Voice!Ask, Voice!To, Voice!TypeOK, Voice!sttVars, Voice!textVars
  <2>3. CASE Voice!Refused(r) \/ Voice!Delegate(r)
    <3>0. Voice!Enqueue
      BY <2>3 DEF Voice!Refused, Voice!Delegate
    <3>1. queue' \in 0..QueueCap
      BY <1>0, <3>0 DEF Voice!Enqueue
    <3> QED BY <2>3, <3>1
       DEF Voice!Refused, Voice!Delegate, Voice!To, Voice!TypeOK, Voice!sttVars,
           Voice!llmVars, Voice!textVars
  <2>4. CASE Voice!Respond(r) \/ Voice!Break(r) \/ Voice!Stop(r)
    BY <2>4
       DEF Voice!Respond, Voice!Break, Voice!Stop, Voice!To, Voice!TypeOK, Voice!sttVars,
           Voice!textVars
  <2>5. CASE Voice!FirstDelta(r) \/ Voice!Done(r)
    BY <1>0, <2>5
       DEF Voice!FirstDelta, Voice!Done, Voice!To, Voice!Sees, Voice!TypeOK, Voice!sttVars,
           Voice!textVars
  <2>6. CASE Voice!Speak(r) \/ Voice!Release(r)
    BY <1>0, <2>6
       DEF Voice!Speak, Voice!Release, Voice!To, Voice!Transition, Voice!TypeOK,
           Voice!sttVars, Voice!textVars
  <2>7. CASE Voice!Answered(r)
    <3>1. Voice!Remembered(history, Voice!Reply(r)) \in Seq(Voice!Entry)
      BY EntryTypes, RememberedProperties DEF Voice!TypeOK
    <3> QED BY <2>7, <3>1 DEF Voice!Answered, Voice!To, Voice!TypeOK, Voice!sttVars, Voice!textVars
  <2> QED BY <1>1, <2>1, <2>2, <2>3, <2>4, <2>5, <2>6, <2>7 DEF Voice!Requests
<1>2. CASE Voice!Delta \/ Voice!TextDone
  <2>1. deltas' \in 0..MaxDeltas
    BY <1>0, <1>2 DEF Voice!Delta, Voice!TextDone
  <2> QED BY <1>0, <1>2, <2>1
     DEF Voice!Delta, Voice!TextDone, Voice!Sees, Voice!TypeOK, Voice!sttVars, Voice!llmVars
<1>3. CASE Voice!SpeakText \/ Voice!ReleaseText
  BY <1>0, <1>3
     DEF Voice!SpeakText, Voice!ReleaseText, Voice!Transition, Voice!TypeOK, Voice!sttVars,
         Voice!llmVars
<1>4. CASE Voice!Take
  <2>1. queue' \in 0..QueueCap
    BY <1>0, <1>4 DEF Voice!Take
  <2> QED BY <1>4, <2>1 DEF Voice!Take, Voice!TypeOK, Voice!sttVars, Voice!llmVars, Voice!textVars
<1> QED BY <1>1, <1>2, <1>3, <1>4 DEF VoiceOthers

-------------------------------------------------------------------------------
(* The history of the conversation.                                           *)

\* A turn is handed over once: the loop has left it before its request begins.
LEMMA StepKeepsHandedOver ==
    ASSUME Voice!TypeOK, Voice!HandedOver, VoiceLoop \/ VoiceOthers
    PROVE  Voice!HandedOver'
<1>0. /\ turn \in 0..MaxTurns /\ MaxTurns \in Nat
      /\ req \in [Voice!Turns -> {"none", "spawned", "registered", "asked", "streaming",
                            "first", "speaking", "answered", "done", "over"}]
  BY VoiceConstants, ChannelConstants DEF Voice!TypeOK, VoiceConstants, ChannelConstants
<1>1. CASE \/ Voice!Doubtful \/ Voice!Look \/ Voice!BargeIn \/ Voice!Cut
           \/ Voice!Recover \/ Voice!Onset \/ Voice!TakeFloor \/ Voice!Commit
  <2>1. UNCHANGED <<turn, req>> /\ (stt' # "idle" => stt # "idle" \/ UNCHANGED stt)
        /\ (stt' = "idle" <=> stt = "idle")
    BY <1>1
       DEF Voice!Doubtful, Voice!Look, Voice!BargeIn, Voice!Cut, Voice!Recover, Voice!Onset,
           Voice!TakeFloor, Voice!Commit, Voice!Goes,
                Voice!sttVars, Voice!llmVars
  <2> QED BY <2>1 DEF Voice!HandedOver
<1>2. CASE Voice!Hear
  <2>1. turn' = turn + 1 /\ turn < MaxTurns /\ UNCHANGED req
    BY <1>2 DEF Voice!Hear
  <2>2. turn' \in Voice!Turns
    BY <1>0, <2>1 DEF Voice!Turns
  <2>3. ASSUME NEW r \in Voice!Turns, req[r] # "none" PROVE r < turn + 1
    BY <1>0, <2>3 DEF Voice!HandedOver, Voice!Turns
  <2> QED BY <2>1, <2>2, <2>3 DEF Voice!HandedOver
<1>3. CASE Voice!HandOver
  <2>1. stt' = "idle" /\ UNCHANGED turn /\ turn \in Voice!Turns
        /\ (UNCHANGED req \/ req' = [req EXCEPT ![turn] = "spawned"])
    BY <1>3 DEF Voice!HandOver, Voice!Goes, Voice!HandedOver
  <2> QED BY <1>0, <2>1 DEF Voice!HandedOver
<1>4. CASE VoiceOthers
  <2>1. UNCHANGED <<turn, stt>>
    BY <1>4
       DEF VoiceOthers, Voice!Requests, Voice!Register, Voice!Ask, Voice!Refused, Voice!Respond,
              Voice!Delegate, Voice!FirstDelta, Voice!Speak, Voice!Answered, Voice!Done,
              Voice!Release, Voice!Break, Voice!Stop, Voice!Delta, Voice!SpeakText,
              Voice!TextDone, Voice!ReleaseText, Voice!Take, Voice!sttVars
  <2>2. ASSUME NEW r \in Voice!Turns, Voice!Requests(r)
        PROVE  UNCHANGED req \/ (req[r] # "none" /\ \E to : Voice!To(r, to))
    BY <2>2
       DEF Voice!Requests, Voice!Register, Voice!Ask, Voice!Refused, Voice!Respond,
              Voice!Delegate, Voice!FirstDelta, Voice!Speak, Voice!Answered, Voice!Done,
              Voice!Release, Voice!Break, Voice!Stop, Voice!llmVars, Voice!At
  <2>3. ASSUME NEW r \in Voice!Turns, req[r] # "none", NEW to, Voice!To(r, to)
        PROVE  Voice!HandedOver'
    BY <1>0, <2>1, <2>3 DEF Voice!HandedOver, Voice!To
  <2>4. CASE UNCHANGED req
    BY <2>1, <2>4 DEF Voice!HandedOver
  <2>5. CASE Voice!Delta \/ Voice!SpeakText \/ Voice!TextDone \/ Voice!ReleaseText \/ Voice!Take
    BY <2>4, <2>5
       DEF Voice!Delta, Voice!SpeakText, Voice!TextDone, Voice!ReleaseText, Voice!Take,
           Voice!llmVars
  <2> QED BY <1>4, <2>2, <2>3, <2>4, <2>5 DEF VoiceOthers
<1> QED BY <1>1, <1>2, <1>3, <1>4 DEF VoiceLoop, Voice!Listens

\* The part of QuestionsLast about one history.
AnswersFollow ==
    \A i, j \in DOMAIN history :
        history[i] = Voice!Reply(history[j].turn) /\ history[j].role = "user" => j < i

\* A step that leaves the history alone and takes no request back.
LEMMA HistoryStays ==
    ASSUME Voice!TypeOK, Voice!RepliesAnswered, Voice!QuestionsLast, UNCHANGED <<history, asked>>,
           \A r \in Voice!Turns : req[r] \in {"answered", "done", "over"}
                              => req'[r] \in {"answered", "done", "over"}
    PROVE  Voice!RepliesAnswered' /\ Voice!QuestionsLast'
<1>1. \A i \in DOMAIN history : history[i] \in Voice!Entry
  BY ElementOfSeq, LenProperties DEF Voice!TypeOK
<1>2. \A i \in DOMAIN history : history[i].turn \in Voice!Turns
  BY <1>1 DEF Voice!Entry
<1> QED BY <1>2 DEF Voice!RepliesAnswered, Voice!QuestionsLast

\* An entry is added behind the others: a question whose answer cannot be there
\* yet, or an answer of a request that counts as answered.
LEMMA HistoryGrows ==
    ASSUME Voice!TypeOK, Voice!RepliesAnswered, Voice!QuestionsLast, NEW m \in Voice!Entry,
           history' = Voice!Remembered(history, m),
           m.role = "user" => req[m.turn] \notin {"answered", "done", "over"},
           m.role = "assistant" => req'[m.turn] \in {"answered", "done", "over"},
           \A r \in Voice!Turns : req[r] \in {"answered", "done", "over"}
                              => req'[r] \in {"answered", "done", "over"}
    PROVE  Voice!RepliesAnswered' /\ AnswersFollow'
<1> DEFINE longer == Append(history, m)
           kept == Voice!Remembered(history, m)
<1>1. /\ history \in Seq(Voice!Entry) /\ longer \in Seq(Voice!Entry)
      /\ Len(longer) = Len(history) + 1 /\ Len(history) \in Nat
      /\ longer[Len(longer)] = m /\ DOMAIN longer = 1..Len(longer)
      /\ DOMAIN history = 1..Len(history)
      /\ \A i \in 1..Len(history) : longer[i] = history[i]
  <2>1. history \in Seq(Voice!Entry)
    BY DEF Voice!TypeOK
  <2>2. Len(history) \in Nat /\ DOMAIN history = 1..Len(history)
    BY <2>1, LenProperties
  <2>3. /\ longer \in Seq(Voice!Entry) /\ Len(longer) = Len(history) + 1
        /\ longer[Len(longer)] = m
        /\ \A i \in 1..Len(history) : longer[i] = history[i]
    BY <2>1, AppendProperties
  <2>4. DOMAIN longer = 1..Len(longer)
    BY <2>3, LenProperties
  <2> QED BY <2>1, <2>2, <2>3, <2>4
<1>2. PICK d \in Nat : \A i \in DOMAIN kept : /\ i + d \in DOMAIN longer
                                              /\ kept[i] = longer[i + d]
                                              /\ i + d = Len(longer) => i = Len(kept)
  BY <1>1, RememberedProperties
<1>3. kept \in Seq(Voice!Entry) /\ DOMAIN kept = 1..Len(kept) /\ Len(kept) \in Nat
  BY <1>1, RememberedProperties, LenProperties
<1>4. history' = kept
  OBVIOUS
<1>5. \A i \in DOMAIN longer : longer[i] \in Voice!Entry
  BY <1>1, ElementOfSeq
<1> HIDE DEF kept, longer
<1>6. ASSUME NEW i \in DOMAIN longer, longer[i].role = "assistant"
      PROVE  req'[longer[i].turn] \in {"answered", "done", "over"}
  <2>1. CASE i = Len(longer)
    BY <1>1, <1>6, <2>1
  <2>2. CASE i # Len(longer)
    <3>1. i \in DOMAIN history /\ longer[i] = history[i] /\ longer[i].turn \in Voice!Turns
      BY <1>1, <1>5, <2>2 DEF Voice!Entry
    <3> QED BY <1>6, <3>1 DEF Voice!RepliesAnswered
  <2> QED BY <2>1, <2>2
<1>7. Voice!RepliesAnswered'
  <2>1. \A i \in DOMAIN kept : kept[i].role = "assistant"
            => req'[kept[i].turn] \in {"answered", "done", "over"}
    BY <1>2, <1>6
  <2> QED BY <1>4, <2>1 DEF Voice!RepliesAnswered
<1>8. ASSUME NEW i \in DOMAIN longer, NEW j \in DOMAIN longer,
             longer[i] = Voice!Reply(longer[j].turn), longer[j].role = "user"
      PROVE  j < i
  <2>1. longer[i].role = "assistant" /\ longer[i].turn = longer[j].turn
    BY <1>8 DEF Voice!Reply
  <2>2. CASE i = Len(longer)
    <3>1. i # j
      BY <1>8, <2>1
    <3> QED BY <1>1, <2>2, <3>1
  <2>3. CASE i # Len(longer) /\ j = Len(longer)
    <3>1. i \in DOMAIN history /\ longer[i] = history[i]
      BY <1>1, <2>3
    <3>2. req[m.turn] \in {"answered", "done", "over"}
      BY <1>1, <2>1, <2>3, <3>1 DEF Voice!RepliesAnswered
    <3> QED BY <1>1, <1>8, <2>3, <3>2
  <2>4. CASE i # Len(longer) /\ j # Len(longer)
    <3>1. /\ i \in DOMAIN history /\ longer[i] = history[i]
          /\ j \in DOMAIN history /\ longer[j] = history[j]
      BY <1>1, <2>4
    <3> QED BY <1>8, <3>1 DEF Voice!QuestionsLast
  <2> QED BY <2>2, <2>3, <2>4
<1>9. AnswersFollow'
  <2>1. ASSUME NEW i \in DOMAIN kept, NEW j \in DOMAIN kept,
               kept[i] = Voice!Reply(kept[j].turn), kept[j].role = "user"
        PROVE  j < i
    <3>1. j + d < i + d
      BY <1>2, <1>8, <2>1
    <3> QED BY <1>3, <3>1
  <2> QED BY <1>4, <2>1 DEF AnswersFollow, Voice!Reply
<1> QED BY <1>7, <1>9

\* The steps of one request.
LEMMA RequestKeepsOrder ==
    ASSUME Voice!TypeOK, Voice!RepliesAnswered, Voice!QuestionsLast,
           NEW r \in Voice!Turns, Voice!Requests(r)
    PROVE  Voice!RepliesAnswered' /\ Voice!QuestionsLast'
<1>0. /\ req \in [Voice!Turns -> {"none", "spawned", "registered", "asked", "streaming",
                            "first", "speaking", "answered", "done", "over"}]
      /\ asked \in [Voice!Turns -> Seq(Voice!Entry)] /\ history \in Seq(Voice!Entry)
      /\ Voice!User(r) \in Voice!Entry /\ Voice!Reply(r) \in Voice!Entry
  BY EntryTypes DEF Voice!TypeOK
<1>1. CASE Voice!Ask(r)
  <2> DEFINE messages == Voice!Remembered(history, Voice!User(r))
  <2>1. /\ history' = messages /\ asked' = [asked EXCEPT ![r] = messages]
        /\ req[r] = "registered" /\ req' = [req EXCEPT ![r] = "asked"]
    BY <1>1 DEF Voice!Ask, Voice!At, Voice!To
  <2>2. messages # <<>> /\ Voice!Last(messages) = Voice!User(r)
    BY <1>0, RememberedProperties
  <2>3. Voice!RepliesAnswered' /\ AnswersFollow'
    <3>1. Voice!User(r).role = "user" /\ Voice!User(r).turn = r
      BY DEF Voice!User
    <3> QED BY <1>0, <2>1, <3>1, HistoryGrows
  <2> HIDE DEF messages
  <2>4. \A u \in Voice!Turns : asked'[u] # <<>> => Voice!Last(asked'[u]) = Voice!User(u)
    BY <1>0, <2>1, <2>2 DEF Voice!QuestionsLast
  <2> QED BY <2>3, <2>4 DEF Voice!QuestionsLast, AnswersFollow, Voice!User
<1>2. CASE Voice!Answered(r)
  <2>1. /\ history' = Voice!Remembered(history, Voice!Reply(r)) /\ UNCHANGED asked
        /\ req' = [req EXCEPT ![r] = "answered"]
    BY <1>2 DEF Voice!Answered, Voice!To
  <2>2. Voice!RepliesAnswered' /\ AnswersFollow'
    <3>1. Voice!Reply(r).role = "assistant" /\ Voice!Reply(r).turn = r
      BY DEF Voice!Reply
    <3> QED BY <1>0, <2>1, <3>1, HistoryGrows
  <2> QED BY <2>1, <2>2 DEF Voice!QuestionsLast, AnswersFollow
<1>3. CASE \/ Voice!Register(r) \/ Voice!Refused(r) \/ Voice!Respond(r)
           \/ Voice!Delegate(r) \/ Voice!FirstDelta(r)
           \/ Voice!Speak(r) \/ Voice!Done(r) \/ Voice!Release(r) \/ Voice!Break(r) \/ Voice!Stop(r)
  <2>1. UNCHANGED <<history, asked>>
    BY <1>3
       DEF Voice!Register, Voice!Refused, Voice!Respond, Voice!Delegate, Voice!FirstDelta,
           Voice!Speak, Voice!Done, Voice!Release,
                Voice!Break, Voice!Stop, Voice!llmVars
  <2>2. \/ UNCHANGED req
        \/ req[r] \notin {"answered", "done", "over"} /\ \E to : Voice!To(r, to)
        \/ Voice!To(r, "done") \/ Voice!To(r, "over")
    BY <1>3
       DEF Voice!Register, Voice!Refused, Voice!Respond, Voice!Delegate, Voice!FirstDelta,
           Voice!Speak, Voice!Done, Voice!Release,
                Voice!Break, Voice!Stop, Voice!llmVars, Voice!At
  <2>3. ASSUME NEW u \in Voice!Turns, req[u] \in {"answered", "done", "over"}
        PROVE  req'[u] \in {"answered", "done", "over"}
    BY <1>0, <2>2, <2>3 DEF Voice!To
  <2> QED BY <2>1, <2>3, HistoryStays
<1> QED BY <1>1, <1>2, <1>3 DEF Voice!Requests

\* Everybody else leaves the history alone; the loop starts the request of a
\* turn that had none.
LEMMA RestKeepsOrder ==
    ASSUME Voice!TypeOK, Voice!Ordered,
           VoiceLoop \/ Voice!Delta \/ Voice!SpeakText \/ Voice!TextDone \/ Voice!ReleaseText
           \/ Voice!Take
    PROVE  Voice!RepliesAnswered' /\ Voice!QuestionsLast'
<1>0. req \in [Voice!Turns -> {"none", "spawned", "registered", "asked", "streaming",
                         "first", "speaking", "answered", "done", "over"}]
  BY DEF Voice!TypeOK
<1>1. CASE Voice!HandOver
  <2>1. UNCHANGED <<history, asked>>
        /\ (UNCHANGED req \/ req' = [req EXCEPT ![turn] = "spawned"])
    BY <1>1 DEF Voice!HandOver
  <2>2. stt # "idle"
    BY <1>1 DEF Voice!HandOver
  <2>3. turn \in Voice!Turns
    BY <2>2 DEF Voice!Ordered, Voice!HandedOver
  <2>4. req[turn] = "none"
    <3>1. ~(turn < turn)
      BY <2>3 DEF Voice!Turns
    <3> QED BY <2>2, <2>3, <3>1 DEF Voice!Ordered, Voice!HandedOver
  <2>5. ASSUME NEW u \in Voice!Turns, req[u] \in {"answered", "done", "over"}
        PROVE  req'[u] \in {"answered", "done", "over"}
    BY <1>0, <2>1, <2>4, <2>5
  <2> QED BY <2>1, <2>5, HistoryStays DEF Voice!Ordered
<1>2. CASE ~Voice!HandOver
  <2>1. UNCHANGED <<history, asked, req>>
    BY <1>2
       DEF VoiceLoop, Voice!Doubtful, Voice!Hear, Voice!Listens, Voice!Look, Voice!BargeIn,
              Voice!Cut, Voice!Recover, Voice!Onset, Voice!TakeFloor, Voice!Commit, Voice!Delta,
              Voice!SpeakText, Voice!TextDone, Voice!ReleaseText, Voice!Take, Voice!llmVars
  <2> QED BY <2>1, HistoryStays DEF Voice!Ordered
<1> QED BY <1>1, <1>2

-------------------------------------------------------------------------------
\* The inductive invariant of the voice room.
VoiceInv == Voice!TypeOK /\ Voice!Held /\ Voice!Ordered

\* The invariant holds before the first word.
LEMMA VoiceFirstState == Voice!Init => VoiceInv
<1> SUFFICES ASSUME Voice!Init PROVE VoiceInv
  OBVIOUS
<1>1. Voice!TypeOK
  <2>1. 0 \in 0..MaxTurns /\ 0 \in 0..QueueCap /\ 0 \in 0..MaxDeltas /\ <<>> \in Seq(Voice!Entry)
    BY VoiceConstants, ChannelConstants, EmptySeq DEF VoiceConstants, ChannelConstants
  <2> QED BY <2>1 DEF Voice!Init, Voice!TypeOK, Voice!Floor
<1>2. Voice!Held
  BY DEF Voice!Init, Voice!Held
<1>3. Voice!HandedOver
  BY DEF Voice!Init, Voice!HandedOver
<1>4. Voice!RepliesAnswered /\ Voice!QuestionsLast
  BY DEF Voice!Init, Voice!RepliesAnswered, Voice!QuestionsLast
<1> QED BY <1>1, <1>2, <1>3, <1>4 DEF VoiceInv, Voice!Ordered

\* Every step keeps the invariant.
LEMMA VoiceStepKeeps == VoiceInv /\ [Voice!Next]_(Voice!vars) => VoiceInv'
<1>1. ASSUME VoiceInv, UNCHANGED Voice!vars PROVE VoiceInv'
  BY <1>1 DEF VoiceInv, Voice!TypeOK, Voice!Held, Voice!Ordered, Voice!HandedOver,
     Voice!RepliesAnswered, Voice!QuestionsLast, Voice!vars
<1>2. ASSUME VoiceInv, Voice!Next PROVE VoiceInv'
  <2>1. VoiceLoop \/ VoiceOthers
    BY <1>2 DEF Voice!Next, VoiceLoop, VoiceOthers
  <2>2. Voice!TypeOK'
    BY <1>2, <2>1, LoopKeepsTypes, OthersKeepTypes DEF VoiceInv, Voice!Ordered
  <2>3. Voice!Held'
    BY <1>2, <2>1, LoopHolds, OthersHold DEF VoiceInv
  <2>4. Voice!HandedOver'
    BY <1>2, <2>1, StepKeepsHandedOver DEF VoiceInv, Voice!Ordered
  <2>5. Voice!RepliesAnswered' /\ Voice!QuestionsLast'
    BY <1>2, <2>1, RequestKeepsOrder, RestKeepsOrder
       DEF VoiceInv, VoiceOthers, Voice!Ordered
  <2> QED BY <2>2, <2>3, <2>4, <2>5 DEF VoiceInv, Voice!Ordered
<1> QED BY <1>1, <1>2

\* The inductive invariant of the floor, the turns and the fast model's history
\* (floor.go, fastllm.go) holds in every reachable state.
THEOREM AlwaysOrdered == Voice!Spec => []VoiceInv
<1> QED BY VoiceFirstState, VoiceStepKeeps, PTL DEF Voice!Spec

\* Every variable keeps its type.
THEOREM VoiceTypeCorrect == Voice!Spec => []Voice!TypeOK
<1>1. VoiceInv => Voice!TypeOK
  BY DEF VoiceInv
<1> QED BY <1>1, AlwaysOrdered, PTL

\* Whenever the transcription loop waits for the next transcript, a response can
\* take the floor: however its calls to the floor interleave with those of the
\* requests and of the orchestrator's stream, it leaves the floor neither with
\* the user nor in the abort.
THEOREM FloorStaysOpen == Voice!Spec => []FloorOpen
<1>1. VoiceInv => FloorOpen
  BY DEF VoiceInv, Voice!Held, FloorOpen, Voice!FloorOpen
<1> QED BY <1>1, AlwaysOrdered, PTL

\* A request's messages end with its own question, and no answer comes to stand
\* before the question it answers, whatever requests overlap and wherever the
\* history is cut.
THEOREM QuestionsStayLast == Voice!Spec => []QuestionsLast
<1>1. VoiceInv => QuestionsLast
  BY DEF VoiceInv, Voice!Ordered, QuestionsLast
<1> QED BY <1>1, AlwaysOrdered, PTL
===============================================================================
