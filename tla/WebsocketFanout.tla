---------------------------- MODULE WebsocketFanout ----------------------------
(***************************************************************************)
(* The two ConnectionManagers of one API process: "executions" of the      *)
(* workflow engine (app/api/routes/websocket.py), fed by the one task that *)
(* listens to Redis, and "alerts" of the anomaly platform (the file of the *)
(* same name), where every detection broadcasts for itself.  The tasks     *)
(* share an event loop: a step runs from one await to the next, and a send *)
(* to a client is an await.                                                *)
(*                                                                         *)
(* broadcast of "executions" iterates a copy of its connections; broadcast *)
(* of "alerts" iterates the list itself, to which connect appends, and     *)
(* which disconnect replaces by a new one.                                 *)
(***************************************************************************)
EXTENDS Naturals, Sequences, SequencesExt

CONSTANTS Managers,    \* which of the two to consider
          Clients,     \* websockets; a client that returns is a new one
          Tasks,       \* detections that may broadcast at once
          MaxEvents,   \* bound on the messages
          Passes       \* per client, the messages its source filter lets through

Events == 1 .. MaxEvents

ASSUME FanoutAssumption ==
  /\ Managers \subseteq {"executions", "alerts"} /\ Managers # {}
  /\ MaxEvents \in Nat
  /\ Passes \in [Clients -> SUBSET Events]

VARIABLES
  manager,      \* which ConnectionManager this is
  route, up,    \* per client: where its handler is, whether the socket is open
  connections,  \* _connections, in order
  msg, list, at, live, dead,
                \* per task: the message it broadcasts (0 for none), the list it
                \* iterates and how far, whether that list is _connections itself,
                \* and the clients that failed
  published, inbox, listening,
                \* messages so far; those at the Redis subscription, and whether
                \* its task still runs
  got, audience \* history: what each client was sent, and who was connected when
                \* the broadcast of a message began

clients == <<route, up>>
broadcasts == <<msg, list, at, live, dead>>
feed == <<published, inbox, listening>>
history == <<got, audience>>
vars == <<manager, clients, connections, broadcasts, feed, history>>

TypeOK ==
  /\ manager \in Managers
  /\ route \in [Clients -> {"new", "accepted", "receiving", "done"}]
  /\ up \in [Clients -> BOOLEAN]
  /\ connections \in Seq(Clients)
  /\ msg \in [Tasks -> Events \cup {0}]
  /\ list \in [Tasks -> Seq(Clients)]
  /\ live \in [Tasks -> BOOLEAN]
  /\ dead \in [Tasks -> SUBSET Clients]
  /\ at \in [Tasks -> Nat] /\ \A b \in Tasks : at[b] <= Len(list[b])
  /\ published \in 0 .. MaxEvents
  /\ inbox \in Seq(Events)
  /\ listening \in BOOLEAN
  /\ got \in [Clients -> Seq(Events)]
  /\ audience \in [Events -> SUBSET Clients]

Init ==
  /\ manager \in Managers
  /\ route = [c \in Clients |-> "new"]
  /\ up = [c \in Clients |-> FALSE]
  /\ connections = <<>>
  /\ msg = [b \in Tasks |-> 0]
  /\ list = [b \in Tasks |-> <<>>]
  /\ at = [b \in Tasks |-> 0]
  /\ live = [b \in Tasks |-> FALSE]
  /\ dead = [b \in Tasks |-> {}]
  /\ published = 0
  /\ inbox = <<>>
  /\ listening = TRUE
  /\ got = [c \in Clients |-> <<>>]
  /\ audience = [e \in Events |-> {}]

\* The new list of disconnect.
Without(s, S) ==
  LET kept[i \in 0 .. Len(s)] ==
        IF i = 0 THEN <<>>
        ELSE IF s[i] \in S THEN kept[i - 1] ELSE Append(kept[i - 1], s[i])
  IN  kept[Len(s)]

\* "continue" for a client whose filter names another source.
Wants(c, e) == manager = "executions" \/ e \in Passes[c]

-----------------------------------------------------------------------------
(* Clients and their handlers *)

Go(c, from, to) ==
  /\ route[c] = from
  /\ route' = [route EXCEPT ![c] = to]

Accept(c) ==
  /\ Go(c, "new", "accepted")
  /\ up' = [up EXCEPT ![c] = TRUE]
  /\ UNCHANGED <<manager, connections, broadcasts, feed, history>>

\* accept() returned to connect; a broadcast over the list itself sees the newcomer.
Register(c) ==
  /\ Go(c, "accepted", "receiving")
  /\ connections' = Append(connections, c)
  /\ list' = [b \in Tasks |-> IF live[b] THEN Append(list[b], c) ELSE list[b]]
  /\ UNCHANGED <<manager, up, msg, at, live, dead, feed, history>>

Close(c) ==
  /\ up[c]
  /\ up' = [up EXCEPT ![c] = FALSE]
  /\ UNCHANGED <<manager, route, connections, broadcasts, feed, history>>

\* receive_text raises WebSocketDisconnect, and the handler calls disconnect,
\* which makes a new list: an iteration under way goes on over the old one.
Notice(c) ==
  /\ ~up[c]
  /\ Go(c, "receiving", "done")
  /\ connections' = Without(connections, {c})
  /\ live' = [b \in Tasks |-> FALSE]
  /\ UNCHANGED <<manager, up, msg, list, at, dead, feed, history>>

\* It raises anything else (a frame that is no text): the handler ends, and
\* nothing removes the client.
HandlerRaises(c) ==
  /\ Go(c, "receiving", "done")
  /\ up' = [up EXCEPT ![c] = FALSE]
  /\ UNCHANGED <<manager, connections, broadcasts, feed, history>>

-----------------------------------------------------------------------------
(* broadcast *)

Idle(b) == msg[b] = 0

\* The clients of list s after position i that are sent e.
Later(s, i, e) == {j \in DOMAIN s : j > i /\ Wants(s[j], e)}

\* The first send starts; with nobody to send to, broadcast returns at once.
Begin(b, e, s, shared) ==
  /\ Idle(b)
  /\ audience' = [audience EXCEPT ![e] = ToSet(connections)]
  /\ IF Later(s, 0, e) = {} THEN UNCHANGED broadcasts
     ELSE /\ msg' = [msg EXCEPT ![b] = e]
          /\ list' = [list EXCEPT ![b] = s]
          /\ at' = [at EXCEPT ![b] = Min(Later(s, 0, e))]
          /\ live' = [live EXCEPT ![b] = shared]
          /\ UNCHANGED dead

\* A detection broadcasts its anomaly.
Alert(b) ==
  /\ manager = "alerts"
  /\ published < MaxEvents
  /\ published' = published + 1
  /\ Begin(b, published + 1, connections, TRUE)
  /\ UNCHANGED <<manager, clients, connections, inbox, listening, got>>

\* The listener awaits each broadcast before it takes the next message.
FreeVariant(b) == Idle(b)
Free(b) == \A a \in Tasks : Idle(a)

Take(b) ==
  /\ manager = "executions"
  /\ listening /\ inbox # <<>> /\ Free(b)
  /\ inbox' = Tail(inbox)
  /\ \E s \in SetToSeqs(ToSet(connections)) : Begin(b, Head(inbox), s, FALSE)
  /\ UNCHANGED <<manager, clients, connections, published, listening, got>>

\* The loop is over: disconnect for each client that failed.
Finish(b, failed) ==
  /\ connections' = IF failed = {} THEN connections ELSE Without(connections, failed)
  /\ list' = [list EXCEPT ![b] = <<>>]
  /\ live' = IF failed = {} THEN [live EXCEPT ![b] = FALSE] ELSE [a \in Tasks |-> FALSE]
  /\ msg' = [msg EXCEPT ![b] = 0]
  /\ at' = [at EXCEPT ![b] = 0]
  /\ dead' = [dead EXCEPT ![b] = {}]

NextAt(b) == Min(Later(list[b], at[b], msg[b]))

Continue(b, failed) ==
  /\ at' = [at EXCEPT ![b] = NextAt(b)]
  /\ dead' = [dead EXCEPT ![b] = failed]
  /\ UNCHANGED <<connections, msg, list, live>>

ExhaustedStopVariant(b, failed) == failed # {} \/ Later(list[b], at[b], msg[b]) = {}
Exhausted(b, failed) == Later(list[b], at[b], msg[b]) = {}

\* The send in flight ended: the next one starts, or the broadcast is over.
Sent(b, failed) ==
  /\ IF Exhausted(b, failed) THEN Finish(b, failed) ELSE Continue(b, failed)
  /\ UNCHANGED <<manager, clients, feed, audience>>

Client(b) == list[b][at[b]]

\* To a socket that is open, or was when the message was handed over.
Deliver(b) ==
  /\ ~Idle(b)
  /\ got' = IF up[Client(b)] THEN [got EXCEPT ![Client(b)] = Append(@, msg[b])] ELSE got
  /\ Sent(b, dead[b])

SendFails(b) ==
  /\ ~Idle(b)
  /\ ~up[Client(b)]
  /\ UNCHANGED got
  /\ Sent(b, dead[b] \cup {Client(b)})

-----------------------------------------------------------------------------
(* The Redis channel *)

\* A worker publishes; without a subscriber the message is gone.
Publish ==
  /\ manager = "executions"
  /\ published < MaxEvents
  /\ published' = published + 1
  /\ inbox' = IF listening THEN Append(inbox, published + 1) ELSE inbox
  /\ UNCHANGED <<manager, clients, connections, broadcasts, listening, history>>

\* The connection to Redis fails: listen() raises and the task ends for good.
ListenerEnds ==
  /\ manager = "executions"
  /\ listening /\ \A b \in Tasks : Idle(b)
  /\ listening' = FALSE
  /\ inbox' = <<>>
  /\ UNCHANGED <<manager, clients, connections, broadcasts, published, history>>

-----------------------------------------------------------------------------

Handle(c) == Accept(c) \/ Register(c) \/ Close(c) \/ Notice(c) \/ HandlerRaises(c)

Broadcast(b) == Deliver(b) \/ SendFails(b)

Next ==
  \/ \E c \in Clients : Handle(c)
  \/ \E b \in Tasks : Alert(b) \/ Take(b) \/ Broadcast(b)
  \/ Publish
  \/ ListenerEnds

Spec == Init /\ [][Next]_vars

\* The event loop resumes what can run; a send to a client that answers
\* nothing ends by the server's ping timeout.
FairSpec ==
  /\ Spec
  /\ \A b \in Tasks : WF_vars(Broadcast(b))
  /\ WF_vars(\E b \in Tasks : Take(b))

-----------------------------------------------------------------------------
(* Properties *)

Times(c, e) == Cardinality({i \in DOMAIN got[c] : got[c][i] = e})

Over(e) == audience[e] # {} /\ \A b \in Tasks : msg[b] # e

\* A broadcast reaches every client that was connected when it began, wants
\* the message and is still there, exactly once, whoever connects, leaves,
\* fails or broadcasts meanwhile; and nobody is ever sent a message twice, or
\* one its filter excludes.
OnceEach ==
  \A c \in Clients, e \in Events :
    /\ Times(c, e) <= (IF Wants(c, e) THEN 1 ELSE 0)
    /\ c \in audience[e] /\ Over(e) /\ Wants(c, e) /\ up[c] => Times(c, e) = 1

\* README: execution events are fanned in to the local connections.  What a
\* client receives of them is a run of consecutive messages in their order.
EventsInOrder ==
  manager = "executions" =>
    \A c \in Clients : \A i \in 1 .. Len(got[c]) - 1 : got[c][i + 1] = got[c][i] + 1

\* README: real-time monitoring.  An event at the subscription reaches every
\* client connected then, unless the client goes or the listener has ended.
FeedDelivers ==
  \A c \in Clients, e \in Events :
    (e \in ToSet(inbox) /\ route[c] = "receiving" /\ up[c])
      ~> (Times(c, e) = 1 \/ ~up[c] \/ ~listening)

=============================================================================
