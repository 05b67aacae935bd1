------------------------------- MODULE EventBus -------------------------------
(***************************************************************************)
(* services/event_bus.py and the WebSocket handlers of api/routes_ws.py that *)
(* drain it: a bounded queue per connection that loses its oldest event when *)
(* it is full, and a handler that takes events out and awaits each send.     *)
(*                                                                          *)
(* An event is its number in the order of publication and its name; payloads *)
(* are left out, since the dashboard uses no event as state. A send ends when *)
(* the browser has the frame: what a socket buffers is left out. A ping,     *)
(* which the browser ignores, is only what finds a browser gone.             *)
(***************************************************************************)
EXTENDS Integers, Sequences

CONSTANTS Connections,  \* WebSocket connections that may be up at a time
          QueueSize,    \* QUEUE_SIZE
          Names         \* the event names

ASSUME BusAssumption == QueueSize \in Nat \ {0}

VARIABLES
    published,  \* events published so far
    queue,      \* connection -> its subscriber queue
    taken,      \* subscriber -> the event its handler took last, or the latest
                \* event when it subscribed
    handler,    \* connection -> where its websocket_endpoint is
    held,       \* connection -> the name of the event it is sending, if any
    peer        \* connection -> the browser's end of it

busVars == <<published, queue, taken, handler, held, peer>>

Events       == [at : Nat, name : Names]
\* "left": the handler ended, its queue still in bus._subscribers
HandlerPCs   == {"none", "greeting", "waiting", "sending", "left"}
Subscribed(c) == handler[c] # "none"

BusInit ==
    /\ published = 0
    /\ queue = [c \in Connections |-> <<>>]
    /\ taken = [c \in Connections |-> 0]
    /\ handler = [c \in Connections |-> "none"]
    /\ held = [c \in Connections |-> <<>>]
    /\ peer = [c \in Connections |-> "none"]

\* publish, for one queue. (Before it: a full queue that keeps its oldest, and
\* one that is let grow first.)
EnqueuedOrDropped(q, e) == IF Len(q) < QueueSize THEN Append(q, e) ELSE q
EnqueuedBeyond(q, e) == IF Len(q) <= QueueSize THEN Append(q, e) ELSE Append(Tail(q), e)
Enqueued(q, e) == IF Len(q) < QueueSize THEN Append(q, e) ELSE Append(Tail(q), e)

Publish(name) ==
    /\ published' = published + 1
    /\ queue' = [c \in Connections |->
                   IF Subscribed(c)
                   THEN Enqueued(queue[c], [at |-> published + 1, name |-> name])
                   ELSE queue[c]]
    /\ UNCHANGED <<taken, handler, held, peer>>

\* A browser connects: accepted and subscribed before anything is sent.
\* (First, subscribed without the greeting to come.)
AcceptUngreeted(c) ==
    /\ handler[c] = "none" /\ peer[c] = "none"
    /\ handler' = [handler EXCEPT ![c] = "waiting"]
    /\ taken' = [taken EXCEPT ![c] = published]
    /\ peer' = [peer EXCEPT ![c] = "open"]
    /\ UNCHANGED <<published, queue, held>>
Accept(c) ==
    /\ handler[c] = "none" /\ peer[c] = "none"
    /\ handler' = [handler EXCEPT ![c] = "greeting"]
    /\ taken' = [taken EXCEPT ![c] = published]
    /\ peer' = [peer EXCEPT ![c] = "open"]
    /\ UNCHANGED <<published, queue, held>>

\* The greeting is sent outside the try: should the browser be gone already,
\* the handler ends without its finally.
Greet(c) ==
    /\ handler[c] = "greeting" /\ peer[c] = "open"
    /\ handler' = [handler EXCEPT ![c] = "waiting"]
    /\ UNCHANGED <<published, queue, taken, held, peer>>

GreetFails(c) ==
    /\ handler[c] = "greeting" /\ peer[c] = "gone"
    /\ handler' = [handler EXCEPT ![c] = "left"]
    /\ peer' = [peer EXCEPT ![c] = "none"]
    /\ UNCHANGED <<published, queue, taken, held>>

\* queue.get() returns
Take(c) ==
    /\ handler[c] = "waiting"
    /\ queue[c] # <<>>
    /\ taken' = [taken EXCEPT ![c] = Head(queue[c]).at]
    /\ held' = [held EXCEPT ![c] = <<Head(queue[c]).name>>]
    /\ queue' = [queue EXCEPT ![c] = Tail(@)]
    /\ handler' = [handler EXCEPT ![c] = "sending"]
    /\ UNCHANGED <<published, peer>>

Send(c) ==
    /\ handler[c] = "sending" /\ peer[c] = "open"
    /\ held' = [held EXCEPT ![c] = <<>>]
    /\ handler' = [handler EXCEPT ![c] = "waiting"]
    /\ UNCHANGED <<published, queue, taken, peer>>

\* Sending an event or a ping fails: finally, unsubscribe. (Before it, the
\* handler without the ping.)
Unsubscribes(c) ==
    /\ handler' = [handler EXCEPT ![c] = "none"]
    /\ queue' = [queue EXCEPT ![c] = <<>>]
    /\ held' = [held EXCEPT ![c] = <<>>]
    /\ peer' = [peer EXCEPT ![c] = "none"]
    /\ taken' = [taken EXCEPT ![c] = 0]
    /\ UNCHANGED published
SendFailsOnEvent(c) ==
    /\ peer[c] = "gone"
    /\ handler[c] = "sending"
    /\ Unsubscribes(c)
SendFails(c) ==
    /\ peer[c] = "gone"
    /\ handler[c] = "sending" \/ (handler[c] = "waiting" /\ queue[c] = <<>>)
    /\ Unsubscribes(c)

\* The browser goes away, or the network to it does.
Disconnect(c) ==
    /\ peer[c] = "open"
    /\ peer' = [peer EXCEPT ![c] = "gone"]
    /\ UNCHANGED <<published, queue, taken, handler, held>>

\* The process dies, and its queues with it.
BusDies ==
    /\ handler' = [c \in Connections |-> "none"]
    /\ queue' = [c \in Connections |-> <<>>]
    /\ held' = [c \in Connections |-> <<>>]
    /\ peer' = [c \in Connections |-> "none"]
    /\ taken' = [c \in Connections |-> 0]
    /\ UNCHANGED published

BusNext == \/ \E name \in Names : Publish(name)
           \/ \E c \in Connections : \/ Accept(c) \/ Greet(c) \/ GreetFails(c) \/ Take(c)
                                     \/ Send(c) \/ SendFails(c) \/ Disconnect(c)
           \/ BusDies

BusSpec == BusInit /\ [][BusNext]_busVars

-----------------------------------------------------------------------------
(* Properties *)

BusTypeOK ==
    /\ published \in Nat
    /\ queue \in [Connections -> Seq(Events)]
    /\ taken \in [Connections -> Nat]
    /\ handler \in [Connections -> HandlerPCs]
    /\ held \in [Connections -> Seq(Names)]
    /\ peer \in [Connections -> {"none", "open", "gone"}]

\* "A subscriber whose queue is full loses the oldest event": a queue always
\* holds the newest events, without a hole and in order, and what its handler
\* missed before them it missed while the queue was full.
QueueIsSuffix ==
    \A c \in Connections : Subscribed(c) =>
        LET q == queue[c]
        IN  /\ Len(q) <= QueueSize
            /\ \A i \in 1..Len(q) : q[i].at = published - Len(q) + i
            /\ taken[c] <= published - Len(q)
            /\ Len(q) < QueueSize => taken[c] = published - Len(q)

\* The bus is the feed, for the connections whose handler is there to drain it.
Draining == {c \in Connections : handler[c] \in {"greeting", "waiting", "sending"}}
Seen == [c \in Connections |-> IF c \in Draining THEN taken[c] ELSE 0]
Feed == INSTANCE EventFeed WITH
    Subscribers <- Connections, joined <- Draining, seen <- Seen
=============================================================================
