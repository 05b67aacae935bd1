----------------------------- MODULE BoardProofs -----------------------------
(***************************************************************************)
(* The event bus and the page that follows it, for every size of a queue,     *)
(* any number of connections, of runs and of faults: a queue holds the newest  *)
(* events, the bus implements the feed of EventFeed, and what the page shows   *)
(* of a job never goes back.                                                 *)
(***************************************************************************)
EXTENDS JobBoard, SequenceTheorems, TLAPS

USE BusAssumption, BoardAssumption DEF BusAssumption, BoardAssumption

\* Nobody is queued for who is not subscribed.
BusInv == /\ BusTypeOK
          /\ QueueIsSuffix
          /\ \A c \in Connections : ~Subscribed(c) => queue[c] = <<>>

-----------------------------------------------------------------------------
(* The queue of a subscriber *)

\* What QueueIsSuffix says of one queue
Suffix(q, last, upto) ==
    /\ Len(q) <= QueueSize
    /\ \A i \in 1..Len(q) : q[i].at = upto - Len(q) + i
    /\ last <= upto - Len(q)
    /\ Len(q) < QueueSize => last = upto - Len(q)

\* An event more keeps a queue the suffix of what was published.
LEMMA EnqueuedSuffix ==
    ASSUME NEW q \in Seq(Events), NEW last \in Nat, NEW upto \in Nat,
           NEW e \in Events, e.at = upto + 1, Suffix(q, last, upto)
    PROVE  Enqueued(q, e) \in Seq(Events) /\ Suffix(Enqueued(q, e), last, upto + 1)
<1>1. Len(q) \in Nat /\ Len(q) <= QueueSize
  BY DEF Suffix
<1>2. CASE Len(q) < QueueSize
  <2> DEFINE r == Append(q, e)
  <2>1. Enqueued(q, e) = r
    BY <1>2 DEF Enqueued
  <2>2. /\ r \in Seq(Events) /\ Len(r) = Len(q) + 1
        /\ \A i \in 1..Len(q) : r[i] = q[i]
        /\ r[Len(q) + 1] = e
    BY AppendProperties
  <2>3. \A i \in 1..Len(r) : r[i].at = (upto + 1) - Len(r) + i
    <3> SUFFICES ASSUME NEW i \in 1..Len(r) PROVE r[i].at = (upto + 1) - Len(r) + i
      OBVIOUS
    <3>1. CASE i = Len(q) + 1
      BY <1>1, <2>2, <3>1
    <3>2. CASE i \in 1..Len(q)
      BY <1>1, <2>2, <3>2 DEF Suffix
    <3> QED
      BY <1>1, <2>2, <3>1, <3>2
  <2> HIDE DEF r
  <2> QED
    BY <1>1, <1>2, <2>1, <2>2, <2>3 DEF Suffix
<1>3. CASE Len(q) = QueueSize
  <2> DEFINE t == Tail(q)
             r == Append(t, e)
  <2>1. Enqueued(q, e) = r
    BY <1>3 DEF Enqueued
  <2>2. q # <<>>
    BY <1>3
  <2>3. /\ t \in Seq(Events) /\ Len(t) = Len(q) - 1
        /\ \A i \in 1..Len(t) : t[i] = q[i + 1]
    BY <2>2, HeadTailProperties
  <2>4. /\ r \in Seq(Events) /\ Len(r) = Len(t) + 1
        /\ \A i \in 1..Len(t) : r[i] = t[i]
        /\ r[Len(t) + 1] = e
    BY <2>3, AppendProperties
  <2> HIDE DEF t, r
  <2>5. Len(r) = Len(q)
    BY <1>1, <2>3, <2>4
  <2>6. \A i \in 1..Len(r) : r[i].at = (upto + 1) - Len(r) + i
    <3> SUFFICES ASSUME NEW i \in 1..Len(r) PROVE r[i].at = (upto + 1) - Len(r) + i
      OBVIOUS
    <3>1. CASE i = Len(q)
      BY <1>1, <2>3, <2>4, <2>5, <3>1
    <3>2. CASE i \in 1..Len(t)
      <4>1. r[i] = q[i + 1] /\ i + 1 \in 1..Len(q)
        BY <1>1, <2>3, <2>4, <3>2
      <4>2. q[i + 1].at = upto - Len(q) + (i + 1)
        BY <4>1 DEF Suffix
      <4> QED
        BY <1>1, <2>3, <2>5, <3>2, <4>1, <4>2
    <3> QED
      BY <1>1, <2>3, <2>5, <3>1, <3>2
  <2> QED
    BY <1>1, <1>3, <2>1, <2>4, <2>5, <2>6 DEF Suffix
<1> QED
  BY <1>1, <1>2, <1>3

\* The oldest event is the next the handler has not had, or all before it were
\* pushed out; without it the queue is a suffix still.
LEMMA TakenSuffix ==
    ASSUME NEW q \in Seq(Events), NEW last \in Nat, NEW upto \in Nat,
           q # <<>>, Suffix(q, last, upto)
    PROVE  /\ Tail(q) \in Seq(Events) /\ Head(q) \in Events
           /\ Suffix(Tail(q), Head(q).at, upto)
           /\ Head(q).at = upto - Len(q) + 1
           /\ Head(q).at > last
<1>1. Len(q) \in Nat \ {0} /\ Len(q) <= QueueSize
  BY EmptySeq DEF Suffix
<1>2. Head(q) = q[1] /\ Head(q) \in Events
  BY <1>1
<1>3. Head(q).at = upto - Len(q) + 1
  BY <1>1, <1>2 DEF Suffix
<1>4. /\ Tail(q) \in Seq(Events) /\ Len(Tail(q)) = Len(q) - 1
      /\ \A i \in 1..Len(Tail(q)) : Tail(q)[i] = q[i + 1]
  BY HeadTailProperties
<1>5. \A i \in 1..Len(Tail(q)) : Tail(q)[i].at = upto - Len(Tail(q)) + i
  <2> SUFFICES ASSUME NEW i \in 1..Len(Tail(q))
               PROVE  Tail(q)[i].at = upto - Len(Tail(q)) + i
    OBVIOUS
  <2>1. i + 1 \in 1..Len(q) /\ Tail(q)[i] = q[i + 1]
    BY <1>1, <1>4
  <2>2. q[i + 1].at = upto - Len(q) + (i + 1)
    BY <2>1 DEF Suffix
  <2> QED
    BY <1>1, <1>4, <2>1, <2>2
<1>6. Suffix(Tail(q), Head(q).at, upto)
  BY <1>1, <1>3, <1>4, <1>5 DEF Suffix
<1>7. Head(q).at > last
  BY <1>1, <1>3 DEF Suffix
<1> QED
  BY <1>2, <1>3, <1>4, <1>6, <1>7

LEMMA SuffixOfEach ==
    QueueIsSuffix <=>
        \A c \in Connections : Subscribed(c) => Suffix(queue[c], taken[c], published)
  BY DEF QueueIsSuffix, Suffix

LEMMA SuffixOfEachNext ==
    QueueIsSuffix' <=>
        \A c \in Connections : Subscribed(c)' => Suffix(queue'[c], taken'[c], published')
  BY DEF QueueIsSuffix, Suffix

-----------------------------------------------------------------------------
(* The bus *)

LEMMA InitBus == BusInit => BusInv /\ Feed!Init
<1> SUFFICES ASSUME BusInit PROVE BusInv /\ Feed!Init
  OBVIOUS
<1>1. BusTypeOK
  <2>1. <<>> \in Seq(Events) /\ <<>> \in Seq(Names)
    OBVIOUS
  <2> QED
    BY <2>1 DEF BusInit, BusTypeOK, HandlerPCs
<1>2. Draining = {}
  BY DEF BusInit, Draining
<1>3. Seen = [c \in Connections |-> 0]
  BY <1>2 DEF Seen
<1>4. Feed!Init
  BY <1>2, <1>3 DEF BusInit, Feed!Init
<1>5. QueueIsSuffix
  BY DEF BusInit, QueueIsSuffix, Subscribed
<1> QED
  BY <1>1, <1>4, <1>5 DEF BusInit, BusInv

\* With what a step does at one connection, and nothing at the others, comes
\* the invariant.
LEMMA OneConnection ==
    ASSUME BusInv, NEW c \in Connections,
           published' = published,
           BusTypeOK',
           \A d \in Connections \ {c} : /\ queue'[d] = queue[d] /\ taken'[d] = taken[d]
                                        /\ handler'[d] = handler[d],
           handler'[c] # "none" => Suffix(queue'[c], taken'[c], published),
           handler'[c] = "none" => queue'[c] = <<>>
    PROVE  BusInv'
<1>1. \A d \in Connections : Subscribed(d)' => Suffix(queue'[d], taken'[d], published')
  <2> SUFFICES ASSUME NEW d \in Connections, Subscribed(d)'
               PROVE  Suffix(queue'[d], taken'[d], published')
    OBVIOUS
  <2>1. CASE d = c
    BY <2>1 DEF Subscribed
  <2>2. CASE d # c
    BY <2>2, SuffixOfEach DEF BusInv, Subscribed
  <2> QED
    BY <2>1, <2>2
<1>2. \A d \in Connections : ~Subscribed(d)' => queue'[d] = <<>>
  BY DEF BusInv, Subscribed
<1> QED
  BY <1>1, <1>2, SuffixOfEachNext DEF BusInv

LEMMA PublishStep ==
    ASSUME BusInv, NEW name \in Names, Publish(name)
    PROVE  BusInv' /\ Feed!Publish
<1> DEFINE e == [at |-> published + 1, name |-> name]
<1>1. /\ e \in Events /\ e.at = published + 1 /\ published \in Nat
      /\ published' = published + 1
  BY DEF Publish, Events, BusInv, BusTypeOK
<1>2. \A c \in Connections :
         queue'[c] = IF Subscribed(c) THEN Enqueued(queue[c], e) ELSE queue[c]
  BY DEF Publish
<1>3. /\ UNCHANGED <<taken, handler, held, peer>>
      /\ queue' = [c \in Connections |-> queue'[c]]
  BY DEF Publish
<1> HIDE DEF e
<1>4. \A c \in Connections : /\ queue[c] \in Seq(Events) /\ taken[c] \in Nat
                             /\ Subscribed(c) => Suffix(queue[c], taken[c], published)
  BY SuffixOfEach DEF BusInv, BusTypeOK
<1>5. \A c \in Connections :
         /\ queue'[c] \in Seq(Events)
         /\ Subscribed(c) => Suffix(queue'[c], taken'[c], published')
  BY <1>1, <1>2, <1>3, <1>4, EnqueuedSuffix
<1>6. BusTypeOK'
  BY <1>1, <1>3, <1>5 DEF BusInv, BusTypeOK
<1>7. BusInv'
  <2>1. \A c \in Connections : Subscribed(c)' <=> Subscribed(c)
    BY <1>3 DEF Subscribed
  <2> QED
    BY <1>2, <1>5, <1>6, <2>1, SuffixOfEachNext DEF BusInv
<1>8. Draining' = Draining /\ Seen' = Seen
  BY <1>3 DEF Draining, Seen
<1> QED
  BY <1>1, <1>7, <1>8 DEF Feed!Publish

LEMMA AcceptStep ==
    ASSUME BusInv, NEW c \in Connections, Accept(c)
    PROVE  BusInv' /\ Feed!Join(c)
<1>1. /\ published \in Nat /\ published' = published
      /\ queue[c] = <<>> /\ queue' = queue
      /\ handler \in [Connections -> HandlerPCs] /\ taken \in [Connections -> Nat]
      /\ handler[c] = "none" /\ handler' = [handler EXCEPT ![c] = "greeting"]
      /\ taken' = [taken EXCEPT ![c] = published]
  BY DEF Accept, BusInv, BusTypeOK, Subscribed
<1>2. BusTypeOK'
  BY DEF Accept, BusInv, BusTypeOK, HandlerPCs
<1>3. Suffix(queue'[c], taken'[c], published)
  <2>1. queue'[c] = <<>> /\ taken'[c] = published
    BY <1>1
  <2>2. Suffix(<<>>, published, published)
    BY <1>1 DEF Suffix
  <2> QED
    BY <2>1, <2>2
<1>4. BusInv'
  BY <1>1, <1>2, <1>3, OneConnection
<1>5. c \notin Draining /\ Draining' = Draining \cup {c}
  BY <1>1 DEF Draining
<1>6. Seen' = [Seen EXCEPT ![c] = published]
  BY <1>1, <1>5 DEF Seen
<1> QED
  BY <1>1, <1>4, <1>5, <1>6 DEF Feed!Join

\* Greetings, sent frames and browsers that go are not the feed's business.
LEMMA SilentStep ==
    ASSUME BusInv, NEW c \in Connections, Greet(c) \/ Send(c) \/ Disconnect(c)
    PROVE  BusInv' /\ UNCHANGED Feed!vars
<1>1. /\ published' = published /\ queue' = queue /\ taken' = taken
      /\ handler \in [Connections -> HandlerPCs]
      /\ \/ handler' = handler
         \/ /\ handler[c] \in {"greeting", "sending"}
            /\ handler' = [handler EXCEPT ![c] = "waiting"]
  BY DEF Greet, Send, Disconnect, BusInv, BusTypeOK
<1>2. BusTypeOK'
  <2>1. <<>> \in Seq(Names)
    OBVIOUS
  <2> QED
    BY <2>1 DEF Greet, Send, Disconnect, BusInv, BusTypeOK, HandlerPCs
<1>3. \A d \in Connections : (handler'[d] = "none") <=> (handler[d] = "none")
  BY <1>1
<1>4. BusInv'
  BY <1>1, <1>2, <1>3, SuffixOfEach, SuffixOfEachNext DEF BusInv, Subscribed
<1>5. Draining' = Draining
  BY <1>1 DEF Draining
<1> QED
  BY <1>1, <1>4, <1>5 DEF Feed!vars, Seen

LEMMA TakeStep ==
    ASSUME BusInv, NEW c \in Connections, Take(c)
    PROVE  BusInv' /\ Feed!Deliver(c)
<1> DEFINE q == queue[c]
<1>1. /\ q \in Seq(Events) /\ q # <<>> /\ taken[c] \in Nat /\ published \in Nat
      /\ Suffix(q, taken[c], published)
  BY SuffixOfEach DEF Take, BusInv, BusTypeOK, Subscribed
<1>2. /\ Tail(q) \in Seq(Events) /\ Head(q) \in Events
      /\ Suffix(Tail(q), Head(q).at, published)
      /\ Head(q).at = published - Len(q) + 1
      /\ Head(q).at > taken[c]
  BY <1>1, TakenSuffix
<1>3. Head(q).at \in Nat /\ Head(q).name \in Names
  BY <1>2 DEF Events
<1>4. /\ published' = published
      /\ queue' = [queue EXCEPT ![c] = Tail(q)]
      /\ taken' = [taken EXCEPT ![c] = Head(q).at]
      /\ handler' = [handler EXCEPT ![c] = "sending"]
      /\ held' = [held EXCEPT ![c] = <<Head(q).name>>]
      /\ peer' = peer
      /\ handler[c] = "waiting"
  BY DEF Take
<1>5. /\ queue \in [Connections -> Seq(Events)] /\ taken \in [Connections -> Nat]
      /\ handler \in [Connections -> HandlerPCs]
      /\ held \in [Connections -> Seq(Names)]
  BY DEF BusInv, BusTypeOK
<1>6. Len(q) \in Nat \ {0} /\ Len(q) <= QueueSize
  BY <1>1, EmptySeq DEF Suffix
<1> HIDE DEF q
<1>7. BusTypeOK'
  <2>1. <<Head(q).name>> \in Seq(Names)
    BY <1>3
  <2> QED
    BY <1>2, <1>3, <1>4, <1>5, <2>1 DEF BusInv, BusTypeOK, HandlerPCs
<1>8. BusInv'
  BY <1>2, <1>4, <1>5, <1>7, OneConnection
<1>9. c \in Draining /\ Draining' = Draining
  BY <1>4, <1>5 DEF Draining
<1>10. Seen' = [Seen EXCEPT ![c] = Head(q).at] /\ Seen[c] = taken[c]
  BY <1>4, <1>5, <1>9 DEF Seen
<1>11. /\ Head(q).at \in {taken[c] + 1, published - QueueSize + 1}
       /\ Head(q).at >= taken[c] + 1 /\ Head(q).at >= published - QueueSize + 1
       /\ taken[c] < published
  <2>1. Len(q) < QueueSize => taken[c] = published - Len(q)
    BY <1>1 DEF Suffix, q
  <2> QED
    BY <1>1, <1>2, <1>3, <1>6, <2>1
<1> QED
  BY <1>4, <1>8, <1>9, <1>10, <1>11 DEF Feed!Deliver

\* A handler that ends leaves the feed, with its queue or, if it was still
\* greeting, without.
LEMMA LeaveStep ==
    ASSUME BusInv, NEW c \in Connections, GreetFails(c) \/ SendFails(c)
    PROVE  BusInv' /\ Feed!Leave({c})
<1>1. /\ published' = published
      /\ handler \in [Connections -> HandlerPCs]
      /\ queue \in [Connections -> Seq(Events)]
      /\ taken \in [Connections -> Nat]
      /\ handler[c] \in {"greeting", "sending", "waiting"}
      /\ \/ /\ handler' = [handler EXCEPT ![c] = "left"]
            /\ queue' = queue /\ taken' = taken
         \/ /\ handler' = [handler EXCEPT ![c] = "none"]
            /\ queue' = [queue EXCEPT ![c] = <<>>]
            /\ taken' = [taken EXCEPT ![c] = 0]
  BY DEF GreetFails, SendFails, Unsubscribes, BusInv, BusTypeOK
<1>2. BusTypeOK'
  <2>1. <<>> \in Seq(Events) /\ <<>> \in Seq(Names)
    OBVIOUS
  <2>2. CASE GreetFails(c)
    BY <2>2 DEF GreetFails, BusInv, BusTypeOK, HandlerPCs
  <2>3. CASE SendFails(c)
    BY <2>1, <2>3 DEF SendFails, Unsubscribes, BusInv, BusTypeOK, HandlerPCs
  <2> QED
    BY <2>2, <2>3
<1>3. BusInv'
  <2>1. Suffix(queue[c], taken[c], published)
    BY <1>1, SuffixOfEach DEF BusInv, Subscribed
  <2> QED
    BY <1>1, <1>2, <2>1, OneConnection
<1>4. c \in Draining /\ Draining' = Draining \ {c}
  BY <1>1 DEF Draining
<1>5. Seen' = [d \in Connections |-> IF d \in {c} THEN 0 ELSE Seen[d]]
  BY <1>1, <1>4 DEF Seen
<1> QED
  BY <1>1, <1>3, <1>4, <1>5 DEF Feed!Leave

LEMMA BusDiesStep ==
    ASSUME BusInv, BusDies
    PROVE  BusInv' /\ [Feed!Next]_Feed!vars
<1>1. BusTypeOK'
  <2>1. <<>> \in Seq(Events) /\ <<>> \in Seq(Names)
    OBVIOUS
  <2> QED
    BY <2>1 DEF BusDies, BusInv, BusTypeOK, HandlerPCs
<1>2. BusInv'
  BY <1>1 DEF BusDies, BusInv, QueueIsSuffix, Subscribed
<1>3. /\ published' = published /\ Draining' = {}
      /\ Seen' = [c \in Connections |-> 0]
  BY DEF BusDies, Draining, Seen
<1>4. Draining \in SUBSET Connections
  BY DEF Draining
<1>5. CASE Draining = {}
  <2>1. Seen = [c \in Connections |-> 0]
    BY <1>5 DEF Seen
  <2> QED
    BY <1>2, <1>3, <1>5, <2>1 DEF Feed!vars
<1>6. CASE Draining # {}
  <2>1. Seen' = [c \in Connections |-> IF c \in Draining THEN 0 ELSE Seen[c]]
    BY <1>3 DEF Seen
  <2>2. Feed!Leave(Draining)
    BY <1>3, <1>6, <2>1 DEF Feed!Leave
  <2> QED
    BY <1>2, <1>4, <2>2 DEF Feed!Next
<1> QED
  BY <1>5, <1>6

LEMMA BusStep == BusInv /\ [BusNext]_busVars => BusInv' /\ [Feed!Next]_Feed!vars
<1> SUFFICES ASSUME BusInv, [BusNext]_busVars
             PROVE  BusInv' /\ [Feed!Next]_Feed!vars
  OBVIOUS
<1>1. CASE \E name \in Names : Publish(name)
  BY <1>1, PublishStep DEF Feed!Next
<1>2. CASE \E c \in Connections : Accept(c)
  BY <1>2, AcceptStep DEF Feed!Next
<1>3. CASE \E c \in Connections : Greet(c) \/ Send(c) \/ Disconnect(c)
  BY <1>3, SilentStep
<1>4. CASE \E c \in Connections : Take(c)
  BY <1>4, TakeStep DEF Feed!Next
<1>5. CASE \E c \in Connections : GreetFails(c) \/ SendFails(c)
  <2>1. PICK c \in Connections : GreetFails(c) \/ SendFails(c)
    BY <1>5
  <2>2. BusInv' /\ Feed!Leave({c})
    BY <2>1, LeaveStep
  <2> QED
    BY <2>2 DEF Feed!Next
<1>6. CASE BusDies
  BY <1>6, BusDiesStep
<1>7. CASE UNCHANGED busVars
  BY <1>7 DEF busVars, BusInv, BusTypeOK, QueueIsSuffix, Subscribed, Feed!vars, Seen, Draining
<1> QED
  BY <1>1, <1>2, <1>3, <1>4, <1>5, <1>6, <1>7 DEF BusNext

\* A queue always holds the newest events, in order and without a hole.
THEOREM QueueAlwaysSuffix == BusSpec => []QueueIsSuffix
<1>1. BusInv => QueueIsSuffix
  BY DEF BusInv
<1> QED
  BY <1>1, InitBus, BusStep, PTL DEF BusSpec

\* The bus and its handlers do what the feed promises.
THEOREM BusIsFeed == BusSpec => Feed!Spec
  BY InitBus, BusStep, PTL DEF BusSpec, Feed!Spec

-----------------------------------------------------------------------------
(* The board *)

\* Whatever the jobs and the page do, the bus takes a step of its own or none.
LEMMA BoardRunsBus == Spec => BusSpec
<1>1. Init => BusInit
  BY DEF Init
<1>2. [Next]_vars => [BusNext]_busVars
  <2> SUFFICES ASSUME [Next]_vars PROVE [BusNext]_busVars
    OBVIOUS
  <2>1. CASE PostDownload \/ QuietStart \/ Poll \/ Reply \/ FetchFails
    BY <2>1 DEF PostDownload, QuietStart, Poll, Reply, Answer, Land, FetchFails
  <2>2. CASE \E j \in Jobs : RunStep(j) \/ RunDies(j)
    <3>1. PICK j \in Jobs : RunStep(j) \/ RunDies(j)
      BY <2>2
    <3>2. Publish("status") \/ UNCHANGED busVars
      BY <3>1 DEF RunStep, RunDies, DownloadBegins, SymbolEnds, SymbolTrains,
                  SaveProgress, Finish, AnnounceEnd
    <3> QED
      BY <3>2 DEF BusNext
  <2>3. CASE \E c \in Connections : Connects(c) \/ Serves(c) \/ SocketDrops(c)
    BY <2>3 DEF Connects, Serves, Greets, Nudges, SocketDrops, BusNext
  <2>4. CASE OtherEvent
    BY <2>4 DEF OtherEvent, BusNext
  <2>5. CASE Crash
    BY <2>5 DEF Crash, BusNext
  <2>6. CASE UNCHANGED vars
    BY <2>6 DEF vars
  <2> QED
    BY <2>1, <2>2, <2>3, <2>4, <2>5, <2>6 DEF Next
<1> QED
  BY <1>1, <1>2, PTL DEF Spec, BusSpec

\* The feed the dashboard follows is the one the bus promises.
THEOREM BoardImplementsFeed == Spec => ImplementsFeed
  BY BoardRunsBus, BusIsFeed, PTL DEF ImplementsFeed

\* What a page or an answer can say of the latest job
Shown == [job : Nat, status : {"none", "running", "ended"}]

\* What is shown is no newer than what was answered, and that no newer than
\* the rows.
BoardInv ==
    /\ rows \in Seq({"running", "ended"})
    /\ view \in Shown
    /\ NoOlder(view, Status)
    /\ fetch.pc = "answered" => /\ fetch.answer \in Shown
                                /\ NoOlder(view, fetch.answer)
                                /\ NoOlder(fetch.answer, Status)

LEMMA StatusIsShown == rows \in Seq({"running", "ended"}) => Status \in Shown
<1> SUFFICES ASSUME rows \in Seq({"running", "ended"}) PROVE Status \in Shown
  OBVIOUS
<1>1. CASE rows = <<>>
  BY <1>1 DEF Status, Nothing, Shown
<1>2. CASE rows # <<>>
  <2>1. Len(rows) \in Nat \ {0}
    BY <1>2, EmptySeq
  <2>2. rows[Len(rows)] \in {"running", "ended"}
    BY <2>1
  <2> QED
    BY <1>2, <2>1, <2>2 DEF Status, Latest, Shown
<1> QED
  BY <1>1, <1>2

LEMMA NoOlderIsTransitive ==
    ASSUME NEW a \in Shown, NEW b \in Shown, NEW c \in Shown,
           NoOlder(a, b), NoOlder(b, c)
    PROVE  NoOlder(a, c)
  BY DEF Shown, NoOlder

\* A run that starts, and one that ends, leave the latest job no older.
LEMMA RowsMoveOn ==
    ASSUME rows \in Seq({"running", "ended"}),
           \/ rows' = rows
           \/ rows' = Append(rows, "running")
           \/ \E j \in Jobs : rows' = [rows EXCEPT ![j] = "ended"]
    PROVE  rows' \in Seq({"running", "ended"}) /\ NoOlder(Status, Status')
<1>1. CASE rows' = rows
  BY <1>1 DEF NoOlder, Status, Latest
<1>2. CASE rows' = Append(rows, "running")
  <2>1. rows' \in Seq({"running", "ended"}) /\ Len(rows') = Len(rows) + 1
    BY <1>2, AppendProperties
  <2>2. Len(rows) \in Nat /\ rows' # <<>>
    BY <2>1, EmptySeq
  <2>3. Status'.job = Len(rows) + 1
    BY <2>1, <2>2 DEF Status, Latest
  <2>4. Status.job <= Len(rows)
    BY <2>2 DEF Status, Latest, Nothing
  <2>5. Status \in Shown
    BY StatusIsShown
  <2> QED
    BY <2>1, <2>2, <2>3, <2>4, <2>5 DEF NoOlder, Shown
<1>3. CASE \E j \in Jobs : rows' = [rows EXCEPT ![j] = "ended"]
  <2>1. PICK j \in Jobs : rows' = [rows EXCEPT ![j] = "ended"]
    BY <1>3
  <2>2. j \in 1..Len(rows) /\ Len(rows) \in Nat /\ rows # <<>>
    BY <2>1 DEF Jobs
  <2>3. /\ rows' \in Seq({"running", "ended"}) /\ Len(rows') = Len(rows)
        /\ \A i \in 1..Len(rows) : rows'[i] = IF i = j THEN "ended" ELSE rows[i]
    BY <2>1, <2>2, ExceptSeq
  <2>4. Len(rows) \in 1..Len(rows) /\ rows' # <<>>
    BY <2>2, <2>3, EmptySeq
  <2>5. /\ Status = [job |-> Len(rows), status |-> rows[Len(rows)]]
        /\ Status' = [job |-> Len(rows), status |-> rows'[Len(rows)]]
    BY <2>2, <2>3, <2>4 DEF Status, Latest
  <2>6. rows[Len(rows)] = "ended" => rows'[Len(rows)] = "ended"
    BY <2>3, <2>4
  <2> QED
    BY <2>3, <2>5, <2>6 DEF NoOlder
<1> QED
  BY <1>1, <1>2, <1>3

LEMMA InitBoard == Init => BoardInv
<1> SUFFICES ASSUME Init PROVE BoardInv
  OBVIOUS
<1>1. rows = <<>> /\ view = Nothing /\ Status = Nothing /\ fetch.pc = "none"
  BY DEF Init, Status, NoRequest
<1> QED
  BY <1>1 DEF BoardInv, Nothing, Shown, NoOlder

\* While only the rows move, or a request is asked anew or dropped.
LEMMA PageStands ==
    ASSUME BoardInv, view' = view, fetch' = fetch \/ fetch'.pc \in {"none", "asked"},
           \/ rows' = rows
           \/ rows' = Append(rows, "running")
           \/ \E j \in Jobs : rows' = [rows EXCEPT ![j] = "ended"]
    PROVE  BoardInv'
<1>1. rows' \in Seq({"running", "ended"}) /\ NoOlder(Status, Status')
  BY RowsMoveOn DEF BoardInv
<1>2. Status \in Shown /\ Status' \in Shown /\ view \in Shown
  <2>1. Status \in Shown
    BY StatusIsShown DEF BoardInv
  <2>2. (rows \in Seq({"running", "ended"}) => Status \in Shown)'
    BY StatusIsShown, PTL
  <2> QED
    BY <1>1, <2>1, <2>2 DEF BoardInv
<1>3. NoOlder(view, Status')
  BY <1>1, <1>2, NoOlderIsTransitive DEF BoardInv
<1>4. CASE fetch' = fetch /\ fetch.pc = "answered"
  BY <1>1, <1>2, <1>3, <1>4, NoOlderIsTransitive DEF BoardInv
<1>5. CASE fetch'.pc # "answered"
  BY <1>1, <1>3, <1>2, <1>5 DEF BoardInv
<1> QED
  BY <1>4, <1>5

LEMMA BoardStep == BoardInv /\ [Next]_vars => BoardInv' /\ [NoOlder(view, view')]_view
<1> SUFFICES ASSUME BoardInv, [Next]_vars
             PROVE  BoardInv' /\ [NoOlder(view, view')]_view
  OBVIOUS
<1>1. CASE PostDownload \/ QuietStart
  BY <1>1, PageStands DEF PostDownload, QuietStart, Started, pageVars
<1>2. CASE \E j \in Jobs : RunStep(j) \/ RunDies(j)
  <2>1. PICK j \in Jobs : RunStep(j) \/ RunDies(j)
    BY <1>2
  <2>2. rows' = rows \/ rows' = [rows EXCEPT ![j] = "ended"]
    BY <2>1 DEF RunStep, RunDies, DownloadBegins, SymbolEnds, SymbolTrains,
                SaveProgress, Finish, AnnounceEnd
  <2>3. view' = view /\ fetch' = fetch
    BY <2>1 DEF RunStep, RunDies, DownloadBegins, SymbolEnds, SymbolTrains,
                SaveProgress, Finish, AnnounceEnd, pageVars
  <2> QED
    BY <2>2, <2>3, PageStands
<1>3. CASE Poll \/ FetchFails \/ OtherEvent \/ Crash
  <2>1. /\ rows' = rows /\ view' = view
        /\ fetch' = fetch \/ fetch'.pc \in {"none", "asked"}
    <3>1. CASE Poll
      BY <3>1 DEF Poll, Asks, NoRequest, jobVars
    <3>2. CASE FetchFails
      BY <3>2 DEF FetchFails, NoRequest, jobVars
    <3>3. CASE OtherEvent
      BY <3>3 DEF OtherEvent, jobVars, pageVars
    <3>4. CASE Crash
      <4>1. rows' = rows /\ view' = view /\ fetch' = NoRequest
        BY <3>4 DEF Crash
      <4> QED
        BY <4>1 DEF NoRequest
    <3> QED
      BY <1>3, <3>1, <3>2, <3>3, <3>4
  <2> QED
    BY <2>1, PageStands
<1>4. CASE \E c \in Connections : Connects(c) \/ Serves(c) \/ SocketDrops(c)
  <2>1. /\ rows' = rows /\ view' = view
        /\ fetch' = fetch \/ fetch'.pc \in {"none", "asked"}
    BY <1>4 DEF Connects, Serves, Greets, Nudges, SocketDrops, Asks, NoRequest,
                jobVars, pageVars
  <2> QED
    BY <2>1, PageStands
<1>5. CASE Answer
  <2>1. /\ rows' = rows /\ view' = view /\ Status' = Status
        /\ fetch'.answer = Status \/ fetch'.pc # "answered"
    BY <1>5 DEF Answer, jobVars, Status, Latest
  <2>2. Status \in Shown /\ NoOlder(Status, Status)
    BY StatusIsShown DEF BoardInv, NoOlder
  <2>3. BoardInv'
    BY <2>1, <2>2 DEF BoardInv
  <2> QED
    BY <2>1, <2>3
<1>6. CASE Land
  <2>1. /\ rows' = rows /\ view' = fetch.answer /\ Status' = Status
        /\ fetch.pc = "answered" /\ fetch'.pc = "none"
    BY <1>6 DEF Land, jobVars, Status, Latest, NoRequest
  <2> QED
    BY <2>1 DEF BoardInv
<1>7. CASE UNCHANGED vars
  BY <1>7, PageStands DEF vars, jobVars, pageVars
<1> QED
  BY <1>1, <1>2, <1>3, <1>4, <1>5, <1>6, <1>7 DEF Next, Reply

\* What the page shows of a job never goes back, whatever order its requests,
\* their answers, faults and events come in.
THEOREM ViewOnlyMovesOn == Spec => ViewNeverGoesBack
  BY InitBoard, BoardStep, PTL DEF Spec, ViewNeverGoesBack

-----------------------------------------------------------------------------
(* The end of a download, on its way to the page *)

\* Something will have the page of c ask again: the greeting it has not sent,
\* or a "status" event, in its hands or in its queue. Unless other events
\* pushed it out.
Nudged(c) ==
    \/ missed
    \/ handler[c] = "greeting"
    \/ handler[c] = "sending" /\ held[c] = <<"status">>
    \/ \E i \in 1..Len(queue[c]) : queue[c][i].name = "status"

\* The page shows the latest job, or is about to, or has asked, or could not.
Fresh == \/ fetch.pc = "asked"
         \/ fetch.pc = "answered" /\ fetch.answer = Status
         \/ fetch.pc = "none" /\ (view = Status \/ statusError)

\* The latest download ended and said so, if it was there to say it.
EndSaid == kind = "download" /\ Status.status = "ended" /\ ~At(Latest, "ending")

\* Where the coroutine of a run can be
RunnerPCs == {"posted", "working", "fitting", "promoting", "saving", "finishing",
              "ending", "gone"}

Requests == [pc : {"none", "asked", "answered"}, poll : BOOLEAN, answer : Shown]

CurrentInv ==
    /\ rows \in Seq({"running", "ended"})
    /\ runner \in Seq([pc : RunnerPCs, done : Int]) /\ Len(runner) = Len(rows)
    /\ fetch \in Requests
    /\ \A c \in Connections :
         peer[c] = "open" => handler[c] \in {"greeting", "waiting", "sending"}
    /\ EndSaid => \A c \in Connections : peer[c] = "open" => Nudged(c) \/ Fresh

\* An event more is the last of a queue, and all but the oldest stay in it.
LEMMA EnqueuedKeeps ==
    ASSUME NEW q \in Seq(Events), NEW e \in Events, Len(q) <= QueueSize
    PROVE  /\ \E i \in 1..Len(Enqueued(q, e)) : Enqueued(q, e)[i] = e
           /\ \A n \in 1..Len(q) :
                \/ n = 1 /\ Len(q) = QueueSize
                \/ \E i \in 1..Len(Enqueued(q, e)) : Enqueued(q, e)[i] = q[n]
<1>1. Len(q) \in Nat
  OBVIOUS
<1>2. CASE Len(q) < QueueSize
  <2> DEFINE r == Append(q, e)
  <2>1. Enqueued(q, e) = r
    BY <1>2 DEF Enqueued
  <2>2. /\ Len(r) = Len(q) + 1 /\ r[Len(q) + 1] = e
        /\ \A i \in 1..Len(q) : r[i] = q[i]
    BY AppendProperties
  <2> HIDE DEF r
  <2>3. Len(q) + 1 \in 1..Len(r) /\ \A n \in 1..Len(q) : n \in 1..Len(r)
    BY <1>1, <2>2
  <2> QED
    BY <2>1, <2>2, <2>3
<1>3. CASE Len(q) = QueueSize
  <2> DEFINE t == Tail(q)
             r == Append(t, e)
  <2>1. Enqueued(q, e) = r
    BY <1>3 DEF Enqueued
  <2>2. /\ t \in Seq(Events) /\ Len(t) = Len(q) - 1
        /\ \A i \in 1..Len(t) : t[i] = q[i + 1]
    BY <1>3, HeadTailProperties
  <2>3. /\ Len(r) = Len(t) + 1 /\ r[Len(t) + 1] = e
        /\ \A i \in 1..Len(t) : r[i] = t[i]
    BY <2>2, AppendProperties
  <2> HIDE DEF t, r
  <2>4. Len(t) + 1 \in 1..Len(r)
    BY <1>1, <1>3, <2>2, <2>3
  <2>5. \A n \in 1..Len(q) : n # 1 => n - 1 \in 1..Len(r) /\ r[n - 1] = q[n]
    <3> SUFFICES ASSUME NEW n \in 1..Len(q), n # 1
                 PROVE  n - 1 \in 1..Len(r) /\ r[n - 1] = q[n]
      OBVIOUS
    <3>1. n - 1 \in 1..Len(t) /\ (n - 1) + 1 = n
      BY <1>1, <2>2
    <3> QED
      BY <1>1, <2>2, <2>3, <3>1
  <2> QED
    BY <1>3, <2>1, <2>3, <2>4, <2>5
<1> QED
  BY <1>1, <1>2, <1>3

\* A "status" event nudges every page that is connected.
LEMMA StatusNudges ==
    ASSUME BusInv, Publish("status"), NEW c \in Connections, Subscribed(c)
    PROVE  Nudged(c)'
<1> DEFINE e == [at |-> published + 1, name |-> "status"]
<1>1. e \in Events /\ queue[c] \in Seq(Events) /\ Len(queue[c]) <= QueueSize
  <2>1. Suffix(queue[c], taken[c], published)
    BY SuffixOfEach DEF BusInv
  <2>2. queue[c] \in Seq(Events) /\ published \in Nat
    BY DEF BusInv, BusTypeOK
  <2>3. e \in Events
    BY <2>2 DEF Events
  <2> QED
    BY <2>1, <2>2, <2>3 DEF Suffix
<1>2. queue'[c] = Enqueued(queue[c], e) /\ e.name = "status"
  BY DEF Publish
<1> HIDE DEF e
<1>3. PICK i \in 1..Len(queue'[c]) : queue'[c][i] = e
  BY <1>1, <1>2, EnqueuedKeeps
<1> QED
  BY <1>2, <1>3 DEF Nudged

\* Any other leaves a nudge where it is, or counts as one that pushed it out.
LEMMA EventsKeepNudge ==
    ASSUME BusInv, NEW name \in Names, Publish(name), NEW c \in Connections,
           Subscribed(c), Nudged(c), missed => missed',
           name # "status" /\ Len(queue[c]) = QueueSize
               /\ Head(queue[c]).name = "status" => missed'
    PROVE  Nudged(c)'
<1>1. CASE name = "status"
  BY <1>1, StatusNudges
<1>2. CASE name # "status"
  <2> DEFINE e == [at |-> published + 1, name |-> name]
  <2>1. e \in Events /\ queue[c] \in Seq(Events) /\ Len(queue[c]) <= QueueSize
    <3>1. Suffix(queue[c], taken[c], published)
      BY SuffixOfEach DEF BusInv
    <3>2. queue[c] \in Seq(Events) /\ published \in Nat
      BY DEF BusInv, BusTypeOK
    <3>3. e \in Events
      BY <3>2 DEF Events
    <3> QED
      BY <3>1, <3>2, <3>3 DEF Suffix
  <2>2. /\ queue'[c] = Enqueued(queue[c], e)
        /\ handler' = handler /\ held' = held
    BY DEF Publish
  <2> HIDE DEF e
  <2>3. CASE \E i \in 1..Len(queue[c]) : queue[c][i].name = "status"
    <3>1. PICK n \in 1..Len(queue[c]) : queue[c][n].name = "status"
      BY <2>3
    <3>2. CASE n = 1 /\ Len(queue[c]) = QueueSize
      <4>1. Head(queue[c]) = queue[c][1]
        BY <2>1, <3>2
      <4> QED
        BY <1>2, <3>1, <3>2, <4>1 DEF Nudged
    <3>3. CASE \E i \in 1..Len(queue'[c]) : queue'[c][i] = queue[c][n]
      BY <3>1, <3>3 DEF Nudged
    <3>4. \/ n = 1 /\ Len(queue[c]) = QueueSize
          \/ \E i \in 1..Len(queue'[c]) : queue'[c][i] = queue[c][n]
      <4>1. \A m \in 1..Len(queue[c]) :
               \/ m = 1 /\ Len(queue[c]) = QueueSize
               \/ \E i \in 1..Len(Enqueued(queue[c], e)) :
                    Enqueued(queue[c], e)[i] = queue[c][m]
        BY <2>1, EnqueuedKeeps
      <4> QED
        BY <2>2, <3>1, <4>1
    <3> QED
      BY <3>2, <3>3, <3>4
  <2> QED
    BY <2>2, <2>3 DEF Nudged
<1> QED
  BY <1>1, <1>2

\* A handler that takes an event out takes the nudge in its hands, or leaves
\* it in the queue.
LEMMA TakeKeepsNudge ==
    ASSUME BusInv, NEW c \in Connections, Take(c), Nudged(c), missed => missed'
    PROVE  Nudged(c)'
<1> DEFINE q == queue[c]
<1>1. /\ q \in Seq(Events) /\ q # <<>>
      /\ queue \in [Connections -> Seq(Events)]
      /\ handler \in [Connections -> HandlerPCs] /\ held \in [Connections -> Seq(Names)]
  BY DEF Take, BusInv, BusTypeOK
<1>2. /\ queue'[c] = Tail(q) /\ handler[c] = "waiting"
      /\ held'[c] = <<Head(q).name>> /\ handler'[c] = "sending"
  BY <1>1 DEF Take
<1>3. CASE \E i \in 1..Len(q) : q[i].name = "status"
  <2>1. PICK n \in 1..Len(q) : q[n].name = "status"
    BY <1>3
  <2>2. CASE n = 1
    <3>1. Head(q) = q[n]
      BY <1>1, <2>2
    <3> QED
      BY <1>2, <2>1, <3>1 DEF Nudged
  <2>3. CASE n # 1
    <3>1. /\ Len(Tail(q)) = Len(q) - 1 /\ Len(q) \in Nat
          /\ \A i \in 1..Len(Tail(q)) : Tail(q)[i] = q[i + 1]
      BY <1>1, HeadTailProperties
    <3>2. n - 1 \in 1..Len(Tail(q)) /\ (n - 1) + 1 = n
      BY <2>1, <2>3, <3>1
    <3>3. Tail(q)[n - 1] = q[n]
      BY <3>1, <3>2
    <3> QED
      BY <1>2, <2>1, <3>2, <3>3 DEF Nudged
  <2> QED
    BY <2>2, <2>3
<1> QED
  BY <1>2, <1>3 DEF Nudged

-----------------------------------------------------------------------------
(* What the jobs do to it *)

\* A run moves from one place to another.
LEMMA RunnerMoves ==
    ASSUME CurrentInv, NEW j \in Jobs, rows' = rows \/ rows' = [rows EXCEPT ![j] = "ended"],
           NEW pc \in RunnerPCs,
           Moves(j, pc) \/ (Done(j) /\ pc = "saving")
    PROVE  /\ rows' \in Seq({"running", "ended"}) /\ Len(rows') = Len(rows)
           /\ runner' \in Seq([pc : RunnerPCs, done : Int]) /\ Len(runner') = Len(rows')
           /\ runner'[j].pc = pc
           /\ \A i \in Jobs : i # j => runner'[i] = runner[i] /\ rows'[i] = rows[i]
<1> DEFINE Runner == [pc : RunnerPCs, done : Int]
<1>1. /\ rows \in Seq({"running", "ended"}) /\ runner \in Seq(Runner)
      /\ Len(runner) = Len(rows) /\ j \in 1..Len(runner) /\ j \in 1..Len(rows)
  BY DEF CurrentInv, Jobs
<1>2. runner[j] \in Runner
  <2> HIDE DEF Runner
  <2> QED
    BY <1>1, ElementOfSeq
<1>3. PICK r \in Runner : r.pc = pc /\ runner' = [runner EXCEPT ![j] = r]
  <2>1. [runner[j] EXCEPT !.pc = pc] \in Runner
    BY <1>2
  <2>2. [pc |-> "saving", done |-> runner[j].done + 1] \in Runner
    <3>1. runner[j].done \in Int
      BY <1>2
    <3> QED
      BY <3>1 DEF RunnerPCs
  <2> QED
    BY <1>2, <2>1, <2>2 DEF Moves, Done
<1>4. /\ runner' \in Seq(Runner) /\ Len(runner') = Len(runner)
      /\ \A i \in 1..Len(runner) : runner'[i] = IF i = j THEN r ELSE runner[i]
  BY <1>1, <1>3, ExceptSeq
<1>5. /\ rows' \in Seq({"running", "ended"}) /\ Len(rows') = Len(rows)
      /\ \A i \in 1..Len(rows) : i # j => rows'[i] = rows[i]
  <2>1. CASE rows' = [rows EXCEPT ![j] = "ended"]
    BY <1>1, <2>1, ExceptSeq
  <2> QED
    BY <1>1, <2>1
<1> QED
  BY <1>1, <1>3, <1>4, <1>5 DEF Jobs

\* The status of the latest job is that of the last row.
LEMMA LastRow ==
    ASSUME rows \in Seq({"running", "ended"})
    PROVE  Status.status = "ended" =>
             /\ Latest \in Jobs /\ rows[Latest] = "ended"
             /\ Status = [job |-> Len(rows), status |-> rows[Len(rows)]]
<1>1. CASE rows = <<>>
  BY <1>1 DEF Status, Nothing
<1>2. CASE rows # <<>>
  <2>1. Len(rows) \in 1..Len(rows)
    BY <1>2, EmptySeq
  <2> QED
    BY <1>2, <2>1 DEF Status, Latest, Jobs
<1> QED
  BY <1>1, <1>2

LEMMA LastRowNext ==
    ASSUME rows' \in Seq({"running", "ended"})
    PROVE  Status'.status = "ended" =>
             /\ Latest' \in Jobs' /\ rows'[Latest'] = "ended"
             /\ Status' = [job |-> Len(rows'), status |-> rows'[Len(rows')]]
<1>1. (rows \in Seq({"running", "ended"}) => (Status.status = "ended" =>
             /\ Latest \in Jobs /\ rows[Latest] = "ended"
             /\ Status = [job |-> Len(rows), status |-> rows[Len(rows)]]))'
  BY LastRow, PTL
<1> QED
  BY <1>1

\* A run that saves, dies or finishes without a word: a download that the step
\* ends has its end to announce.
LEMMA QuietRun ==
    ASSUME CurrentInv, NEW j \in Jobs, kind' = kind,
           At(j, "saving") \/ At(j, "finishing"),
           NEW pc \in RunnerPCs, Moves(j, pc),
           \/ rows' = rows
           \/ /\ rows' = [rows EXCEPT ![j] = "ended"]
              /\ kind = "download" => pc = "ending"
    PROVE  EndSaid' => EndSaid /\ Status' = Status
<1> SUFFICES ASSUME EndSaid' PROVE EndSaid /\ Status' = Status
  OBVIOUS
<1>1. /\ rows' \in Seq({"running", "ended"}) /\ Len(rows') = Len(rows)
      /\ runner'[j].pc = pc
      /\ \A i \in Jobs : i # j => runner'[i] = runner[i] /\ rows'[i] = rows[i]
  BY RunnerMoves
<1>2. /\ Jobs' = Jobs /\ Latest' = Latest /\ Latest = Len(rows)
      /\ kind = "download" /\ Latest \in Jobs
      /\ rows'[Latest] = "ended" /\ runner'[Latest].pc # "ending"
      /\ Status' = [job |-> Len(rows), status |-> "ended"]
  BY <1>1, LastRowNext DEF EndSaid, At, Jobs, Latest
<1>3. rows[Latest] = "ended" /\ ~At(Latest, "ending")
  <2>1. CASE Latest = j
    BY <1>1, <1>2, <2>1 DEF At
  <2>2. CASE Latest # j
    BY <1>1, <1>2, <2>2 DEF At
  <2> QED
    BY <2>1, <2>2
<1>4. rows # <<>>
  BY <1>2 DEF Jobs
<1>5. Status = [job |-> Len(rows), status |-> "ended"]
  BY <1>2, <1>3, <1>4 DEF Status
<1> QED
  BY <1>2, <1>3, <1>5 DEF EndSaid

\* With nothing done on the line or to the page, an end that was said before
\* is on its way still.
LEMMA LineStands ==
    ASSUME CurrentInv,
           rows' \in Seq({"running", "ended"}),
           runner' \in Seq([pc : RunnerPCs, done : Int]), Len(runner') = Len(rows'),
           UNCHANGED <<queue, handler, held, peer, pageVars, missed>>,
           EndSaid' => EndSaid /\ Status' = Status
    PROVE  CurrentInv'
<1>1. UNCHANGED <<view, fetch, statusError>>
  BY DEF pageVars
<1>2. \A c \in Connections : Nudged(c)' <=> Nudged(c)
  BY DEF Nudged
<1>3. EndSaid' /\ Fresh => Fresh'
  BY <1>1 DEF Fresh
<1>4. EndSaid' => \A c \in Connections : peer'[c] = "open" => Nudged(c)' \/ Fresh'
  BY <1>2, <1>3 DEF CurrentInv
<1> QED
  BY <1>1, <1>4 DEF CurrentInv

\* What is announced of a run reaches every page that is connected.
LEMMA Announced ==
    ASSUME BusInv, CurrentInv, Publish("status"), fetch' = fetch,
           rows' \in Seq({"running", "ended"}),
           runner' \in Seq([pc : RunnerPCs, done : Int]), Len(runner') = Len(rows')
    PROVE  CurrentInv'
<1>1. UNCHANGED <<handler, peer>>
  BY DEF Publish
<1>2. \A c \in Connections : peer'[c] = "open" => Nudged(c)'
  <2> SUFFICES ASSUME NEW c \in Connections, peer'[c] = "open" PROVE Nudged(c)'
    OBVIOUS
  <2>1. Subscribed(c)
    BY <1>1 DEF CurrentInv, Subscribed
  <2> QED
    BY <2>1, StatusNudges
<1> QED
  BY <1>1, <1>2 DEF CurrentInv

\* A run that starts is the latest, and has not ended.
LEMMA StartCurrent ==
    ASSUME CurrentInv, PostDownload \/ QuietStart
    PROVE  CurrentInv'
<1>1. PICK pc \in {"posted", "working"} :
         /\ rows' = Append(rows, "running")
         /\ runner' = Append(runner, [pc |-> pc, done |-> 0])
  BY DEF PostDownload, QuietStart, Started
<1>2. /\ rows' \in Seq({"running", "ended"}) /\ Len(rows') = Len(rows) + 1
      /\ rows'[Len(rows) + 1] = "running"
  BY <1>1, AppendProperties DEF CurrentInv
<1>3. [pc |-> pc, done |-> 0] \in [pc : RunnerPCs, done : Int]
  BY DEF RunnerPCs
<1>4. /\ runner' \in Seq([pc : RunnerPCs, done : Int])
      /\ Len(runner') = Len(runner) + 1
  BY <1>1, <1>3, AppendProperties DEF CurrentInv
<1>5. ~EndSaid'
  BY <1>2, LastRowNext DEF EndSaid, Latest
<1>6. UNCHANGED <<queue, handler, held, peer, pageVars, missed>>
  BY DEF PostDownload, QuietStart, busVars, counts
<1> QED
  BY <1>2, <1>4, <1>5, <1>6, LineStands DEF CurrentInv

LEMMA RunCurrent ==
    ASSUME BusInv, CurrentInv, NEW j \in Jobs, RunStep(j) \/ RunDies(j)
    PROVE  CurrentInv'
<1>1. CASE DownloadBegins(j) \/ SymbolEnds(j) \/ SymbolTrains(j) \/ AnnounceEnd(j)
  <2>1. /\ Publish("status") /\ rows' = rows /\ fetch' = fetch
        /\ \E pc \in RunnerPCs : Moves(j, pc) \/ (Done(j) /\ pc = "saving")
    BY <1>1 DEF DownloadBegins, SymbolEnds, SymbolTrains, AnnounceEnd, pageVars, RunnerPCs
  <2>2. /\ rows' \in Seq({"running", "ended"})
        /\ runner' \in Seq([pc : RunnerPCs, done : Int]) /\ Len(runner') = Len(rows')
    BY <2>1, RunnerMoves
  <2> QED
    BY <2>1, <2>2, Announced
<1>2. CASE SaveProgress(j) \/ Finish(j) \/ RunDies(j)
  <2>1. PICK pc \in RunnerPCs :
           /\ Moves(j, pc)
           /\ \/ rows' = rows
              \/ /\ rows' = [rows EXCEPT ![j] = "ended"]
                 /\ kind = "download" => pc = "ending"
    BY <1>2 DEF SaveProgress, Finish, RunDies, RunnerPCs
  <2>2. /\ At(j, "saving") \/ At(j, "finishing")
        /\ kind' = kind
        /\ UNCHANGED <<queue, handler, held, peer, pageVars, missed>>
    BY <1>2 DEF SaveProgress, Finish, RunDies, Fault, busVars, counts
  <2>3. /\ rows' \in Seq({"running", "ended"})
        /\ runner' \in Seq([pc : RunnerPCs, done : Int]) /\ Len(runner') = Len(rows')
    BY <2>1, RunnerMoves
  <2>4. EndSaid' => EndSaid /\ Status' = Status
    BY <2>1, <2>2, QuietRun
  <2> QED
    BY <2>2, <2>3, <2>4, LineStands
<1> QED
  BY <1>1, <1>2 DEF RunStep

-----------------------------------------------------------------------------
(* What the line and the page do to it *)

LEMMA NewRequests ==
    /\ NoRequest \in Requests
    /\ \A poll \in BOOLEAN : [NoRequest EXCEPT !.pc = "asked", !.poll = poll] \in Requests
<1>1. Nothing \in Shown
  BY DEF Nothing, Shown
<1> QED
  BY <1>1 DEF NoRequest, Requests

\* A page that has asked, or shows what it was told, is as fresh as it can be.
LEMMA PageCurrent ==
    ASSUME CurrentInv, Poll \/ Reply \/ FetchFails
    PROVE  CurrentInv'
<1>1. UNCHANGED <<kind, rows, runner, queue, handler, held, peer, missed>>
  BY DEF Poll, Reply, Answer, Land, FetchFails, Fault, busVars, jobVars, counts
<1>2. /\ Status' = Status /\ (EndSaid' <=> EndSaid)
      /\ \A c \in Connections : Nudged(c)' <=> Nudged(c)
  BY <1>1 DEF Status, Latest, EndSaid, At, Jobs, Nudged
<1>3. fetch' \in Requests
  <2>1. Nothing \in Shown /\ Status \in Shown
    BY StatusIsShown DEF CurrentInv, Nothing, Shown
  <2>2. /\ NoRequest \in Requests
        /\ \A poll \in BOOLEAN : [NoRequest EXCEPT !.pc = "asked", !.poll = poll] \in Requests
    BY NewRequests
  <2>3. [fetch EXCEPT !.pc = "answered", !.answer = Status] \in Requests
    BY <2>1 DEF CurrentInv, Requests
  <2> QED
    BY <2>2, <2>3 DEF Poll, Reply, Answer, Land, FetchFails, Asks
<1>4. Fresh => Fresh'
  <2>1. CASE Poll
    BY <2>1 DEF Poll, Asks, Fresh, NoRequest
  <2>2. CASE Answer
    BY <1>2, <2>2 DEF Answer, Fresh, CurrentInv, Requests
  <2>3. CASE Land
    BY <1>2, <2>3 DEF Land, Fresh, NoRequest
  <2>4. CASE FetchFails
    BY <2>4 DEF FetchFails, Fresh, NoRequest
  <2> QED
    BY <2>1, <2>2, <2>3, <2>4 DEF Reply
<1> QED
  BY <1>1, <1>2, <1>3, <1>4 DEF CurrentInv

\* With a browser connected anew its greeting comes; a nudge that arrives has
\* the page ask; and a browser that goes has no page to show.
LEMMA LineCurrent ==
    ASSUME BusInv, CurrentInv, NEW c \in Connections,
           Connects(c) \/ Serves(c) \/ SocketDrops(c)
    PROVE  CurrentInv'
<1>1. /\ UNCHANGED <<kind, rows, runner, view, statusError, missed>>
      /\ fetch' = fetch \/ Asks(FALSE)
  BY DEF Connects, Serves, Greets, Nudges, SocketDrops, Fault, jobVars, pageVars, counts
<1>2. Status' = Status /\ (EndSaid' <=> EndSaid)
  BY <1>1 DEF Status, Latest, EndSaid, At, Jobs
<1>3. Fresh => Fresh'
  BY <1>1, <1>2 DEF Fresh, Asks, NoRequest
<1>4. /\ handler \in [Connections -> HandlerPCs] /\ peer \in [Connections -> {"none", "open", "gone"}]
      /\ queue \in [Connections -> Seq(Events)] /\ held \in [Connections -> Seq(Names)]
  BY DEF BusInv, BusTypeOK
<1>5. Accept(c) \/ Greet(c) \/ GreetFails(c) \/ Take(c) \/ Send(c) \/ SendFails(c) \/ Disconnect(c)
  BY DEF Connects, Serves, Greets, Nudges, SocketDrops
<1>6. \A d \in Connections \ {c} :
         /\ handler'[d] = handler[d] /\ peer'[d] = peer[d]
         /\ queue'[d] = queue[d] /\ held'[d] = held[d]
  BY <1>4, <1>5 DEF Accept, Greet, GreetFails, Take, Send, SendFails, Unsubscribes, Disconnect
<1>7. \A d \in Connections \ {c} : Nudged(d)' <=> Nudged(d)
  BY <1>1, <1>6 DEF Nudged
<1>8. peer'[c] = "open" => /\ handler'[c] \in {"greeting", "waiting", "sending"}
                           /\ peer[c] = "open" \/ handler'[c] = "greeting"
  BY <1>4, <1>5 DEF CurrentInv, Accept, Greet, GreetFails, Take, Send, SendFails,
                    Unsubscribes, Disconnect
<1>9. ASSUME EndSaid, peer'[c] = "open" PROVE Nudged(c)' \/ Fresh'
  <2>1. CASE Connects(c)
    BY <1>4, <2>1 DEF Connects, Accept, Nudged
  <2>2. CASE Greets(c)
    BY <2>2 DEF Greets, Asks, Fresh, NoRequest
  <2>3. CASE Nudges(c)
    <3>1. CASE held[c] = <<"status">>
      BY <2>3, <3>1 DEF Nudges, Asks, Fresh, NoRequest
    <3>2. CASE held[c] # <<"status">>
      <4>1. /\ handler[c] = "sending" /\ peer[c] = "open" /\ queue' = queue
        BY <2>3 DEF Nudges, Send
      <4>2. Nudged(c) => Nudged(c)'
        BY <1>1, <3>2, <4>1 DEF Nudged
      <4> QED
        BY <1>3, <1>9, <4>1, <4>2 DEF CurrentInv
    <3> QED
      BY <3>1, <3>2
  <2>4. CASE Take(c)
    <3>1. peer[c] = "open"
      BY <1>9, <2>4 DEF Take
    <3>2. Nudged(c) => Nudged(c)'
      BY <1>1, <2>4, TakeKeepsNudge
    <3> QED
      BY <1>3, <1>9, <3>1, <3>2 DEF CurrentInv
  <2>5. CASE GreetFails(c) \/ SendFails(c) \/ SocketDrops(c)
    BY <1>4, <1>9, <2>5 DEF GreetFails, SendFails, Unsubscribes, SocketDrops, Disconnect
  <2> QED
    BY <2>1, <2>2, <2>3, <2>4, <2>5 DEF Serves
<1>10. EndSaid' => \A d \in Connections : peer'[d] = "open" => Nudged(d)' \/ Fresh'
  <2> SUFFICES ASSUME EndSaid, NEW d \in Connections, peer'[d] = "open"
               PROVE  Nudged(d)' \/ Fresh'
    BY <1>2
  <2>1. CASE d = c
    BY <1>9, <2>1
  <2>2. CASE d # c
    BY <1>3, <1>6, <1>7, <2>2 DEF CurrentInv
  <2> QED
    BY <2>1, <2>2
<1>11. \A d \in Connections :
          peer'[d] = "open" => handler'[d] \in {"greeting", "waiting", "sending"}
  BY <1>6, <1>8 DEF CurrentInv
<1>12. fetch' \in Requests
  <2>1. Asks(FALSE) => fetch' \in Requests
    BY NewRequests DEF Asks
  <2> QED
    BY <1>1, <2>1 DEF CurrentInv
<1> QED
  BY <1>1, <1>10, <1>11, <1>12 DEF CurrentInv

LEMMA OtherCurrent == ASSUME BusInv, CurrentInv, OtherEvent PROVE CurrentInv'
<1>1. PICK name \in Names :
         /\ Publish(name)
         /\ missed' = \/ missed
                      \/ name # "status" /\ \E c \in Connections :
                            /\ Subscribed(c) /\ Len(queue[c]) = QueueSize
                            /\ Head(queue[c]).name = "status"
  BY DEF OtherEvent
<1>2. UNCHANGED <<kind, rows, runner, view, fetch, statusError, handler, peer>>
  BY <1>1 DEF OtherEvent, jobVars, pageVars, Publish
<1>3. /\ Status' = Status /\ (EndSaid' <=> EndSaid)
      /\ Fresh' <=> Fresh
  BY <1>2 DEF Status, Latest, EndSaid, At, Jobs, Fresh
<1>4. \A c \in Connections : peer[c] = "open" /\ Nudged(c) => Nudged(c)'
  <2> SUFFICES ASSUME NEW c \in Connections, peer[c] = "open", Nudged(c) PROVE Nudged(c)'
    OBVIOUS
  <2>1. Subscribed(c)
    BY DEF CurrentInv, Subscribed
  <2> QED
    BY <1>1, <2>1, EventsKeepNudge
<1> QED
  BY <1>2, <1>3, <1>4 DEF CurrentInv

\* After a crash no browser is connected.
LEMMA CrashCurrent == ASSUME CurrentInv, Crash PROVE CurrentInv'
<1>1. /\ rows' = rows /\ fetch' = NoRequest
      /\ peer' = [c \in Connections |-> "none"]
      /\ runner' = [j \in Jobs |-> [runner[j] EXCEPT !.pc = "gone"]]
  BY DEF Crash, BusDies
<1>2. \A j \in 1..Len(rows) : [runner[j] EXCEPT !.pc = "gone"] \in [pc : RunnerPCs, done : Int]
  <2> SUFFICES ASSUME NEW j \in 1..Len(rows)
               PROVE  [runner[j] EXCEPT !.pc = "gone"] \in [pc : RunnerPCs, done : Int]
    OBVIOUS
  <2>1. runner[j] \in [pc : RunnerPCs, done : Int]
    BY ElementOfSeq DEF CurrentInv
  <2> QED
    BY <2>1 DEF RunnerPCs
<1>3. /\ runner' \in Seq([pc : RunnerPCs, done : Int]) /\ Len(runner') = Len(rows')
  BY <1>1, <1>2 DEF Jobs, CurrentInv
<1> QED
  BY <1>1, <1>3 DEF CurrentInv, NoRequest, Requests, Nothing, Shown

LEMMA InitCurrent == Init => BusInv /\ CurrentInv
<1> SUFFICES ASSUME Init PROVE BusInv /\ CurrentInv
  OBVIOUS
<1>1. BusInv
  BY InitBus DEF Init
<1>2. /\ rows = <<>> /\ runner = <<>> /\ fetch = NoRequest
      /\ Status = Nothing /\ view = Status /\ peer = [c \in Connections |-> "none"]
  BY DEF Init, BusInit, Status
<1>3. /\ <<>> \in Seq({"running", "ended"}) /\ <<>> \in Seq([pc : RunnerPCs, done : Int])
      /\ Nothing.status # "ended" /\ NoRequest \in Requests
  BY DEF Nothing, NoRequest, Requests, Shown
<1> QED
  BY <1>1, <1>2, <1>3 DEF CurrentInv

LEMMA CurrentStep == BusInv /\ CurrentInv /\ [Next]_vars => CurrentInv'
<1> SUFFICES ASSUME BusInv, CurrentInv, [Next]_vars PROVE CurrentInv'
  OBVIOUS
<1>1. CASE PostDownload \/ QuietStart
  BY <1>1, StartCurrent
<1>2. CASE \E j \in Jobs : RunStep(j) \/ RunDies(j)
  BY <1>2, RunCurrent
<1>3. CASE Poll \/ Reply \/ FetchFails
  BY <1>3, PageCurrent
<1>4. CASE \E c \in Connections : Connects(c) \/ Serves(c) \/ SocketDrops(c)
  BY <1>4, LineCurrent
<1>5. CASE OtherEvent
  BY <1>5, OtherCurrent
<1>6. CASE Crash
  BY <1>6, CrashCurrent
<1>7. CASE UNCHANGED vars
  <2>1. UNCHANGED <<kind, rows, runner, view, fetch, statusError, missed>>
    BY <1>7 DEF vars, jobVars, pageVars, counts
  <2>2. UNCHANGED <<queue, handler, held, peer>>
    BY <1>7 DEF vars, busVars
  <2>3. EndSaid' <=> EndSaid
    BY <2>1 DEF Status, Latest, EndSaid, At, Jobs
  <2>4. Status' = Status
    BY <2>1 DEF Status, Latest
  <2> QED
    BY <2>1, <2>2, <2>3, <2>4, LineStands DEF CurrentInv, pageVars
<1> QED
  BY <1>1, <1>2, <1>3, <1>4, <1>5, <1>6, <1>7 DEF Next

\* Once the line is quiet, the page shows the end of the latest download,
\* whatever runs, faults, events and requests came before.
THEOREM QuietBoardIsCurrent == Spec => []QuietMeansCurrent
<1>1. CurrentInv => QuietMeansCurrent
  <2> SUFFICES ASSUME CurrentInv, LineQuiet, kind = "download",
                      \A j \in Jobs : ~At(j, "ending"), Status.status = "ended"
               PROVE  view = Status
    BY DEF QuietMeansCurrent
  <2>1. PICK c \in Connections : peer[c] = "open" /\ handler[c] = "waiting" /\ queue[c] = <<>>
    BY DEF LineQuiet
  <2>2. ~Nudged(c)
    BY <2>1 DEF LineQuiet, Nudged
  <2>3. EndSaid
    BY DEF EndSaid, At
  <2>4. Fresh
    BY <2>1, <2>2, <2>3 DEF CurrentInv
  <2> QED
    BY <2>4 DEF Fresh, LineQuiet
<1>2. BusSpec => []BusInv
  BY InitBus, BusStep, PTL DEF BusSpec
<1>3. Spec => []BusInv
  BY <1>2, BoardRunsBus, PTL
<1>4. Init => CurrentInv
  BY InitCurrent
<1>5. Spec => []CurrentInv
  BY <1>3, <1>4, CurrentStep, PTL DEF Spec
<1> QED
  BY <1>1, <1>5, PTL
=============================================================================
