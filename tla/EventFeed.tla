------------------------------ MODULE EventFeed ------------------------------
(***************************************************************************)
(* What the event bus promises a subscriber: from the moment it joins, the   *)
(* events in the order they were published, each at most once, and all of     *)
(* them but those that QueueSize newer ones pushed out before their turn.    *)
(* Events are numbered as they are published. Publishing waits for nobody.   *)
(***************************************************************************)
EXTENDS Integers

CONSTANTS Subscribers, QueueSize

VARIABLES published,  \* the number of events so far
          joined,     \* who is subscribed
          seen        \* subscriber -> the event it was last given, or the
                      \* latest one when it joined (0 for the others)

vars == <<published, joined, seen>>

Init == /\ published = 0
        /\ joined = {}
        /\ seen = [c \in Subscribers |-> 0]

Publish ==
    /\ published' = published + 1
    /\ UNCHANGED <<joined, seen>>

Join(c) ==
    /\ c \notin joined
    /\ joined' = joined \cup {c}
    /\ seen' = [seen EXCEPT ![c] = published]
    /\ UNCHANGED published

\* The next event, or the oldest that was not pushed out yet.
Deliver(c) ==
    /\ c \in joined
    /\ seen[c] < published
    /\ \E n \in {seen[c] + 1, published - QueueSize + 1} :
         /\ n >= seen[c] + 1 /\ n >= published - QueueSize + 1
         /\ seen' = [seen EXCEPT ![c] = n]
    /\ UNCHANGED <<published, joined>>

Leave(S) ==
    /\ S # {} /\ S \subseteq joined
    /\ joined' = joined \ S
    /\ seen' = [c \in Subscribers |-> IF c \in S THEN 0 ELSE seen[c]]
    /\ UNCHANGED published

Next == \/ Publish
        \/ \E c \in Subscribers : Join(c) \/ Deliver(c)
        \/ \E S \in SUBSET Subscribers : Leave(S)

Spec == Init /\ [][Next]_vars
=============================================================================
