------------------------------ MODULE EventFeed ------------------------------
(***************************************************************************)
(* What subscribers of an actor may rely on: a feed of events that each of *)
(* them reads in order from where it joined. Only a subscriber that is     *)
(* more than Window events behind misses any, the oldest ones; after the   *)
(* end of the feed everyone reads on to its last event and leaves.         *)
(***************************************************************************)
EXTENDS Integers, Sequences

CONSTANTS Sinks, Events, Window

VARIABLES feed, open, status, at, log

vars == <<feed, open, status, at, log>>

Init ==
    /\ feed = <<>> /\ open = TRUE
    /\ status = [s \in Sinks |-> "out"] /\ at = [s \in Sinks |-> 0]
    /\ log = [s \in Sinks |-> <<>>]

Emit ==
    /\ open
    /\ \E e \in Events : feed' = Append(feed, e)
    /\ UNCHANGED <<open, status, at, log>>

Close == open /\ open' = FALSE /\ UNCHANGED <<feed, status, at, log>>

Join(s) ==
    /\ status[s] = "out"
    /\ status' = [status EXCEPT ![s] = "in"]
    /\ at' = [at EXCEPT ![s] = Len(feed)]
    /\ UNCHANGED <<feed, open, log>>

Deliver(s) ==
    /\ status[s] = "in" /\ at[s] < Len(feed) /\ Len(feed) <= at[s] + Window
    /\ log' = [log EXCEPT ![s] = Append(@, feed[at[s] + 1])]
    /\ at' = [at EXCEPT ![s] = @ + 1]
    /\ UNCHANGED <<feed, open, status>>

Skip(s) ==
    /\ status[s] = "in" /\ at[s] + Window < Len(feed)
    /\ at' = [at EXCEPT ![s] = Len(feed) - Window]
    /\ UNCHANGED <<feed, open, status, log>>

Leave(s) ==
    /\ status[s] = "in" /\ ~open /\ at[s] = Len(feed)
    /\ status' = [status EXCEPT ![s] = "ended"]
    /\ UNCHANGED <<feed, open, at, log>>

Next == \/ Emit \/ Close
        \/ \E s \in Sinks : Join(s) \/ Deliver(s) \/ Skip(s) \/ Leave(s)

Spec == Init /\ [][Next]_vars

=============================================================================
