------------------------------ MODULE KeyValue ------------------------------
(***************************************************************************)
(* What a database promises the stores that share it: each owner has a     *)
(* state and numbered events of its own, and an operation of one owner     *)
(* changes nothing of another's.                                           *)
(***************************************************************************)
EXTENDS Naturals

CONSTANTS Owners, Numbers, Values, StateValues, NoValue

VARIABLES
    log,    \* for each owner, its events: a function from some of the Numbers
    state   \* for each owner, its state or NoValue

vars == <<log, state>>

Init ==
    /\ log = [o \in Owners |-> [n \in {} |-> NoValue]]
    /\ state = [o \in Owners |-> NoValue]

PutEvent(o, n, v) ==
    /\ log' = [log EXCEPT ![o] = [m \in DOMAIN @ \cup {n} |-> IF m = n THEN v ELSE @[m]]]
    /\ UNCHANGED state

\* del of one, purge of all, or the part of a purge that was done before it failed:
\* what is left is as it was.
RemoveEvents(o) ==
    /\ DOMAIN log'[o] \subseteq DOMAIN log[o]
    /\ log' = [log EXCEPT ![o] = [m \in DOMAIN log'[o] |-> @[m]]]
    /\ UNCHANGED state

PutState(o, v) == state' = [state EXCEPT ![o] = v] /\ UNCHANGED log

Next == \E o \in Owners :
    \/ \E n \in Numbers, v \in Values : PutEvent(o, n, v)
    \/ RemoveEvents(o)
    \/ \E v \in StateValues \cup {NoValue} : PutState(o, v)

Spec == Init /\ [][Next]_vars

=============================================================================
