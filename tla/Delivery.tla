------------------------------- MODULE Delivery -------------------------------
(****************************************************************************)
(* What a caller is promised of its requests, with nothing of nodes and     *)
(* sockets: they are asked one at a time and told of once, each runs once   *)
(* at the most, yes is said of what ran and no of what never will.  Only    *)
(* what nobody could say more of may run after its caller was told.         *)
(****************************************************************************)
EXTENDS Naturals

CONSTANT Requests

VARIABLES
    told,   \* what the caller of each request was told, or "unasked", "waiting"
    runs    \* how often each request was run

vars == <<told, runs>>

Init ==
    /\ told = [r \in Requests |-> "unasked"]
    /\ runs = [r \in Requests |-> 0]

Ask(r) ==
    /\ told[r] = "unasked"
    /\ \A s \in Requests : told[s] # "waiting"
    /\ told' = [told EXCEPT ![r] = "waiting"]
    /\ UNCHANGED runs

Run(r) ==
    /\ told[r] \in {"waiting", "unknown"}
    /\ runs[r] = 0
    /\ runs' = [runs EXCEPT ![r] = 1]
    /\ UNCHANGED told

Tell(r, what) ==
    /\ told[r] = "waiting"
    /\ what = "yes" => runs[r] = 1
    /\ what = "no" => runs[r] = 0
    /\ told' = [told EXCEPT ![r] = what]
    /\ UNCHANGED runs

Next ==
    \E r \in Requests :
        Ask(r) \/ Run(r) \/ \E what \in {"yes", "no", "unknown"} : Tell(r, what)

Spec == Init /\ [][Next]_vars
=============================================================================
