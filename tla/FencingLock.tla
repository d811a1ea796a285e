---------------------------- MODULE FencingLock -----------------------------
(****************************************************************************)
(* What the lock of a cache promises its callers, with nothing of leases,   *)
(* clocks, requests and replies: every grant has a higher token than the    *)
(* ones before, a caller is told of no token but one it was granted, and    *)
(* while it counts on the lock the lock is its own, with the newest token.  *)
(****************************************************************************)
EXTENDS Naturals

CONSTANTS Clients, Nobody

VARIABLES
    holder,     \* who has the lock
    token,      \* the last token granted
    granted,    \* every client with the tokens it was granted
    told,       \* every client with the tokens it was told of
    counting    \* the clients that count on the lock

vars == <<holder, token, granted, told, counting>>

Init ==
    /\ holder = Nobody /\ token = 0
    /\ granted = {} /\ told = {} /\ counting = {}

Grant(c) ==
    /\ holder = Nobody
    /\ holder' = c
    /\ token' = token + 1
    /\ granted' = granted \cup {<<c, token + 1>>}
    /\ UNCHANGED <<told, counting>>

\* The lease lapsed or the holder let go: nobody may count on it any more.
Free ==
    /\ holder' = Nobody
    /\ counting' = {}
    /\ UNCHANGED <<token, granted, told>>

\* A caller learns of a grant, perhaps too late to count on it.
Tell(c, t) ==
    /\ <<c, t>> \in granted
    /\ told' = told \cup {<<c, t>>}
    /\ \/ counting' = counting \ {c}
       \/ counting' = counting \cup {c} /\ holder = c /\ token = t
    /\ UNCHANGED <<holder, token, granted>>

Stop(c) ==
    /\ counting' = counting \ {c}
    /\ UNCHANGED <<holder, token, granted, told>>

Next ==
    \/ \E c \in Clients : Grant(c) \/ Stop(c)
    \/ \E grant \in granted : Tell(grant[1], grant[2])
    \/ Free

Spec == Init /\ [][Next]_vars
=============================================================================
