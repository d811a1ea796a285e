------------------------------- MODULE Lending -------------------------------
(****************************************************************************)
(* What a bounded pool promises, with nothing of how: a thread asks, and is *)
(* either granted one of Size loans or refused; it returns what it was      *)
(* granted; closing ends the granting.                                      *)
(****************************************************************************)
EXTENDS Integers, FiniteSets

CONSTANTS Threads, Size

VARIABLES asking, borrowing, open

vars == <<asking, borrowing, open>>

Init == asking = {} /\ borrowing = {} /\ open = TRUE

Ask(t) ==
    /\ t \notin asking \cup borrowing
    /\ asking' = asking \cup {t}
    /\ UNCHANGED <<borrowing, open>>

Refuse(t) ==
    /\ t \in asking
    /\ asking' = asking \ {t}
    /\ UNCHANGED <<borrowing, open>>

Grant(t) ==
    /\ open
    /\ t \in asking
    /\ Cardinality(borrowing) < Size
    /\ asking' = asking \ {t}
    /\ borrowing' = borrowing \cup {t}
    /\ UNCHANGED open

Return(t) ==
    /\ t \in borrowing
    /\ borrowing' = borrowing \ {t}
    /\ UNCHANGED <<asking, open>>

Shut ==
    /\ open' = FALSE
    /\ UNCHANGED <<asking, borrowing>>

Next ==
    \/ Shut
    \/ \E t \in Threads : Ask(t) \/ Refuse(t) \/ Grant(t) \/ Return(t)

Spec == Init /\ [][Next]_vars
=============================================================================
