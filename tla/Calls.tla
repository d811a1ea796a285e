-------------------------------- MODULE Calls --------------------------------
(****************************************************************************)
(* One Client making typed calls, and document or graph transactions across *)
(* them: what a call refuses before sending, the transaction its request    *)
(* names (src/client.rs: send, send_in, set_request_txn, forget_txn), what  *)
(* it is told, and where its write went.  The operations are the rows of    *)
(* CacheCalls, DocumentCalls, GraphCalls, VectorCalls and QueryCalls.  The  *)
(* retry loop is in LeaderFollow and the exchange in Connection: here a     *)
(* request may be sent again to another node, and an answer may be lost or  *)
(* not say what became of it.                                               *)
(*                                                                          *)
(* A node refuses a request that names a transaction it does not hold, and  *)
(* may give one up at any time.                                             *)
(****************************************************************************)
EXTENDS Replies, Naturals

CONSTANTS
    Rows,       \* the operations
    Nodes,
    Ids,        \* the transaction ids a node may give
    EmptyId,    \* the id that is the empty text
    NoTxn,
    MaxWrites   \* bound on the writes asked for

ASSUME CallsAssumption ==
    /\ \A row \in Rows : IsOperation(row)
    /\ Ids \cap {EmptyId, NoTxn, "no", "direct"} = {}
    /\ EmptyId # NoTxn
    /\ MaxWrites \in Nat

VARIABLES
    requestTxn, \* Client.request_txn
    poisoned,   \* Client.fault is set
    node,       \* the node at the other end
    call,       \* the call in flight, if any
    txns,       \* the server's transactions: state, and the node that holds it
    \* the caller
    given,      \* the ids it was given and has not asked to end
    inside,     \* the transaction it takes itself to be in
    \* histories
    writes,     \* each write: where it was meant to go and went, what was told
    ends        \* each transaction: which end was asked for, what was told

client == <<requestTxn, poisoned, node>>
caller == <<given, inside>>
vars == <<client, call, txns, caller, writes, ends>>

Idle == [effect |-> "none"]

\* What the model tells apart of an operation.
Shapes == {[effect |-> row.effect, refuses |-> row.refuses, reads |-> row.reads] : row \in Rows}

Writing == {"write", "join"}
Ending == {"commit", "rollback"}

Sent == [effect : Effects, reads : DOMAIN Takes, txn : Ids \cup {NoTxn}, write : 0 .. MaxWrites]

\* What a caller is told.  "unclear" are the errors after which the connection
\* goes on and nobody knows whether the request was run: a reply that cannot be
\* made sense of (kind Protocol), an ERROR frame (Refused), and a Server error
\* of code outcome_unknown.
Tellings == {"pending", "unsent", "refused", "answered", "unclear", "lost"}

\* A write: the transaction it was meant for, where it went, what was told.
Fates == [meant : Ids \cup {NoTxn}, went : Ids \cup {"no", "direct"}, told : Tellings \cup {"unasked"}]

Fate(meant, went, told) == [meant |-> meant, went |-> went, told |-> told]

TypeOK ==
    /\ requestTxn \in Ids \cup {NoTxn}
    /\ poisoned \in BOOLEAN
    /\ node \in Nodes
    /\ call \in Sent \cup {Idle}
    /\ txns \in [Ids -> [state : {"unused", "open", "committed", "over"}, node : Nodes]]
    /\ given \subseteq Ids
    /\ inside \in Ids \cup {NoTxn}
    /\ writes \in [1 .. MaxWrites -> Fates]
    /\ ends \in [Ids -> [asked : Ending \cup {"none"}, told : Tellings]]

Init ==
    /\ requestTxn = NoTxn
    /\ poisoned = FALSE
    /\ node \in Nodes
    /\ call = Idle
    /\ txns = [t \in Ids |-> [state |-> "unused", node |-> node]]
    /\ given = {}
    /\ inside = NoTxn
    /\ writes = [w \in 1 .. MaxWrites |-> [meant |-> NoTxn, went |-> "no", told |-> "unasked"]]
    /\ ends = [t \in Ids |-> [asked |-> "none", told |-> "pending"]]

-----------------------------------------------------------------------------
(* The client *)

Ready == call = Idle /\ ~poisoned

NextWrite(w) == /\ w \in 1 .. MaxWrites
                /\ writes[w].told = "unasked"
                /\ \A v \in 1 .. (w - 1) : writes[v].told # "unasked"

\* A write that joins transactions is meant for the one the caller is in.
MeantBy(shape) == IF shape.effect = "join" THEN inside ELSE NoTxn

\* Client::send names request_txn, a begin names nothing.
Named(shape) == IF shape.effect = "begin" THEN NoTxn ELSE requestTxn

Ask(shape) ==
    /\ Ready
    /\ shape.effect \notin Ending
    /\ \E w \in 0 .. MaxWrites :
        /\ IF shape.effect \in Writing THEN NextWrite(w) ELSE w = 0
        /\ call' = [effect |-> shape.effect, reads |-> shape.reads, txn |-> Named(shape), write |-> w]
        /\ writes' = IF w = 0 THEN writes
                     ELSE [writes EXCEPT ![w] = Fate(MeantBy(shape), "no", "pending")]
    /\ UNCHANGED <<client, txns, caller, ends>>

\* An argument is at fault: an error before anything is sent.
RefuseHere(shape) ==
    /\ Ready
    /\ shape.effect \in Writing /\ shape.refuses # {}
    /\ \E w \in 1 .. MaxWrites :
        /\ NextWrite(w)
        /\ writes' = [writes EXCEPT ![w] = Fate(MeantBy(shape), "no", "unsent")]
    /\ UNCHANGED <<client, call, txns, caller, ends>>

\* commit and rollback name the transaction they are given.
AskEnd(shape, t) ==
    /\ Ready
    /\ shape.effect \in Ending
    /\ t \in given
    /\ call' = [effect |-> shape.effect, reads |-> shape.reads, txn |-> t, write |-> 0]
    /\ given' = given \ {t}
    /\ inside' = IF inside = t THEN NoTxn ELSE inside
    /\ ends' = [ends EXCEPT ![t].asked = shape.effect]
    /\ UNCHANGED <<client, txns, writes>>

\* Mutant: the empty id is named like any other.
SetRequestTxn_Empty(t) ==
    /\ Ready
    /\ t \in given \cup {EmptyId, NoTxn}
    /\ requestTxn' = t
    /\ inside' = IF t \in given THEN t ELSE NoTxn
    /\ UNCHANGED <<poisoned, node, call, txns, given, writes, ends>>

\* The empty id is filtered out; a caller that was never given it clears.
SetRequestTxn(t) ==
    /\ Ready
    /\ t \in given \cup {EmptyId, NoTxn}
    /\ requestTxn' = IF t = EmptyId THEN NoTxn ELSE t
    /\ inside' = IF t \in given THEN t ELSE NoTxn
    /\ UNCHANGED <<poisoned, node, call, txns, given, writes, ends>>

Forgotten(t) == IF requestTxn = t THEN NoTxn ELSE requestTxn

\* Mutant: an end that is not answered leaves the transaction named.
Return_OnSuccess(went, what) ==
    /\ requestTxn' = IF call.effect \in Ending /\ what = "answered" THEN Forgotten(call.txn) ELSE requestTxn
    /\ writes' = IF call.write = 0 THEN writes
                 ELSE [writes EXCEPT ![call.write] = Fate(writes[call.write].meant, went, what)]
    /\ ends' = IF call.effect \notin Ending THEN ends
               ELSE [ends EXCEPT ![call.txn] = [asked |-> call.effect, told |-> what]]
    /\ call' = Idle

\* The call returns, and its caller is told what; commit and rollback forget
\* the transaction first, whatever the outcome.
Return(went, what) ==
    /\ requestTxn' = IF call.effect \in Ending THEN Forgotten(call.txn) ELSE requestTxn
    /\ writes' = IF call.write = 0 THEN writes
                 ELSE [writes EXCEPT ![call.write] = Fate(writes[call.write].meant, went, what)]
    /\ ends' = IF call.effect \notin Ending THEN ends
               ELSE [ends EXCEPT ![call.txn] = [asked |-> call.effect, told |-> what]]
    /\ call' = Idle

\* A begin that answers without an id, or with the empty one, is an error.
Obtained(what, t) == IF what = "answered" THEN {t} ELSE {}

-----------------------------------------------------------------------------
(* The server *)

Holds(t) == txns[t].state = "open" /\ txns[t].node = node

\* A request that joins or ends a transaction runs only where it is open.
NeedsTxn == call.effect \in Ending \cup {"join"} /\ call.txn # NoTxn

MayRun == call # Idle /\ (NeedsTxn => Holds(call.txn))

Went == IF call.effect = "join" /\ call.txn # NoTxn THEN call.txn ELSE "direct"

After(state) == [txns EXCEPT ![call.txn] = [state |-> state, node |-> node]]

TxnsAfter ==
    CASE call.effect = "commit" -> After("committed")
      [] call.effect = "rollback" -> After("over")
      [] OTHER -> txns

\* The server executes the call and answers with some body.
Executed(body) ==
    /\ MayRun
    /\ call.effect # "begin"
    /\ txns' = TxnsAfter
    /\ Return(Went, Read(call.reads, body))
    /\ UNCHANGED <<poisoned, node, caller>>

Begun(body, t) ==
    /\ call.effect = "begin"
    /\ txns[t].state = "unused"
    /\ txns' = [txns EXCEPT ![t] = [state |-> "open", node |-> node]]
    /\ given' = given \cup Obtained(Read(call.reads, body), t)
    /\ call' = Idle
    /\ UNCHANGED <<client, inside, writes, ends>>

\* What is not executed may end the transaction it would have ended.
NotRun == {txns} \cup (IF call.effect \in Ending /\ Holds(call.txn) THEN {After("over")} ELSE {})

\* A refusal other than outcome_unknown executes nothing.
Refused ==
    /\ call # Idle
    /\ txns' \in NotRun
    /\ Return("no", "refused")
    /\ UNCHANGED <<poisoned, node, caller>>

\* Mutant: any reply whose status is not ok is told as a refusal.
AnsweredUnclear_AsRefused(executed) ==
    /\ call # Idle
    /\ executed => MayRun /\ call.effect # "begin"
    /\ txns' \in IF executed THEN {TxnsAfter} ELSE NotRun
    /\ Return(IF executed THEN Went ELSE "no", "refused")
    /\ UNCHANGED <<poisoned, node, caller>>

\* The reply does not say whether the request was executed: the body of the
\* RESPONSE does not parse, whatever its status; an ERROR frame; or a follower
\* lost the leader's answer.  A request over the frame limit, of which nothing
\* is sent, is told in the same way.
AnsweredUnclear(executed) ==
    /\ call # Idle
    /\ executed => MayRun /\ call.effect # "begin"
    /\ txns' \in IF executed THEN {TxnsAfter} ELSE NotRun
    /\ Return(IF executed THEN Went ELSE "no", "unclear")
    /\ UNCHANGED <<poisoned, node, caller>>

\* Mutant: the new connection's request names no transaction.
Redirected_DropsTxn ==
    /\ call # Idle
    /\ node' \in Nodes \ {node}
    /\ call' = [call EXCEPT !.txn = IF call.effect \in Ending THEN @ ELSE NoTxn]
    /\ UNCHANGED <<requestTxn, poisoned, txns, caller, writes, ends>>

\* A not_leader refusal: the request goes to another node as it is.
Redirected ==
    /\ call # Idle
    /\ node' \in Nodes \ {node}
    /\ UNCHANGED <<requestTxn, poisoned, call, txns, caller, writes, ends>>

\* The exchange fails: the request was executed, or not.
Lost(executed) ==
    /\ call # Idle
    /\ executed => MayRun /\ call.effect # "begin"
    /\ txns' = IF executed THEN TxnsAfter ELSE txns
    /\ Return(IF executed THEN Went ELSE "no", "lost")
    /\ poisoned' = TRUE
    /\ UNCHANGED <<node, caller>>

GiveUp(t) ==
    /\ txns[t].state = "open"
    /\ txns' = [txns EXCEPT ![t].state = "over"]
    /\ UNCHANGED <<client, call, caller, writes, ends>>

Next ==
    \/ \E shape \in Shapes : \/ Ask(shape)
                             \/ RefuseHere(shape)
                             \/ \E t \in Ids : AskEnd(shape, t)
    \/ \E t \in Ids \cup {EmptyId, NoTxn} : SetRequestTxn(t)
    \/ \E body \in Bodies : \/ Executed(body)
                            \/ \E t \in Ids : Begun(body, t)
    \/ Refused
    \/ Redirected
    \/ \E executed \in BOOLEAN : AnsweredUnclear(executed) \/ Lost(executed)
    \/ \E t \in Ids : GiveUp(t)

Spec == Init /\ [][Next]_vars

-----------------------------------------------------------------------------
(* Properties *)

\* A write goes into the transaction its caller named before it and has not
\* ended since, or into none when there is none, or nowhere: not past the
\* transaction, and not into one that was ended, moved or begun meanwhile
\* (set_request_txn, forget_txn, move_to, the begins).
WriteGoesWhereMeant ==
    \A w \in DOMAIN writes :
        writes[w].went \in {"no", IF writes[w].meant = NoTxn THEN "direct" ELSE writes[w].meant}

\* A write that was refused, here or by the server, went nowhere, and one that
\* was answered went somewhere; after a lost answer the connection is gone.  Of
\* no other error can a caller tell, and none of those is told as a refusal:
\* not a reply that does not parse or decode, nor outcome_unknown (send_once,
\* error.rs:9-12).
ToldTruth ==
    \A w \in DOMAIN writes :
        /\ writes[w].told \in {"refused", "unsent", "unasked", "pending"} => writes[w].went = "no"
        /\ writes[w].told = "answered" => writes[w].went # "no"
        /\ writes[w].told = "lost" => poisoned

\* A transaction whose commit was answered is committed, with every write its
\* caller was answered inside it; one is committed by its own commit alone; and
\* no request names one whose end was asked for, however that ended (document_
\* and graph_commit_transaction, _rollback_transaction).
EndIsTrue ==
    \A t \in Ids :
        /\ ends[t].asked = "commit" /\ ends[t].told = "answered"
             => /\ txns[t].state = "committed"
                /\ \A w \in DOMAIN writes : writes[w].meant = t /\ writes[w].told = "answered"
                                              => writes[w].went = t
        /\ txns[t].state = "committed" => ends[t].asked = "commit"
        /\ ends[t].told # "pending" => requestTxn # t
=============================================================================
