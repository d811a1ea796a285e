----------------------------- MODULE LeaderFollow -----------------------------
(****************************************************************************)
(* A Client that follows the leader of a cluster: send_in's retry loop and  *)
(* move_to (src/client.rs), and the session-transaction control that rides  *)
(* on it (src/sql.rs: begin, commit, rollback, transaction_control).        *)
(*                                                                          *)
(* The cluster is outside the repository.  It is modelled by what the       *)
(* client relies on: the leader executes a request, a follower refuses it   *)
(* with not_leader and executes nothing, hints may be absent or wrong, an   *)
(* answer may not say what became of the request, the socket may fail at    *)
(* any time, and a session transaction lives and dies with its socket.      *)
(*                                                                          *)
(* While a request is out, the answer is what the node decided and the      *)
(* client has not read.  What happens to frames is in Connection.           *)
(****************************************************************************)
EXTENDS Integers, FiniteSets

CONSTANTS
    Nodes,          \* the cluster's members
    NoNode,         \* no leader elected, or no hint given
    TxnNodes,       \* the nodes that grant SESSION_TXN
    FollowLeader,   \* Options.follow_leader
    LeaderRetries,  \* Options.leader_retries
    FirstPause,     \* Options.leader_retry_delay
    MaxPause,       \* MAX_LEADER_RETRY_DELAY
    DefaultTimeout, \* Options.read_timeout is set
    MaxRequests,    \* bound on the requests of a run
    MaxElections,   \* bound on the changes of leader
    MaxDepth        \* bound on nested blocks, the transaction itself included

ASSUME LeaderFollowAssumption ==
    /\ NoNode \notin Nodes
    /\ TxnNodes \subseteq Nodes
    /\ {FollowLeader, DefaultTimeout} \subseteq BOOLEAN
    /\ {LeaderRetries, FirstPause, MaxPause, MaxRequests, MaxElections, MaxDepth} \subseteq Nat
    /\ MaxPause >= 1

VARIABLES
    \* the client
    pc,         \* ready, waiting for an answer, moving, or pausing
    at,         \* Client.address
    faulted,    \* Client.fault is set
    txnOpen,    \* Client.txn_open
    canBegin,   \* Client.granted_features has SESSION_TXN
    timeout,    \* Client.read_timeout is set
    timer,      \* the socket's read timeout is set
    req,        \* the current request: its number and kind
    retried, pause, hint,   \* locals of send_in, at rest between calls
    \* the cluster
    leader,
    answer,     \* the current node's answer, "none" until it has one
    depth,      \* blocks open in the session on the client's socket
    orphans,    \* requests on sockets the client has given up
    elections,
    \* histories
    executed,   \* how often each request was executed
    sends,      \* how often each request was sent
    outcome,    \* what the caller was told of each request: see Heard
    unsure      \* an answer to BEGIN, COMMIT or ROLLBACK on this connection did
                \* not say what became of it, and none has since

client == <<pc, at, faulted, txnOpen, canBegin, timeout, timer, req, retried, pause, hint>>
cluster == <<leader, answer, depth, orphans, elections>>
told == <<sends, outcome, unsure>>
vars == <<client, cluster, executed, told>>

Requests == 1 .. MaxRequests
Kinds == {"write", "begin", "end"}

\* Answers after which the connection goes on and that do not say what became
\* of the request: its success does not decode ("bad"); or the RESPONSE does not
\* parse, is an ERROR frame, or is outcome_unknown ("unclear").
Untold == {"bad", "unclear"}

Answers == {"none", "ok", "nested", "error", "not_leader"} \cup Untold

\* What an answer tells the caller of its request.
Heard(a) ==
    CASE a \in {"ok", "nested"}        -> "ok"
      [] a \in {"error", "not_leader"} -> "refused"
      [] OTHER                         -> "unclear"

TypeOK ==
    /\ pc \in {"ready", "waiting", "moving", "pausing"}
    /\ at \in Nodes
    /\ {faulted, txnOpen, canBegin, timeout, timer} \subseteq BOOLEAN
    /\ req \in [id : 0 .. MaxRequests, kind : Kinds]
    /\ retried \in 0 .. LeaderRetries
    /\ pause \in Nat
    /\ hint \in Nodes \cup {NoNode}
    /\ leader \in Nodes \cup {NoNode}
    /\ answer \in Answers
    /\ depth \in 0 .. MaxDepth
    /\ orphans \subseteq [node : Nodes, id : Requests]
    /\ elections \in 0 .. MaxElections
    /\ executed \in [Requests -> Nat]
    /\ sends \in [Requests -> 0 .. 1 + LeaderRetries]
    /\ outcome \in [Requests -> {"none", "ok", "refused", "unclear", "lost"}]
    /\ unsure \in BOOLEAN

Init ==
    /\ pc = "ready"
    /\ at \in Nodes
    /\ faulted = FALSE
    /\ txnOpen = FALSE
    /\ canBegin = (at \in TxnNodes)
    /\ timeout = DefaultTimeout
    /\ timer = DefaultTimeout
    /\ req = [id |-> 0, kind |-> "write"]
    /\ retried = 0
    /\ pause = FirstPause
    /\ hint = NoNode
    /\ leader \in Nodes \cup {NoNode}
    /\ answer = "none"
    /\ depth = 0
    /\ orphans = {}
    /\ elections = 0
    /\ executed = [r \in Requests |-> 0]
    /\ sends = [r \in Requests |-> 0]
    /\ outcome = [r \in Requests |-> "none"]
    /\ unsure = FALSE

-----------------------------------------------------------------------------
(* The caller.                                                              *)

Submitted(kind) ==
    /\ pc = "ready"
    /\ ~faulted
    /\ req.id < MaxRequests
    /\ req' = [id |-> req.id + 1, kind |-> kind]
    /\ sends' = [sends EXCEPT ![req.id + 1] = 1]
    /\ pc' = "waiting"
    /\ UNCHANGED <<at, faulted, txnOpen, canBegin, timeout, timer, retried, pause, hint,
                   cluster, executed, outcome, unsure>>

\* execute() of a statement, commit(), rollback().
Submit(kind) ==
    /\ kind # "begin"
    /\ Submitted(kind)

\* begin() fails locally, with nothing sent, unless the capability was granted.
Begin ==
    /\ canBegin
    /\ Submitted("begin")

SetReadTimeout(set) ==
    /\ pc = "ready"
    /\ ~faulted
    /\ timeout' = set
    /\ timer' = set
    /\ UNCHANGED <<pc, at, faulted, txnOpen, canBegin, req, retried, pause, hint,
                   cluster, executed, told>>

\* A poisoned Client is dropped and a new one connected, to any node.
Reconnect(n) ==
    /\ pc = "ready"
    /\ faulted
    /\ at' = n
    /\ faulted' = FALSE
    /\ canBegin' = (n \in TxnNodes)
    /\ timeout' = DefaultTimeout
    /\ timer' = DefaultTimeout
    /\ UNCHANGED <<pc, txnOpen, req, retried, pause, hint, cluster, executed, told>>

-----------------------------------------------------------------------------
(* send_in and transaction_control, once there is an answer.                *)

\* Mutant: the reply to COMMIT of a nested block ends the transaction.
TxnAfter_IgnoresNested(kind, a) ==
    CASE kind = "begin" /\ a # "bad" -> txnOpen \/ a \in {"ok", "nested"}
      [] kind = "end" /\ a # "bad"   -> FALSE
      [] OTHER                       -> txnOpen

\* transaction_control: a success that does not decode leaves txn_open as it
\* was; any other answer to COMMIT or ROLLBACK ends the transaction, except one
\* that says a nested block was closed; BEGIN opens it when it succeeds.
TxnAfter(kind, a) ==
    CASE kind = "begin" /\ a # "bad" -> txnOpen \/ a \in {"ok", "nested"}
      [] kind = "end" /\ a # "bad"   -> a = "nested"
      [] OTHER                       -> txnOpen

\* A refused BEGIN says nothing of what is open.
UnsureAfter(kind, a) ==
    \/ kind # "write" /\ a \in Untold
    \/ unsure /\ (kind = "write" \/ (kind = "begin" /\ a \in {"error", "not_leader"}))

LocalsGone == retried' = 0 /\ pause' = FirstPause /\ hint' = NoNode

Return(a) ==
    /\ pc' = "ready"
    /\ LocalsGone
    /\ outcome' = [outcome EXCEPT ![req.id] = Heard(a)]
    /\ txnOpen' = TxnAfter(req.kind, a)
    /\ unsure' = UnsureAfter(req.kind, a)
    /\ answer' = "none"

\* Mutant: one retry too many.
MayRetry_OffByOne == FollowLeader /\ ~txnOpen /\ retried <= LeaderRetries

\* Mutant: follows the leader out of a transaction.
MayRetry_InTxn == FollowLeader /\ retried < LeaderRetries

MayRetry == FollowLeader /\ ~txnOpen /\ retried < LeaderRetries

\* An answer that is not a redirect, or a redirect the client may not follow.
Finish ==
    /\ pc = "waiting"
    /\ answer # "none"
    /\ answer = "not_leader" => ~MayRetry
    /\ Return(answer)
    /\ UNCHANGED <<at, faulted, canBegin, timeout, timer, req,
                   leader, depth, orphans, elections, executed, sends>>

\* Mutant: an outcome nobody knows is retried like a refusal.
Redirected_Unknown ==
    /\ pc = "waiting"
    /\ answer \in {"not_leader", "unclear"}
    /\ MayRetry
    /\ retried' = retried + 1
    /\ pc' = "pausing" /\ hint' = NoNode
    /\ answer' = "none"
    /\ UNCHANGED <<at, faulted, txnOpen, canBegin, timeout, timer, req, pause,
                   leader, depth, orphans, elections, executed, told>>

Redirected ==
    /\ pc = "waiting"
    /\ answer = "not_leader"
    /\ MayRetry
    /\ retried' = retried + 1
    /\ IF hint \notin {NoNode, at}
         THEN pc' = "moving" /\ hint' = hint
         ELSE pc' = "pausing" /\ hint' = NoNode
    /\ answer' = "none"
    /\ UNCHANGED <<at, faulted, txnOpen, canBegin, timeout, timer, req, pause,
                   leader, depth, orphans, elections, executed, told>>

\* send_once again, with the same envelope and so the same request id.
SendAgain ==
    /\ pc' = "waiting"
    /\ hint' = NoNode
    /\ sends' = [sends EXCEPT ![req.id] = @ + 1]

\* Mutant: the new connection is left without a read timeout.
MoveOk_NoTimeout ==
    /\ pc = "moving"
    /\ at' = hint
    /\ canBegin' = (hint \in TxnNodes)
    /\ timer' = FALSE
    /\ depth' = 0
    /\ unsure' = FALSE
    /\ SendAgain
    /\ UNCHANGED <<faulted, txnOpen, timeout, req, retried, pause,
                   leader, answer, orphans, elections, executed, outcome>>

\* move_to: the new connection was dialled with the options, and the socket of
\* the old one is shut down, so the server forgets its session.
MoveOk ==
    /\ pc = "moving"
    /\ at' = hint
    /\ canBegin' = (hint \in TxnNodes)
    /\ timer' = DefaultTimeout
    /\ depth' = 0
    /\ unsure' = FALSE
    /\ SendAgain
    /\ UNCHANGED <<faulted, txnOpen, timeout, req, retried, pause,
                   leader, answer, orphans, elections, executed, outcome>>

\* The hint cannot be parsed, dialled, or authenticated to.
MoveFails ==
    /\ pc = "moving"
    /\ pc' = "pausing"
    /\ hint' = NoNode
    /\ UNCHANGED <<at, faulted, txnOpen, canBegin, timeout, timer, req, retried, pause,
                   cluster, executed, told>>

Clamp(p, low, high) == IF p < low THEN low ELSE IF p > high THEN high ELSE p

PauseEnds ==
    /\ pc = "pausing"
    /\ pause' = Clamp(2 * pause, 1, MaxPause)
    /\ SendAgain
    /\ UNCHANGED <<at, faulted, txnOpen, canBegin, timeout, timer, req, retried,
                   cluster, executed, outcome, unsure>>

\* Mutant: a lost answer is reported as a refusal.
Lose_ToldRefused ==
    /\ pc' = "ready"
    /\ LocalsGone
    /\ faulted' = TRUE
    /\ txnOpen' = FALSE
    /\ outcome' = [outcome EXCEPT ![req.id] = "refused"]
    /\ orphans' = IF answer = "none" THEN orphans \cup {[node |-> at, id |-> req.id]} ELSE orphans
    /\ answer' = "none"
    /\ depth' = 0
    /\ unsure' = FALSE
    /\ UNCHANGED <<at, canBegin, timeout, timer, req, leader, elections, executed, sends>>

\* The exchange fails without an answer: the connection is poisoned, its
\* socket shut, and the request may still be under way at the server.
Lose ==
    /\ pc' = "ready"
    /\ LocalsGone
    /\ faulted' = TRUE
    /\ txnOpen' = FALSE
    /\ outcome' = [outcome EXCEPT ![req.id] = "lost"]
    /\ orphans' = IF answer = "none" THEN orphans \cup {[node |-> at, id |-> req.id]} ELSE orphans
    /\ answer' = "none"
    /\ depth' = 0
    /\ unsure' = FALSE
    /\ UNCHANGED <<at, canBegin, timeout, timer, req, leader, elections, executed, sends>>

TimesOut == pc = "waiting" /\ timer /\ Lose
Breaks == pc = "waiting" /\ Lose

-----------------------------------------------------------------------------
(* The cluster.                                                             *)

Answered(a) == answer' = a /\ UNCHANGED <<client, leader, orphans, elections, told>>

\* A node that ran the request says so, or the answer does not.
RanAnd(a) ==
    \E b \in {a, "unclear"} \cup (IF req.kind = "write" THEN {} ELSE {"bad"}) : Answered(b)

Ran(times) == executed' = [executed EXCEPT ![req.id] = @ + times]

\* BEGIN opens a block where session transactions are granted and is a script
\* of one statement elsewhere; COMMIT and ROLLBACK close one; a refused one
\* ends the whole transaction.
Executes ==
    /\ pc = "waiting" /\ answer = "none" /\ at = leader
    /\ Ran(1)
    /\ CASE req.kind = "write" -> depth' = depth /\ RanAnd("ok")
         [] req.kind = "begin" /\ at \in TxnNodes ->
               /\ depth < MaxDepth
               /\ depth' = depth + 1
               /\ RanAnd(IF depth = 0 THEN "ok" ELSE "nested")
         [] req.kind = "begin" /\ at \notin TxnNodes ->
               depth' = depth /\ RanAnd("ok")
         [] req.kind = "end" ->
               /\ depth > 0
               /\ depth' = depth - 1
               /\ RanAnd(IF depth > 1 THEN "nested" ELSE "ok")

Refuses(a) ==
    /\ pc = "waiting" /\ answer = "none"
    /\ depth' = IF req.kind = "end" THEN 0 ELSE depth
    /\ UNCHANGED <<executed>>
    /\ Answered(a)

RefusesRequest == at = leader /\ Refuses("error")

RefusesAsFollower ==
    /\ at # leader
    /\ pc = "waiting" /\ answer = "none"
    /\ depth' = IF req.kind = "end" THEN 0 ELSE depth
    /\ answer' = "not_leader"
    /\ hint' \in Nodes \cup {NoNode}
    /\ UNCHANGED <<pc, at, faulted, txnOpen, canBegin, timeout, timer, req, retried, pause,
                   leader, orphans, elections, executed, told>>

\* The answer does not say that the request was not run, or that a follower
\* forwarded a write which was: what was refused may have ended the transaction.
LeavesUnclear ==
    /\ pc = "waiting" /\ answer = "none"
    /\ \E times \in {0, 1} : Ran(times) /\ (times = 1 => req.kind = "write")
    /\ depth' \in {depth, IF req.kind = "end" THEN 0 ELSE depth}
    /\ Answered("unclear")

\* A request on an abandoned socket is executed late, or never.
ExecutesOrphan ==
    \E o \in orphans :
        /\ orphans' = orphans \ {o}
        /\ executed' = IF o.node = leader THEN [executed EXCEPT ![o.id] = @ + 1] ELSE executed
        /\ UNCHANGED <<client, leader, answer, depth, elections, told>>

Elect ==
    /\ elections < MaxElections
    /\ elections' = elections + 1
    /\ leader' \in Nodes \cup {NoNode}
    /\ UNCHANGED <<client, answer, depth, orphans, executed, told>>

-----------------------------------------------------------------------------
ClientStep == Finish \/ Redirected \/ MoveOk \/ MoveFails \/ PauseEnds \/ TimesOut

Next ==
    \/ ClientStep \/ Breaks
    \/ (\E kind \in Kinds : Submit(kind)) \/ Begin
    \/ (\E set \in BOOLEAN : SetReadTimeout(set)) \/ (\E n \in Nodes : Reconnect(n))
    \/ Executes \/ RefusesRequest \/ RefusesAsFollower \/ LeavesUnclear
    \/ ExecutesOrphan \/ Elect

Spec == Init /\ [][Next]_vars

\* The client's thread runs, dials end and sleeps end.  The cluster owes
\* nothing.
FairSpec == Spec /\ WF_vars(ClientStep)

-----------------------------------------------------------------------------
\* Sending a refused request again never executes it twice, whatever elections,
\* wrong hints, lost answers and abandoned sockets come in between.
AtMostOnce == \A r \in Requests : executed[r] <= 1

\* What the caller is told is what happened, then and later: ok means executed,
\* a refusal that it was not and will not be.
OutcomeIsTrue ==
    \A r \in Requests :
        /\ outcome[r] = "ok" => executed[r] = 1
        /\ outcome[r] = "refused" => executed[r] = 0 /\ \A o \in orphans : o.id # r

\* What the caller knows of a request.
Known(r) ==
    IF pc # "ready" /\ req.id = r THEN "waiting"
    ELSE CASE outcome[r] = "none" -> "unasked"
           [] outcome[r] = "ok" -> "yes"
           [] outcome[r] = "refused" -> "no"
           [] OTHER -> "unknown"

Promise == INSTANCE Delivery WITH
               told <- [r \in Requests |-> Known(r)],
               runs <- executed

\* However often send_in sends a request, and wherever it takes it, a caller's
\* requests are delivered as Delivery promises: what was told is never taken
\* back, and only what nobody could say more of is run after its caller left
\* (client.rs:426-438, 553-573).
ImplementsDelivery == Promise!Spec

\* The client knows whether its session has a transaction open, nested blocks
\* included, whatever was refused or redirected; but for a connection on which
\* an answer to BEGIN, COMMIT or ROLLBACK did not say what became of it, until
\* another answer to one does.
TxnAgrees == pc = "ready" /\ ~faulted /\ ~unsure => (txnOpen <=> depth > 0)

\* A session transaction never moves: the connection is not replaced while the
\* server holds one for it, but for such a connection.
TxnPinned == [][depth > 0 /\ ~unsure /\ ~faulted' => at' = at]_vars

\* The socket waits as the caller last asked (client.rs:282).
TimeoutInForce == pc \in {"ready", "waiting"} /\ ~faulted => timer = timeout

\* While the caller has a read timeout set every call comes back, whatever the
\* cluster does or leaves undone: moved connections keep the bound and the
\* retries run out.
CallReturns == []<>(pc = "ready" \/ ~timeout)
=============================================================================
