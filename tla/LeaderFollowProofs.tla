-------------------------- MODULE LeaderFollowProofs --------------------------
(****************************************************************************)
(* What holds of LeaderFollow for every cluster, any numbers of requests,   *)
(* elections, retries and nested blocks, and any pauses.                    *)
(****************************************************************************)
EXTENDS LeaderFollow, TLAPS

Out == pc # "ready"

\* Where send_in is in its loop, and what its locals and the socket are there.
LoopOK ==
    /\ Out => req.id \in Requests /\ ~faulted
    /\ ~Out => retried = 0
    /\ pc # "waiting" => answer = "none"
    /\ pc = "moving" => hint \in Nodes

\* The request in flight was sent once and once more for each retry; later
\* ones were not.
SendsCounted ==
    /\ pc = "waiting" => sends[req.id] = retried + 1
    /\ pc \in {"moving", "pausing"} => sends[req.id] = retried

\* How often the request in flight was executed, by the answer that waits.
Executions(a) ==
    CASE a \in {"ok", "nested"} -> {1}
      [] a \in Untold -> {0, 1}
      [] OTHER -> {0}

\* The request in flight has no orphan and was told nothing; what was executed
\* of it shows in its answer.  No later request was touched.
CurrentTold ==
    /\ Out => /\ outcome[req.id] = "none"
              /\ executed[req.id] \in Executions(answer)
              /\ \A o \in orphans : o.id # req.id
    /\ \A r \in Requests : r > req.id =>
         /\ outcome[r] = "none"
         /\ executed[r] = 0
         /\ \A o \in orphans : o.id # r

\* A request on an abandoned socket was not executed, was told lost, and is
\* there once.
OrphansLost ==
    /\ \A o \in orphans : outcome[o.id] = "lost" /\ executed[o.id] = 0
    /\ \A o, p \in orphans : o.id = p.id => o = p

IInv ==
    /\ TypeOK
    /\ LoopOK
    /\ SendsCounted
    /\ CurrentTold
    /\ OrphansLost
    /\ AtMostOnce
    /\ OutcomeIsTrue

\* The client holds a transaction open as soon as the server does, unless it
\* was not told what became of a BEGIN, COMMIT or ROLLBACK, and never takes it
\* elsewhere.
Believes == IF pc = "waiting" /\ answer # "none" THEN TxnAfter(req.kind, answer) ELSE txnOpen
Sure == IF pc = "waiting" /\ answer # "none" THEN ~UnsureAfter(req.kind, answer) ELSE ~unsure

OpenIsKnown ==
    /\ depth > 0 /\ Sure => Believes
    /\ pc \in {"moving", "pausing"} => ~txnOpen
    /\ faulted => ~txnOpen

\* BEGIN is on its way only where session transactions are granted ...
BeginIsGranted ==
    /\ canBegin = (at \in TxnNodes)
    /\ Out /\ req.kind = "begin" => at \in TxnNodes

\* ... as long as no redirect takes one elsewhere, which send_in does not look at.
BeginMove == MoveOk /\ req.kind = "begin" => hint \in TxnNodes
BeginMovesToGranted == [][BeginMove]_vars

\* Then the client also holds none open that the server does not.
KnownIsOpen == ~faulted /\ Sure /\ Believes => depth > 0

-----------------------------------------------------------------------------
(* The loop and the histories *)

LEMMA InitIInv == Init => IInv
<1> SUFFICES ASSUME Init PROVE IInv
  OBVIOUS
<1> USE LeaderFollowAssumption
<1>1. TypeOK
  <2>1. {faulted, txnOpen, canBegin, timeout, timer} \subseteq BOOLEAN
    <3>1. canBegin = TRUE \/ canBegin = FALSE
      BY DEF Init
    <3>2. timeout \in BOOLEAN /\ timer \in BOOLEAN
      BY DEF Init
    <3> QED BY <3>1, <3>2 DEF Init
  <2>2. req \in [id : 0 .. MaxRequests, kind : Kinds]
    BY DEF Init, Kinds
  <2>3. answer \in Answers /\ unsure \in BOOLEAN
    BY DEF Init, Answers
  <2> QED BY <2>1, <2>2, <2>3 DEF Init, TypeOK
<1>2. LoopOK /\ SendsCounted /\ CurrentTold /\ OrphansLost
  BY DEF Init, LoopOK, SendsCounted, CurrentTold, OrphansLost, Out, Requests
<1>3. AtMostOnce /\ OutcomeIsTrue
  BY DEF Init, AtMostOnce, OutcomeIsTrue
<1> QED BY <1>1, <1>2, <1>3 DEF IInv

LEMMA SubmittedSafe ==
    ASSUME IInv, NEW kind \in Kinds, Submitted(kind)
    PROVE  IInv'
<1> USE LeaderFollowAssumption
<1> DEFINE r == req.id + 1
<1>1. /\ pc = "ready" /\ ~faulted /\ req.id < MaxRequests /\ pc' = "waiting"
      /\ req' = [id |-> r, kind |-> kind]
      /\ sends' = [sends EXCEPT ![r] = 1]
      /\ UNCHANGED <<at, faulted, txnOpen, canBegin, timeout, timer, retried, pause, hint, leader,
                     answer, depth, orphans, elections, executed, outcome, unsure>>
  BY DEF Submitted, cluster
<1>2. TypeOK /\ r \in Requests /\ r > req.id /\ req.id \in 0 .. MaxRequests
  BY <1>1 DEF IInv, TypeOK, Requests
<1>3. req'.id = r /\ req' \in [id : 0 .. MaxRequests, kind : Kinds]
  BY <1>1, <1>2 DEF Requests
<1>4. sends' \in [Requests -> 0 .. 1 + LeaderRetries] /\ sends'[r] = 1
  BY <1>1, <1>2 DEF TypeOK
<1> HIDE DEF r
<1>5. TypeOK'
  BY <1>1, <1>2, <1>3, <1>4 DEF TypeOK
<1>6. LoopOK' /\ SendsCounted'
  BY <1>1, <1>2, <1>3, <1>4 DEF IInv, LoopOK, SendsCounted, Out
<1>7. CurrentTold'
  <2>1. \A q \in Requests : q > r => q > req.id
    BY <1>2, <1>3 DEF Requests, r
  <2>2. answer = "none" /\ outcome[r] = "none" /\ executed[r] = 0 /\ \A o \in orphans : o.id # r
    BY <1>1, <1>2 DEF IInv, LoopOK, CurrentTold
  <2> QED BY <1>1, <1>3, <2>1, <2>2 DEF IInv, CurrentTold, Executions, Untold
<1>8. OrphansLost' /\ AtMostOnce' /\ OutcomeIsTrue'
  BY <1>1 DEF IInv, OrphansLost, AtMostOnce, OutcomeIsTrue
<1> QED BY <1>5, <1>6, <1>7, <1>8 DEF IInv

\* The steps that touch no history and leave the request where it is.
LEMMA QuietSafe ==
    ASSUME IInv, TypeOK', LoopOK', SendsCounted',
           UNCHANGED <<req, answer, orphans, executed, outcome>>,
           Out' => Out
    PROVE  IInv'
<1>1. CurrentTold'
  BY DEF IInv, CurrentTold, Executions, Untold
<1>2. OrphansLost' /\ AtMostOnce' /\ OutcomeIsTrue'
  BY DEF IInv, OrphansLost, AtMostOnce, OutcomeIsTrue
<1> QED BY <1>1, <1>2 DEF IInv

LEMMA SetReadTimeoutSafe ==
    ASSUME IInv, NEW set \in BOOLEAN, SetReadTimeout(set)
    PROVE  IInv'
<1>1. /\ timeout' = set /\ timer' = set
      /\ UNCHANGED <<pc, at, faulted, txnOpen, canBegin, req, retried, pause, hint, leader, answer,
                     depth, orphans, elections, executed, sends, outcome, unsure>>
  BY DEF SetReadTimeout, cluster, told
<1>2. TypeOK' /\ LoopOK' /\ SendsCounted' /\ (Out' => Out)
  BY <1>1 DEF IInv, TypeOK, LoopOK, SendsCounted, Out
<1> QED BY <1>1, <1>2, QuietSafe

LEMMA ReconnectSafe ==
    ASSUME IInv, NEW n \in Nodes, Reconnect(n)
    PROVE  IInv'
<1>1. /\ pc = "ready" /\ at' = n /\ faulted' = FALSE /\ canBegin' = (n \in TxnNodes)
      /\ timeout' = DefaultTimeout /\ timer' = DefaultTimeout
      /\ UNCHANGED <<pc, txnOpen, req, retried, pause, hint, leader, answer,
                     depth, orphans, elections, executed, sends, outcome, unsure>>
  BY DEF Reconnect, cluster, told
<1>2. {faulted', txnOpen', canBegin', timeout', timer'} \subseteq BOOLEAN
  <2>1. canBegin' = TRUE \/ canBegin' = FALSE
    BY <1>1
  <2>2. timeout' \in BOOLEAN /\ timer' \in BOOLEAN
    BY <1>1, LeaderFollowAssumption
  <2>3. txnOpen' \in BOOLEAN
    BY <1>1 DEF IInv, TypeOK
  <2> QED BY <1>1, <2>1, <2>2, <2>3
<1>3. TypeOK' /\ LoopOK' /\ SendsCounted' /\ (Out' => Out)
  BY <1>1, <1>2 DEF IInv, TypeOK, LoopOK, SendsCounted, Out
<1> QED BY <1>1, <1>3, QuietSafe

LEMMA ElectSafe ==
    ASSUME IInv, Elect
    PROVE  IInv'
<1>1. /\ elections < MaxElections /\ elections' = elections + 1
      /\ leader' \in Nodes \cup {NoNode}
      /\ UNCHANGED <<pc, at, faulted, txnOpen, canBegin, timeout, timer, req, retried, pause, hint,
                     answer, depth, orphans, executed, sends, outcome, unsure>>
  BY DEF Elect, client, told
<1>2. TypeOK' /\ LoopOK' /\ SendsCounted' /\ (Out' => Out)
  BY <1>1, LeaderFollowAssumption DEF IInv, TypeOK, LoopOK, SendsCounted, Out
<1> QED BY <1>1, <1>2, QuietSafe

LEMMA MoveFailsSafe ==
    ASSUME IInv, MoveFails
    PROVE  IInv'
<1>1. /\ pc = "moving" /\ pc' = "pausing" /\ hint' = NoNode
      /\ UNCHANGED <<at, faulted, txnOpen, canBegin, timeout, timer, req, retried, pause, leader,
                     answer, depth, orphans, elections, executed, sends, outcome, unsure>>
  BY DEF MoveFails, cluster, told
<1>2. TypeOK' /\ LoopOK' /\ SendsCounted' /\ (Out' => Out)
  BY <1>1 DEF IInv, TypeOK, LoopOK, SendsCounted, Out
<1> QED BY <1>1, <1>2, QuietSafe

\* Sending the request once more stays within the retries.
LEMMA SendAgainSafe ==
    ASSUME IInv, SendAgain, pc \in {"moving", "pausing"},
           at' \in Nodes, canBegin' \in BOOLEAN, timer' \in BOOLEAN, pause' \in Nat, depth' \in 0 .. MaxDepth,
           unsure' \in BOOLEAN,
           UNCHANGED <<faulted, txnOpen, timeout, req, retried, leader, answer, orphans, elections,
                       executed, outcome>>
    PROVE  IInv'
<1> USE LeaderFollowAssumption
<1>1. TypeOK /\ req.id \in Requests /\ sends[req.id] = retried /\ Out
  BY DEF IInv, LoopOK, SendsCounted, Out
<1>2. pc' = "waiting" /\ hint' = NoNode /\ sends' = [sends EXCEPT ![req.id] = @ + 1]
  BY DEF SendAgain
<1>3. sends' \in [Requests -> 0 .. 1 + LeaderRetries] /\ sends'[req.id] = retried + 1
  BY <1>1, <1>2 DEF TypeOK
<1>4. TypeOK'
  BY <1>1, <1>2, <1>3 DEF TypeOK
<1>5. LoopOK' /\ SendsCounted'
  BY <1>1, <1>2, <1>3 DEF IInv, LoopOK, SendsCounted, Out
<1> QED BY <1>1, <1>4, <1>5, QuietSafe

LEMMA MoveOkSafe ==
    ASSUME IInv, MoveOk
    PROVE  IInv'
<1>1. TypeOK /\ hint \in Nodes
  BY DEF IInv, LoopOK, MoveOk
<1>2. canBegin' \in BOOLEAN /\ timer' \in BOOLEAN /\ unsure' \in BOOLEAN
  <2>1. canBegin' = TRUE \/ canBegin' = FALSE
    BY DEF MoveOk
  <2> QED BY <2>1, LeaderFollowAssumption DEF MoveOk
<1> QED BY <1>1, <1>2, SendAgainSafe, LeaderFollowAssumption DEF MoveOk, TypeOK

LEMMA PauseEndsSafe ==
    ASSUME IInv, PauseEnds
    PROVE  IInv'
<1>1. TypeOK
  BY DEF IInv
<1>2. pause' \in Nat
  BY <1>1, LeaderFollowAssumption DEF PauseEnds, Clamp, TypeOK
<1> QED BY <1>1, <1>2, SendAgainSafe DEF PauseEnds, TypeOK, cluster

LEMMA RedirectedSafe ==
    ASSUME IInv, Redirected
    PROVE  IInv'
<1> USE LeaderFollowAssumption
<1>1. /\ pc = "waiting" /\ answer = "not_leader" /\ retried < LeaderRetries /\ retried' = retried + 1
      /\ \/ hint \notin {NoNode, at} /\ pc' = "moving" /\ hint' = hint
         \/ pc' = "pausing" /\ hint' = NoNode
      /\ answer' = "none"
      /\ UNCHANGED <<at, faulted, txnOpen, canBegin, timeout, timer, req, pause, leader, depth, orphans,
                     elections, executed, sends, outcome, unsure>>
  BY DEF Redirected, MayRetry, told
<1>2. TypeOK
  BY DEF IInv
<1>3. TypeOK'
  BY <1>1, <1>2 DEF TypeOK, Answers, Untold
<1>4. LoopOK' /\ SendsCounted'
  BY <1>1, <1>2 DEF IInv, LoopOK, SendsCounted, Out, TypeOK
<1>5. CurrentTold'
  BY <1>1 DEF IInv, CurrentTold, Executions, Untold, Out
<1>6. OrphansLost' /\ AtMostOnce' /\ OutcomeIsTrue'
  BY <1>1 DEF IInv, OrphansLost, AtMostOnce, OutcomeIsTrue
<1> QED BY <1>3, <1>4, <1>5, <1>6 DEF IInv

LEMMA FinishSafe ==
    ASSUME IInv, Finish
    PROVE  IInv'
<1> USE LeaderFollowAssumption
<1>1. /\ pc = "waiting" /\ answer # "none" /\ pc' = "ready"
      /\ retried' = 0 /\ pause' = FirstPause /\ hint' = NoNode /\ answer' = "none"
      /\ outcome' = [outcome EXCEPT ![req.id] = Heard(answer)]
      /\ txnOpen' = TxnAfter(req.kind, answer)
      /\ unsure' = UnsureAfter(req.kind, answer)
      /\ UNCHANGED <<at, faulted, canBegin, timeout, timer, req, leader, depth, orphans, elections,
                     executed, sends>>
  BY DEF Finish, Return, LocalsGone
<1>2. /\ TypeOK /\ req.id \in Requests /\ outcome[req.id] = "none"
      /\ executed[req.id] \in Executions(answer) /\ \A o \in orphans : o.id # req.id
  BY <1>1 DEF IInv, LoopOK, CurrentTold, Out
<1>3. txnOpen' \in BOOLEAN /\ unsure' \in BOOLEAN
  <2>1. TxnAfter(req.kind, answer) \in BOOLEAN /\ UnsureAfter(req.kind, answer) \in BOOLEAN
    BY <1>2 DEF TxnAfter, UnsureAfter, TypeOK
  <2> QED BY <1>1, <2>1
<1>4. /\ outcome' \in [Requests -> {"none", "ok", "refused", "unclear", "lost"}]
      /\ outcome'[req.id] = Heard(answer)
      /\ \A r \in Requests : r # req.id => outcome'[r] = outcome[r]
  <2>1. Heard(answer) \in {"ok", "refused", "unclear"}
    BY DEF Heard
  <2> QED BY <1>1, <1>2, <2>1 DEF TypeOK
<1>5. TypeOK'
  BY <1>1, <1>2, <1>3, <1>4 DEF TypeOK, Answers, Untold
<1>6. LoopOK' /\ SendsCounted'
  BY <1>1, <1>2 DEF LoopOK, SendsCounted, Out
<1>7. CurrentTold'
  BY <1>1, <1>2, <1>4 DEF IInv, CurrentTold, Out, TypeOK, Requests
<1>8. OrphansLost' /\ AtMostOnce'
  BY <1>1, <1>2, <1>4 DEF IInv, OrphansLost, AtMostOnce, TypeOK
<1>9. OutcomeIsTrue'
  BY <1>1, <1>2, <1>4 DEF IInv, OutcomeIsTrue, Executions, Heard, Answers, Untold
<1> QED BY <1>5, <1>6, <1>7, <1>8, <1>9 DEF IInv

LEMMA LoseSafe ==
    ASSUME IInv, pc = "waiting", Lose
    PROVE  IInv'
<1> USE LeaderFollowAssumption
<1> DEFINE orphan == [node |-> at, id |-> req.id]
<1>1. /\ pc' = "ready" /\ retried' = 0 /\ pause' = FirstPause /\ hint' = NoNode
      /\ faulted' = TRUE /\ txnOpen' = FALSE /\ answer' = "none" /\ depth' = 0 /\ unsure' = FALSE
      /\ outcome' = [outcome EXCEPT ![req.id] = "lost"]
      /\ orphans' = IF answer = "none" THEN orphans \cup {orphan} ELSE orphans
      /\ UNCHANGED <<at, canBegin, timeout, timer, req, leader, elections, executed, sends>>
  BY DEF Lose, LocalsGone
<1>2. /\ TypeOK /\ req.id \in Requests /\ outcome[req.id] = "none"
      /\ executed[req.id] \in Executions(answer) /\ \A o \in orphans : o.id # req.id
  BY DEF IInv, LoopOK, CurrentTold, Out
<1>3. orphan \in [node : Nodes, id : Requests] /\ orphan.id = req.id
  BY <1>2 DEF TypeOK
<1>4. /\ outcome' \in [Requests -> {"none", "ok", "refused", "unclear", "lost"}]
      /\ outcome'[req.id] = "lost"
      /\ \A r \in Requests : r # req.id => outcome'[r] = outcome[r]
  BY <1>1, <1>2 DEF TypeOK
<1>5. /\ orphans' \subseteq [node : Nodes, id : Requests]
      /\ \A o \in orphans' : o \in orphans \/ (o = orphan /\ answer = "none")
  BY <1>1, <1>2, <1>3 DEF TypeOK
<1> HIDE DEF orphan
<1>6. TypeOK'
  <2>1. {faulted', txnOpen', canBegin', timeout', timer'} \subseteq BOOLEAN
    BY <1>1, <1>2 DEF TypeOK
  <2>2. answer' \in Answers /\ unsure' \in BOOLEAN
    BY <1>1 DEF Answers
  <2> QED BY <1>1, <1>2, <1>4, <1>5, <2>1, <2>2 DEF TypeOK
<1>7. LoopOK' /\ SendsCounted'
  BY <1>1 DEF LoopOK, SendsCounted, Out
<1>8. CurrentTold'
  BY <1>1, <1>2, <1>3, <1>4, <1>5, SMTT(30) DEF IInv, CurrentTold, Out, TypeOK, Requests
<1>9. OrphansLost' /\ AtMostOnce'
  BY <1>1, <1>2, <1>3, <1>4, <1>5 DEF IInv, OrphansLost, AtMostOnce, TypeOK, Executions, Untold
<1>10. OutcomeIsTrue'
  BY <1>1, <1>2, <1>3, <1>4, <1>5 DEF IInv, OutcomeIsTrue
<1> QED BY <1>6, <1>7, <1>8, <1>9, <1>10 DEF IInv

\* A node's answer says how often it executed the request.
LEMMA AnsweredSafe ==
    ASSUME IInv, pc = "waiting", answer = "none",
           answer' \in Answers, NEW times \in {0, 1}, times \in Executions(answer'), Ran(times),
           depth' \in 0 .. MaxDepth, hint' \in Nodes \cup {NoNode},
           UNCHANGED <<pc, at, faulted, txnOpen, canBegin, timeout, timer, req, retried, pause,
                       leader, orphans, elections, sends, outcome, unsure>>
    PROVE  IInv'
<1>1. /\ TypeOK /\ req.id \in Requests /\ outcome[req.id] = "none" /\ executed[req.id] = 0
      /\ \A o \in orphans : o.id # req.id
  BY DEF IInv, LoopOK, CurrentTold, Out, Executions, Untold
<1>2. executed' = [executed EXCEPT ![req.id] = @ + times]
  BY DEF Ran
<1>3. /\ executed' \in [Requests -> Nat] /\ executed'[req.id] = times
      /\ \A r \in Requests : r # req.id => executed'[r] = executed[r]
  BY <1>1, <1>2 DEF TypeOK
<1>4. TypeOK'
  BY <1>1, <1>3 DEF TypeOK
<1>5. LoopOK' /\ SendsCounted'
  BY DEF IInv, LoopOK, SendsCounted, Out
<1>6. CurrentTold'
  BY <1>1, <1>3 DEF IInv, CurrentTold, Out, TypeOK, Requests
<1>7. OrphansLost' /\ AtMostOnce'
  BY <1>1, <1>3 DEF IInv, OrphansLost, AtMostOnce, TypeOK
<1>8. OutcomeIsTrue'
  BY <1>1, <1>3 DEF IInv, OutcomeIsTrue
<1> QED BY <1>4, <1>5, <1>6, <1>7, <1>8 DEF IInv

LEMMA ExecutesSafe ==
    ASSUME IInv, Executes
    PROVE  IInv'
<1>1. TypeOK
  BY DEF IInv
<1>2. /\ pc = "waiting" /\ answer = "none" /\ Ran(1)
      /\ answer' \in {"ok", "nested"} \cup Untold /\ depth' \in 0 .. MaxDepth
      /\ UNCHANGED <<pc, at, faulted, txnOpen, canBegin, timeout, timer, req, retried, pause, hint,
                     leader, orphans, elections, sends, outcome, unsure>>
  <2>1. req.kind \in Kinds
    BY <1>1 DEF TypeOK
  <2>2. CASE req.kind = "write"
    BY <1>1, <2>2 DEF Executes, RanAnd, Answered, client, told, Untold, TypeOK
  <2>3. CASE req.kind = "begin" /\ at \in TxnNodes
    BY <1>1, <2>3, LeaderFollowAssumption DEF Executes, RanAnd, Answered, client, told, Untold, TypeOK
  <2>4. CASE req.kind = "begin" /\ at \notin TxnNodes
    BY <1>1, <2>4 DEF Executes, RanAnd, Answered, client, told, Untold, TypeOK
  <2>5. CASE req.kind = "end"
    BY <1>1, <2>5, LeaderFollowAssumption DEF Executes, RanAnd, Answered, client, told, Untold, TypeOK
  <2> QED BY <2>1, <2>2, <2>3, <2>4, <2>5 DEF Kinds
<1>3. answer' \in Answers /\ 1 \in Executions(answer') /\ hint' \in Nodes \cup {NoNode}
  BY <1>1, <1>2 DEF Answers, Untold, Executions, Untold, TypeOK
<1> QED BY <1>2, <1>3, AnsweredSafe

\* What is not executed.
LEMMA NotRan == ASSUME TypeOK, req.id \in Requests, UNCHANGED executed
                PROVE  Ran(0)
BY DEF Ran, TypeOK

LEMMA RefusesSafe ==
    ASSUME IInv, NEW a \in {"error", "not_leader"},
           pc = "waiting", answer = "none", answer' = a,
           depth' = IF req.kind = "end" THEN 0 ELSE depth,
           hint' \in Nodes \cup {NoNode},
           UNCHANGED <<pc, at, faulted, txnOpen, canBegin, timeout, timer, req, retried, pause,
                       leader, orphans, elections, executed, sends, outcome, unsure>>
    PROVE  IInv'
<1>1. TypeOK /\ req.id \in Requests
  BY DEF IInv, LoopOK, Out
<1>2. Ran(0) /\ 0 \in Executions(answer') /\ answer' \in Answers /\ depth' \in 0 .. MaxDepth
  BY <1>1, NotRan, LeaderFollowAssumption DEF Executions, Answers, Untold, TypeOK
<1> QED BY <1>2, AnsweredSafe

LEMMA RefusesRequestSafe ==
    ASSUME IInv, RefusesRequest
    PROVE  IInv'
<1>1. hint \in Nodes \cup {NoNode}
  BY DEF IInv, TypeOK
<1> QED BY <1>1, RefusesSafe DEF RefusesRequest, Refuses, Answered, client, told

LEMMA RefusesAsFollowerSafe ==
    ASSUME IInv, RefusesAsFollower
    PROVE  IInv'
BY RefusesSafe DEF RefusesAsFollower, told

LEMMA LeavesUnclearSafe ==
    ASSUME IInv, LeavesUnclear
    PROVE  IInv'
<1>1. PICK times \in {0, 1} : Ran(times)
  BY DEF LeavesUnclear
<1>2. /\ pc = "waiting" /\ answer = "none" /\ answer' = "unclear" /\ depth' \in {depth, 0}
      /\ UNCHANGED <<pc, at, faulted, txnOpen, canBegin, timeout, timer, req, retried, pause, hint,
                     leader, orphans, elections, sends, outcome, unsure>>
  BY DEF LeavesUnclear, Answered, client, told
<1>3. answer' \in Answers /\ times \in Executions(answer')
  BY <1>2 DEF Answers, Untold, Executions, Untold
<1>4. depth' \in 0 .. MaxDepth /\ hint' \in Nodes \cup {NoNode}
  BY <1>2, LeaderFollowAssumption DEF IInv, TypeOK
<1> QED BY <1>1, <1>2, <1>3, <1>4, AnsweredSafe

LEMMA ExecutesOrphanSafe ==
    ASSUME IInv, ExecutesOrphan
    PROVE  IInv'
<1>1. PICK o \in orphans :
        /\ orphans' = orphans \ {o}
        /\ executed' = IF o.node = leader THEN [executed EXCEPT ![o.id] = @ + 1] ELSE executed
        /\ UNCHANGED <<pc, at, faulted, txnOpen, canBegin, timeout, timer, req, retried, pause, hint,
                       leader, answer, depth, elections, sends, outcome, unsure>>
  BY DEF ExecutesOrphan, client, told
<1>2. TypeOK /\ o.id \in Requests /\ outcome[o.id] = "lost" /\ executed[o.id] = 0
  BY DEF IInv, OrphansLost, TypeOK
<1>3. /\ executed' \in [Requests -> Nat] /\ executed'[o.id] \in {0, 1}
      /\ \A r \in Requests : r # o.id => executed'[r] = executed[r]
  BY <1>1, <1>2 DEF TypeOK
<1>4. orphans' \subseteq orphans /\ \A p \in orphans' : p \in orphans /\ p.id # o.id
  BY <1>1 DEF IInv, OrphansLost
<1>5. TypeOK'
  BY <1>1, <1>2, <1>3, <1>4 DEF TypeOK
<1>6. LoopOK' /\ SendsCounted'
  BY <1>1 DEF IInv, LoopOK, SendsCounted, Out
<1>7. CurrentTold'
  <2>1. Out => req.id \in Requests
    BY DEF IInv, LoopOK
  <2> QED BY <1>1, <1>3, <1>4, <2>1 DEF IInv, CurrentTold, Out, Executions, Untold
<1>8. OrphansLost'
  BY <1>1, <1>2, <1>3, <1>4 DEF IInv, OrphansLost, TypeOK
<1>9. AtMostOnce' /\ OutcomeIsTrue'
  BY <1>1, <1>2, <1>3, <1>4 DEF IInv, AtMostOnce, OutcomeIsTrue
<1> QED BY <1>5, <1>6, <1>7, <1>8, <1>9 DEF IInv

LEMMA NextIInv == IInv /\ [Next]_vars => IInv'
<1> SUFFICES ASSUME IInv, [Next]_vars PROVE IInv'
  OBVIOUS
<1>1. CASE ClientStep
  BY <1>1, FinishSafe, RedirectedSafe, MoveOkSafe, MoveFailsSafe, PauseEndsSafe, LoseSafe
     DEF ClientStep, TimesOut
<1>2. CASE Breaks
  BY <1>2, LoseSafe DEF Breaks
<1>3. ASSUME NEW kind \in Kinds, Submit(kind) PROVE IInv'
  BY <1>3, SubmittedSafe DEF Submit
<1>4. CASE Begin
  BY <1>4, SubmittedSafe DEF Begin, Kinds
<1>5. ASSUME NEW set \in BOOLEAN, SetReadTimeout(set) PROVE IInv'
  BY <1>5, SetReadTimeoutSafe
<1>6. ASSUME NEW n \in Nodes, Reconnect(n) PROVE IInv'
  BY <1>6, ReconnectSafe
<1>7. CASE Executes \/ RefusesRequest \/ RefusesAsFollower \/ LeavesUnclear \/ ExecutesOrphan \/ Elect
  BY <1>7, ExecutesSafe, RefusesRequestSafe, RefusesAsFollowerSafe, LeavesUnclearSafe,
     ExecutesOrphanSafe, ElectSafe
<1>8. CASE UNCHANGED vars
  <2>1. TypeOK' /\ LoopOK' /\ SendsCounted' /\ (Out' => Out)
    BY <1>8 DEF vars, client, cluster, told, IInv, TypeOK, LoopOK, SendsCounted, Out
  <2> QED BY <1>8, <2>1, QuietSafe DEF vars, client, cluster, told
<1> QED BY <1>1, <1>2, <1>3, <1>4, <1>5, <1>6, <1>7, <1>8 DEF Next

LEMMA LoopInvariant == Spec => []IInv
BY InitIInv, NextIInv, PTL DEF Spec

-----------------------------------------------------------------------------
(* The session transaction *)

LEMMA InitSession == Init => OpenIsKnown /\ BeginIsGranted /\ KnownIsOpen
BY DEF Init, OpenIsKnown, BeginIsGranted, Out, KnownIsOpen, Believes, Sure

\* Whatever is answered, refused or redirected, a block that the server has open
\* is one the client knows of; and a redirect is followed with none open.
LEMMA NextOpenIsKnown == IInv /\ OpenIsKnown /\ [Next]_vars => OpenIsKnown'
<1> SUFFICES ASSUME IInv, OpenIsKnown, [Next]_vars PROVE OpenIsKnown'
  OBVIOUS
<1> USE LeaderFollowAssumption
<1>0. TypeOK /\ LoopOK /\ req.kind \in Kinds /\ depth \in Nat
  BY DEF IInv, TypeOK
<1>1. CASE Finish
  BY <1>0, <1>1 DEF Finish, Return, LoopOK, Out, OpenIsKnown, Believes, Sure
<1>2. CASE Redirected
  BY <1>0, <1>2 DEF Redirected, MayRetry, told, TxnAfter, UnsureAfter, Untold, Kinds, OpenIsKnown, Believes, Sure, LoopOK, Out
<1>3. CASE MoveOk
  BY <1>0, <1>3 DEF MoveOk, SendAgain, LoopOK, OpenIsKnown, Believes, Sure
<1>4. CASE MoveFails
  BY <1>0, <1>4 DEF MoveFails, cluster, told, LoopOK, OpenIsKnown, Believes, Sure
<1>5. CASE PauseEnds
  BY <1>0, <1>5 DEF PauseEnds, SendAgain, cluster, told, LoopOK, OpenIsKnown, Believes, Sure
<1>6. CASE Lose
  BY <1>6 DEF Lose, OpenIsKnown, Believes, Sure
<1>7. ASSUME NEW kind \in Kinds, Submitted(kind) PROVE OpenIsKnown'
  BY <1>0, <1>7 DEF Submitted, cluster, told, LoopOK, OpenIsKnown, Believes, Sure
<1>8. ASSUME NEW set \in BOOLEAN, SetReadTimeout(set) PROVE OpenIsKnown'
  BY <1>8 DEF SetReadTimeout, cluster, told, OpenIsKnown, Believes, Sure
<1>9. ASSUME NEW n \in Nodes, Reconnect(n) PROVE OpenIsKnown'
  BY <1>9 DEF Reconnect, cluster, told, OpenIsKnown, Believes, Sure
<1>10. CASE Executes
  <2>1. /\ pc = "waiting" /\ answer = "none" /\ answer' # "none"
        /\ UNCHANGED <<pc, req, faulted, txnOpen, unsure>>
    BY <1>0, <1>10 DEF Executes, RanAnd, Answered, client, told, Kinds
  <2>2. depth' > 0 /\ ~UnsureAfter(req.kind, answer') => TxnAfter(req.kind, answer')
    <3>1. CASE req.kind = "write"
      BY <1>10, <2>1, <3>1 DEF Executes, RanAnd, Answered, TxnAfter, UnsureAfter, Untold, OpenIsKnown, Believes, Sure
    <3>2. CASE req.kind = "begin"
      BY <1>10, <3>2 DEF Executes, RanAnd, Answered, TxnAfter, UnsureAfter, Untold
    <3>3. CASE req.kind = "end"
      BY <1>0, <1>10, <3>3 DEF Executes, RanAnd, Answered, TxnAfter, UnsureAfter, Untold
    <3> QED BY <1>0, <3>1, <3>2, <3>3 DEF Kinds
  <2> QED BY <2>1, <2>2 DEF OpenIsKnown, Believes, Sure, TxnAfter, UnsureAfter, Untold
<1>11. CASE RefusesRequest
  BY <1>0, <1>11 DEF RefusesRequest, Refuses, Answered, client, told, TxnAfter, UnsureAfter, Untold, Kinds, OpenIsKnown, Believes, Sure
<1>12. CASE RefusesAsFollower
  BY <1>0, <1>12 DEF RefusesAsFollower, told, TxnAfter, UnsureAfter, Untold, Kinds, OpenIsKnown, Believes, Sure
<1>13. CASE LeavesUnclear
  BY <1>13 DEF LeavesUnclear, Answered, client, told, TxnAfter, UnsureAfter, Untold, OpenIsKnown, Believes, Sure
<1>14. CASE ExecutesOrphan
  BY <1>14 DEF ExecutesOrphan, client, told, OpenIsKnown, Believes, Sure, TxnAfter, UnsureAfter, Untold
<1>15. CASE Elect
  BY <1>15 DEF Elect, client, told, OpenIsKnown, Believes, Sure, TxnAfter, UnsureAfter, Untold
<1>16. CASE UNCHANGED vars
  BY <1>16 DEF vars, client, cluster, told, OpenIsKnown, Believes, Sure, TxnAfter, UnsureAfter, Untold
<1> QED BY <1>1, <1>2, <1>3, <1>4, <1>5, <1>6, <1>7, <1>8, <1>9, <1>10, <1>11, <1>12, <1>13, <1>14,
           <1>15, <1>16 DEF Next, ClientStep, TimesOut, Breaks, Submit, Begin, Kinds

\* begin() asks the node it is connected to, and only redirects change that
\* while the BEGIN is on its way.
LEMMA NextBeginIsGranted == IInv /\ BeginIsGranted /\ BeginMove /\ [Next]_vars => BeginIsGranted'
<1> SUFFICES ASSUME IInv, BeginIsGranted, BeginMove, [Next]_vars PROVE BeginIsGranted'
  OBVIOUS
<1>1. CASE MoveOk
  BY <1>1 DEF MoveOk, SendAgain, BeginMove, BeginIsGranted, Out
<1>2. ASSUME NEW kind \in Kinds, Submitted(kind), kind = "begin" => canBegin PROVE BeginIsGranted'
  BY <1>2 DEF Submitted, BeginIsGranted, Out
<1>3. ASSUME NEW n \in Nodes, Reconnect(n) PROVE BeginIsGranted'
  BY <1>3 DEF Reconnect, BeginIsGranted, Out
<1>4. CASE \/ Finish \/ Redirected \/ MoveFails \/ PauseEnds \/ Lose
           \/ \E set \in BOOLEAN : SetReadTimeout(set)
           \/ RefusesRequest \/ RefusesAsFollower \/ LeavesUnclear \/ ExecutesOrphan
           \/ Elect \/ UNCHANGED vars
  <2>1. UNCHANGED <<at, canBegin, req>> /\ (Out' => Out)
    BY <1>4 DEF Finish, Return, Redirected, MoveFails, PauseEnds, SendAgain, Lose, SetReadTimeout,
                RefusesRequest, Refuses, RefusesAsFollower, LeavesUnclear, Answered,
                ExecutesOrphan, Elect, client, cluster, told, vars, Out
  <2> QED BY <2>1 DEF BeginIsGranted
<1>5. CASE Executes
  <2>1. req.kind \in Kinds
    BY DEF IInv, TypeOK
  <2> QED BY <1>5, <2>1 DEF Executes, RanAnd, Answered, client, told, Kinds, BeginIsGranted, Out
<1> QED BY <1>1, <1>2, <1>3, <1>4, <1>5 DEF Next, ClientStep, TimesOut, Breaks, Submit, Begin, Kinds

\* A block the client takes to be open is: BEGIN never runs on a node that would
\* take it for a script of its own.
LEMMA NextKnownIsOpen ==
    IInv /\ OpenIsKnown /\ BeginIsGranted /\ KnownIsOpen /\ [Next]_vars => KnownIsOpen'
<1> SUFFICES ASSUME IInv, OpenIsKnown, BeginIsGranted, KnownIsOpen, [Next]_vars PROVE KnownIsOpen'
  OBVIOUS
<1> USE LeaderFollowAssumption
<1>0. /\ TypeOK /\ LoopOK /\ req.kind \in Kinds /\ depth \in Nat
      /\ Out /\ req.kind = "begin" => at \in TxnNodes
  BY DEF IInv, TypeOK, BeginIsGranted
<1>1. CASE Finish
  BY <1>0, <1>1 DEF Finish, Return, LoopOK, Out, KnownIsOpen, Believes, Sure
<1>2. CASE Redirected
  BY <1>2 DEF Redirected, MayRetry, told, TxnAfter, UnsureAfter, Untold, Kinds, KnownIsOpen, Believes, Sure
<1>3. CASE MoveOk
  BY <1>0, <1>3 DEF MoveOk, SendAgain, LoopOK, OpenIsKnown, KnownIsOpen, Believes, Sure
<1>4. CASE MoveFails
  BY <1>0, <1>4 DEF MoveFails, cluster, told, LoopOK, KnownIsOpen, Believes, Sure
<1>5. CASE PauseEnds
  BY <1>0, <1>5 DEF PauseEnds, SendAgain, cluster, told, LoopOK, KnownIsOpen, Believes, Sure
<1>6. CASE Lose
  BY <1>6 DEF Lose, KnownIsOpen
<1>7. ASSUME NEW kind \in Kinds, Submitted(kind) PROVE KnownIsOpen'
  BY <1>0, <1>7 DEF Submitted, cluster, told, LoopOK, KnownIsOpen, Believes, Sure
<1>8. ASSUME NEW set \in BOOLEAN, SetReadTimeout(set) PROVE KnownIsOpen'
  BY <1>8 DEF SetReadTimeout, cluster, told, KnownIsOpen, Believes, Sure
<1>9. ASSUME NEW n \in Nodes, Reconnect(n) PROVE KnownIsOpen'
  BY <1>9 DEF Reconnect, cluster, told, OpenIsKnown, KnownIsOpen, Believes, Sure
<1>10. CASE Executes
  <2>1. /\ pc = "waiting" /\ answer = "none" /\ answer' # "none"
        /\ UNCHANGED <<pc, req, faulted, txnOpen, unsure>>
    BY <1>0, <1>10 DEF Executes, RanAnd, Answered, client, told, Kinds
  <2>2. ~faulted /\ ~UnsureAfter(req.kind, answer') /\ TxnAfter(req.kind, answer') => depth' > 0
    <3>1. CASE req.kind = "write"
      BY <1>10, <2>1, <3>1 DEF Executes, RanAnd, Answered, TxnAfter, UnsureAfter, Untold, KnownIsOpen, Believes, Sure
    <3>2. CASE req.kind = "begin"
      BY <1>0, <1>10, <3>2 DEF Executes, RanAnd, Answered, client, told, TxnAfter, UnsureAfter, Untold, Out
    <3>3. CASE req.kind = "end"
      BY <1>0, <1>10, <3>3 DEF Executes, RanAnd, Answered, TxnAfter, UnsureAfter, Untold
    <3> QED BY <1>0, <3>1, <3>2, <3>3 DEF Kinds
  <2> QED BY <2>1, <2>2 DEF KnownIsOpen, Believes, Sure, TxnAfter, UnsureAfter, Untold
<1>11. CASE RefusesRequest
  BY <1>0, <1>11 DEF RefusesRequest, Refuses, Answered, client, told, TxnAfter, UnsureAfter, Untold, Kinds, KnownIsOpen, Believes, Sure
<1>12. CASE RefusesAsFollower
  BY <1>0, <1>12 DEF RefusesAsFollower, told, TxnAfter, UnsureAfter, Untold, Kinds, KnownIsOpen, Believes, Sure
<1>13. CASE LeavesUnclear
  BY <1>13 DEF LeavesUnclear, Answered, client, told, TxnAfter, UnsureAfter, Untold, KnownIsOpen, Believes, Sure
<1>14. CASE ExecutesOrphan
  BY <1>14 DEF ExecutesOrphan, client, told, KnownIsOpen, Believes, Sure, TxnAfter, UnsureAfter, Untold
<1>15. CASE Elect
  BY <1>15 DEF Elect, client, told, KnownIsOpen, Believes, Sure, TxnAfter, UnsureAfter, Untold
<1>16. CASE UNCHANGED vars
  BY <1>16 DEF vars, client, cluster, told, KnownIsOpen, Believes, Sure, TxnAfter, UnsureAfter, Untold
<1> QED BY <1>1, <1>2, <1>3, <1>4, <1>5, <1>6, <1>7, <1>8, <1>9, <1>10, <1>11, <1>12, <1>13, <1>14,
           <1>15, <1>16 DEF Next, ClientStep, TimesOut, Breaks, Submit, Begin, Kinds

LEMMA OpenIsKnownInvariant == Spec => []OpenIsKnown
BY InitSession, NextOpenIsKnown, LoopInvariant, PTL DEF Spec

-----------------------------------------------------------------------------
(* The theorems *)

\* The client, told, the cluster and the histories keep their types; no request is
\* sent more often than the retries allow (send_in).
THEOREM FollowTypes == Spec => []TypeOK
<1>1. IInv => TypeOK
  BY DEF IInv
<1> QED BY <1>1, LoopInvariant, PTL

\* No request is executed twice, however many elections, wrong hints, lost
\* answers and abandoned sockets there are (send_in, move_to).
THEOREM FollowAtMostOnce == Spec => []AtMostOnce
<1>1. IInv => AtMostOnce
  BY DEF IInv
<1> QED BY <1>1, LoopInvariant, PTL

\* What a caller was told of a request is what became of it, and stays so: ok
\* means executed once, a refusal never.
THEOREM FollowOutcomeIsTrue == Spec => []OutcomeIsTrue
<1>1. IInv => OutcomeIsTrue
  BY DEF IInv
<1> QED BY <1>1, LoopInvariant, PTL

\* As long as no BEGIN is redirected to a node that grants no session
\* transactions, the client between calls knows whether its session has one
\* open (transaction_control).
THEOREM FollowTxnAgrees == Spec /\ BeginMovesToGranted => []TxnAgrees
<1>1. Spec /\ BeginMovesToGranted => []BeginIsGranted
  <2>1. IInv /\ BeginIsGranted /\ [BeginMove]_vars /\ [Next]_vars => BeginIsGranted'
    <3>1. CASE UNCHANGED vars
      BY <3>1 DEF vars, client, told, BeginIsGranted, Out
    <3> QED BY <3>1, NextBeginIsGranted
  <2> QED BY <2>1, InitSession, LoopInvariant, PTL DEF Spec, BeginMovesToGranted
<1>2. Spec /\ BeginMovesToGranted => []KnownIsOpen
  <2>1. IInv /\ OpenIsKnown /\ BeginIsGranted /\ KnownIsOpen /\ [Next]_vars => KnownIsOpen'
    BY NextKnownIsOpen
  <2> QED BY <1>1, <2>1, InitSession, LoopInvariant, OpenIsKnownInvariant, PTL DEF Spec
<1>3. OpenIsKnown /\ KnownIsOpen => TxnAgrees
  BY DEF OpenIsKnown, KnownIsOpen, TxnAgrees, Believes, Sure
<1> QED BY <1>2, <1>3, OpenIsKnownInvariant, PTL

\* Where every node grants them, no redirect matters.
COROLLARY FollowTxnAgreesEverywhere ==
    ASSUME TxnNodes = Nodes
    PROVE  Spec => []TxnAgrees
<1>1. IInv => BeginMove
  BY DEF IInv, LoopOK, BeginMove, MoveOk
<1> QED BY <1>1, LoopInvariant, FollowTxnAgrees, PTL DEF BeginMovesToGranted

\* The connection is not replaced while the server holds a session transaction
\* for it, whichever nodes grant them (options.rs:160-161).
THEOREM FollowTxnPinned == Spec => TxnPinned
<1>1. IInv /\ OpenIsKnown /\ [Next]_vars => [depth > 0 /\ ~unsure /\ ~faulted' => at' = at]_vars
  <2> SUFFICES ASSUME IInv, OpenIsKnown, Next, depth > 0, ~unsure, ~faulted' PROVE at' = at
    OBVIOUS
  <2>1. txnOpen \/ pc = "waiting"
    BY DEF OpenIsKnown, Believes, Sure
  <2>2. ~MoveOk
    BY <2>1 DEF MoveOk, OpenIsKnown
  <2>3. ASSUME NEW n \in Nodes PROVE ~Reconnect(n)
    BY <2>1 DEF Reconnect, OpenIsKnown
  <2>4. ASSUME ClientStep \/ Breaks PROVE at' = at
    BY <2>2, <2>4 DEF ClientStep, Breaks, TimesOut, Lose, Finish, Redirected, MoveFails, PauseEnds
  <2>5. ASSUME Executes PROVE at' = at
    <3>1. req.kind \in Kinds
      BY DEF IInv, TypeOK
    <3> QED BY <2>5, <3>1 DEF Executes, RanAnd, Answered, client, told, Kinds
  <2>6. ASSUME RefusesRequest \/ RefusesAsFollower \/ LeavesUnclear \/ ExecutesOrphan \/ Elect PROVE at' = at
    BY <2>6 DEF RefusesRequest, Refuses, RefusesAsFollower, LeavesUnclear, Answered, ExecutesOrphan,
                Elect, client
  <2> QED BY <2>3, <2>4, <2>5, <2>6 DEF Next, Submit, Submitted, Begin, SetReadTimeout
<1> QED BY <1>1, LoopInvariant, OpenIsKnownInvariant, PTL DEF Spec, TxnPinned
-----------------------------------------------------------------------------
(* Refinement.                                                              *)

Told == [r \in Requests |-> Known(r)]

\* What callers know changes with the request in flight and what was told.
LEMMA KnownKept ==
    ASSUME outcome' = outcome, Out' = Out, req'.id = req.id
    PROVE  Told' = Told
BY DEF Told, Known, Out

\* A request that runs now, or for the first time later, did not run before.
LEMMA RunsOnce ==
    ASSUME IInv, NEW r \in Requests, UNCHANGED <<outcome, pc, req>>,
           Known(r) \in {"waiting", "unknown"}, executed[r] = 0,
           executed' = [executed EXCEPT ![r] = @ + 1]
    PROVE  Promise!Run(r)
<1>1. Told' = Told
  BY KnownKept DEF Out
<1>2. executed' = [executed EXCEPT ![r] = 1]
  BY DEF IInv, TypeOK
<1>3. Told[r] = Known(r)
  BY DEF Told
<1> QED
  BY <1>1, <1>2, <1>3 DEF Promise!Run, Told

\* The end of a call tells what became of it.
LEMMA TellsOnce ==
    ASSUME IInv, Out, pc' = "ready", UNCHANGED <<req, executed>>,
           NEW a \in {"ok", "refused", "unclear", "lost"},
           outcome' = [outcome EXCEPT ![req.id] = a],
           a = "ok" => executed[req.id] = 1,
           a = "refused" => executed[req.id] = 0
    PROVE  \E r \in Requests : \E what \in {"yes", "no", "unknown"} : Promise!Tell(r, what)
<1> DEFINE r == req.id
           what == IF a = "ok" THEN "yes" ELSE IF a = "refused" THEN "no" ELSE "unknown"
<1>1. r \in Requests /\ outcome \in [Requests -> {"none", "ok", "refused", "unclear", "lost"}]
  BY DEF IInv, LoopOK, TypeOK
<1>2. Told[r] = "waiting"
  BY <1>1 DEF Told, Known, Out
<1>3. ASSUME NEW s \in Requests
      PROVE  Told'[s] = IF s = r THEN what ELSE Told[s]
  <2>1. CASE s = r
    <3>1. outcome'[r] = a
      BY <1>1
    <3>2. Told'[s] = Known(s)'
      BY <2>1, <1>1 DEF Told
    <3> QED
      BY <2>1, <3>1, <3>2 DEF Known, Answers, Untold
  <2>2. CASE s # r
    <3>1. outcome'[s] = outcome[s]
      BY <1>1, <2>2
    <3> QED
      BY <2>2, <3>1 DEF Told, Known
  <2> QED
    BY <2>1, <2>2
<1>4. Told' = [Told EXCEPT ![r] = what]
  <2> HIDE DEF what, r
  <2>1. Told' = [s \in Requests |-> Known(s)'] /\ Told = [s \in Requests |-> Known(s)]
    BY DEF Told, Requests
  <2> QED
    BY <1>3, <2>1, Zenon
<1>5. what \in {"yes", "no", "unknown"}
  OBVIOUS
<1>6. (what = "yes" => executed[r] = 1) /\ (what = "no" => executed[r] = 0)
  OBVIOUS
<1> HIDE DEF what, r
<1>7. Promise!Tell(r, what)
  BY <1>2, <1>4, <1>6 DEF Promise!Tell, Told
<1> QED
  BY <1>1, <1>5, <1>7

\* Every step of the client and of the cluster is one of delivery, or
\* invisible there.
LEMMA DeliveryStep ==
    ASSUME IInv, [Next]_vars
    PROVE  [Promise!Next]_Promise!vars
<1>0. /\ TypeOK /\ (Out => req.id \in Requests)
      /\ (Out => /\ outcome[req.id] = "none" /\ executed[req.id] \in Executions(answer))
      /\ \A r \in Requests : r > req.id => outcome[r] = "none"
  BY DEF IInv, LoopOK, CurrentTold
<1>1. ASSUME UNCHANGED <<outcome, executed>>, Out' = Out, req'.id = req.id
      PROVE  UNCHANGED Promise!vars
  BY <1>1, KnownKept DEF Promise!vars, Told
<1>2. ASSUME NEW kind \in Kinds, Submitted(kind)
      PROVE  Promise!Next
  <2> DEFINE r == req.id + 1
  <2>1. /\ r \in Requests /\ r > req.id /\ req.id # r
        /\ pc = "ready" /\ pc' = "waiting" /\ req'.id = r
        /\ UNCHANGED <<outcome, executed>>
    BY <1>0, <1>2, LeaderFollowAssumption DEF Submitted, TypeOK, Requests
  <2> HIDE DEF r
  <2>2. Told[r] = "unasked"
    BY <1>0, <2>1 DEF Told, Known
  <2>3. \A s \in Requests : Told[s] # "waiting"
    BY <2>1 DEF Told, Known
  <2>4. Told' = [Told EXCEPT ![r] = "waiting"]
    <3>1. ASSUME NEW s \in Requests
          PROVE  Known(s)' = IF s = r THEN "waiting" ELSE Known(s)
      BY <2>1 DEF Known
    <3>2. Told' = [s \in Requests |-> Known(s)'] /\ Told = [s \in Requests |-> Known(s)]
      BY DEF Told, Requests
    <3> QED
      BY <3>1, <3>2, Zenon
  <2>5. Promise!Ask(r)
    BY <2>1, <2>2, <2>3, <2>4 DEF Promise!Ask, Told
  <2> QED
    BY <2>1, <2>5 DEF Promise!Next
<1>3. CASE (\E kind \in Kinds : Submit(kind)) \/ Begin
  BY <1>2, <1>3 DEF Submit, Begin, Kinds
<1>4. CASE \/ \E set \in BOOLEAN : SetReadTimeout(set)
           \/ \E n \in Nodes : Reconnect(n)
           \/ Redirected \/ MoveOk \/ MoveFails \/ PauseEnds
           \/ RefusesRequest \/ RefusesAsFollower \/ Elect
           \/ UNCHANGED vars
  <2>1. UNCHANGED <<outcome, executed>> /\ Out' = Out /\ req'.id = req.id
    BY <1>4 DEF SetReadTimeout, Reconnect, Redirected, MoveOk, MoveFails, PauseEnds, SendAgain,
                RefusesRequest, Refuses, Answered, RefusesAsFollower, Elect, vars, client, cluster, told, Out
  <2> QED
    BY <1>1, <2>1
<1>5. CASE Finish
  <2>1. /\ Out /\ pc' = "ready" /\ UNCHANGED <<req, executed>>
        /\ outcome' = [outcome EXCEPT ![req.id] = Heard(answer)]
        /\ Heard(answer) \in {"ok", "refused", "unclear"}
    BY <1>0, <1>5 DEF Finish, Return, Heard, Out, TypeOK
  <2>2. /\ Heard(answer) = "ok" => executed[req.id] = 1
        /\ Heard(answer) = "refused" => executed[req.id] = 0
    BY <1>0, <2>1 DEF Executions, Heard, Untold
  <2> QED
    BY <2>1, <2>2, TellsOnce DEF Promise!Next
<1>6. CASE TimesOut \/ Breaks
  <2>1. /\ Out /\ pc' = "ready" /\ UNCHANGED <<req, executed>>
        /\ outcome' = [outcome EXCEPT ![req.id] = "lost"]
    BY <1>6 DEF TimesOut, Breaks, Lose, Out
  <2> QED
    BY <2>1, TellsOnce DEF Promise!Next
<1>7. CASE Executes \/ LeavesUnclear
  <2>1. /\ Out /\ UNCHANGED <<pc, req, outcome>> /\ executed[req.id] = 0
        /\ \E times \in {0, 1} : Ran(times)
    <3>1. answer = "none" /\ Out /\ UNCHANGED <<pc, req, outcome>>
      BY <1>0, <1>7 DEF Executes, RanAnd, LeavesUnclear, Answered, client, told, Out, TypeOK, Kinds
    <3> QED
      BY <1>0, <1>7, <3>1 DEF Executions, Untold, Executes, LeavesUnclear
  <2>2. CASE Ran(0)
    <3>1. executed' = executed
      BY <1>0, <2>2 DEF Ran, TypeOK
    <3> QED
      BY <1>1, <2>1, <3>1 DEF Out
  <2>3. CASE Ran(1)
    <3>1. Known(req.id) = "waiting" /\ req.id \in Requests
      BY <1>0, <2>1 DEF Known, Out
    <3> QED
      BY <2>1, <2>3, <3>1, RunsOnce DEF Ran, Promise!Next
  <2> QED
    BY <2>1, <2>2, <2>3
<1>8. CASE ExecutesOrphan
  <2>1. UNCHANGED <<pc, req, outcome>>
    BY <1>8 DEF ExecutesOrphan, client, told
  <2>2. PICK o \in orphans :
          executed' = IF o.node = leader THEN [executed EXCEPT ![o.id] = @ + 1] ELSE executed
    BY <1>8 DEF ExecutesOrphan
  <2>3. /\ o.id \in Requests /\ outcome[o.id] = "lost" /\ executed[o.id] = 0
        /\ (Out => o.id # req.id)
    BY DEF IInv, TypeOK, OrphansLost, CurrentTold
  <2>4. CASE executed' = executed
    BY <1>1, <2>1, <2>4 DEF Out
  <2>5. CASE executed' = [executed EXCEPT ![o.id] = @ + 1]
    <3>1. Known(o.id) = "unknown"
      BY <2>3 DEF Known, Out
    <3> QED
      BY <2>1, <2>3, <2>5, <3>1, RunsOnce DEF Promise!Next
  <2> QED
    BY <2>2, <2>4, <2>5
<1> QED
  BY <1>3, <1>4, <1>5, <1>6, <1>7, <1>8 DEF Next, ClientStep

\* Whatever redirects, elections, timeouts and broken sockets do, requests are
\* delivered as Delivery promises: run at most once, and the truth told once
\* (send_in, move_to, exchange).
THEOREM FollowImplementsDelivery == Spec => ImplementsDelivery
<1>1. Init => Promise!Init
  <2> SUFFICES ASSUME Init PROVE Told = [r \in Requests |-> "unasked"]
    BY DEF Promise!Init, Init, Told
  <2> QED
    BY DEF Told, Known, Init
<1>2. IInv /\ [Next]_vars => [Promise!Next]_Promise!vars
  BY DeliveryStep
<1> QED
  BY <1>1, <1>2, LoopInvariant, PTL DEF Spec, ImplementsDelivery, Promise!Spec
=============================================================================
