---------------------------- MODULE CacheClients -----------------------------
(****************************************************************************)
(* Several clients of one cache, each with a connection of its own, where   *)
(* time matters: blocking pops, which wait at the server while the client's *)
(* read timeout runs, and locks, whose leases lapse (src/cache.rs).  A call *)
(* that times out or whose connection is cut fails and poisons its Client,  *)
(* and its request stays on its way: the server may execute it late.        *)
(*                                                                          *)
(* Time passes in ticks of a millisecond.  Requests and replies of a sound  *)
(* connection arrive within Transit, the server answers a parked pop when   *)
(* its wait is over, and a client notices a timeout at once.                *)
(****************************************************************************)
EXTENDS Naturals, FiniteSets

CONSTANTS
    Clients,
    Nobody,
    ReadTimeout,    \* Client.read_timeout
    Waits,          \* the timeouts of the blocking pops
    Ttl,            \* the lease asked for
    Transit,        \* bound on the way of a request or of a reply
    MaxCalls,       \* bound on the calls
    MaxPops,        \* bound on the calls that are pops
    MaxElements,    \* bound on the elements pushed
    MaxCuts         \* bound on the connections cut

ASSUME CacheClientsAssumption ==
    /\ Nobody \notin Clients
    /\ {ReadTimeout, Ttl} \subseteq Nat \ {0}
    /\ Waits \subseteq Nat /\ 0 \in Waits
    /\ {Transit, MaxCalls, MaxPops, MaxElements, MaxCuts} \subseteq Nat

VARIABLES
    job,        \* what the clients are at: "pop" or "lock"
    poisoned,   \* the clients whose connection is gone
    requests,   \* every request asked, and what became of it
    list,       \* elements of the server's list
    pushed,     \* elements pushed so far
    lock,       \* the server's lock: who holds it, its token, what is left of the lease
    issued,     \* the last token the server gave
    lease       \* what each client takes its lease to be

vars == <<job, poisoned, requests, list, pushed, lock, issued, lease>>
cache == <<list, pushed, lock, issued>>

Calls == 1 .. MaxCalls

Ops == [pop |-> {"pop"}, lock |-> {"acquire", "renew", "release"}]

NoAnswer == [yes |-> FALSE, token |-> 0]

Unasked == [from |-> Nobody, op |-> "none", wait |-> 0, body |-> [owner |-> Nobody, ms |-> 0], place |-> "unasked",
            age |-> 0, waited |-> 0, failed |-> "no", floor |-> 0, answer |-> NoAnswer, told |-> NoAnswer]

\* On its way to the server, waiting there, on its way back.
Travelling == {"going", "parked", "coming"}

InFlight(i) == requests[i].place \in Travelling /\ requests[i].failed = "no"

Waiting(c) == \E i \in Calls : InFlight(i) /\ requests[i].from = c

Tokens == 0 .. MaxCalls

Answers == [yes : BOOLEAN, token : Tokens]

TypeOK ==
    /\ job \in DOMAIN Ops
    /\ poisoned \subseteq Clients
    /\ requests \in [Calls -> [from : Clients \cup {Nobody}, op : Ops[job] \cup {"none"}, wait : Waits,
                               body : [owner : Clients \cup {Nobody}, ms : Nat],
                               place : Travelling \cup {"unasked", "told", "gone"},
                               age : Nat, waited : 0 .. ReadTimeout,
                               failed : {"no", "timeout", "cut"}, floor : Tokens,
                               answer : Answers, told : Answers]]
    /\ \A c \in Clients : \A i, j \in Calls :
         InFlight(i) /\ InFlight(j) /\ requests[i].from = c /\ requests[j].from = c => i = j
    /\ pushed \in 0 .. MaxElements /\ list \in 0 .. pushed
    /\ lock \in [holder : Clients \cup {Nobody}, token : Tokens, left : 0 .. Ttl]
    /\ lock.holder = Nobody <=> lock.left = 0
    /\ issued \in Tokens /\ lock.token <= issued
    /\ lease \in [Clients -> [token : Tokens, left : 0 .. Ttl]]

NoLease == [token |-> 0, left |-> 0]

Init ==
    /\ job \in DOMAIN Ops
    /\ poisoned = {}
    /\ requests = [i \in Calls |-> Unasked]
    /\ list = 0 /\ pushed = 0
    /\ lock = [holder |-> Nobody, token |-> 0, left |-> 0]
    /\ issued = 0
    /\ lease = [c \in Clients |-> NoLease]

-----------------------------------------------------------------------------
(* The clients *)

\* Mutant: the timeout is sent as the next longer one.
PopBody_RoundedUp(c, wait) == [owner |-> Nobody, ms |-> wait + 1]

PopBody(c, wait) == [owner |-> Nobody, ms |-> wait]

\* Mutant: every client is the same owner.
LockOp_SameOwner(c, op) ==
    [owner |-> CHOOSE d \in Clients : TRUE, ms |-> IF op = "release" THEN 0 ELSE Ttl]

\* Mutant: the lease is sent as the next longer one.
LockOp_RoundedUp(c, op) == [owner |-> c, ms |-> IF op = "release" THEN 0 ELSE Ttl + 1]

\* Mutant: a renewal sends no lease of its own.
LockOp_KeepsLease(c, op) == [owner |-> c, ms |-> IF op = "acquire" THEN Ttl ELSE 0]

LockOp(c, op) == [owner |-> c, ms |-> IF op = "release" THEN 0 ELSE Ttl]

\* The highest token anybody was told of.
HighestTold == CHOOSE t \in Tokens :
    /\ t = 0 \/ \E i \in Calls : requests[i].told.token = t
    /\ \A i \in Calls : requests[i].told.token <= t

Send(c, op, wait, body) ==
    /\ c \notin poisoned /\ ~Waiting(c)
    /\ \E i \in Calls :
        /\ requests[i].place = "unasked"
        /\ job = "pop" => i <= MaxPops
        /\ \A j \in 1 .. (i - 1) : requests[j].place # "unasked"
        /\ requests' = [requests EXCEPT ![i] =
             [Unasked EXCEPT !.from = c, !.op = op, !.wait = wait, !.body = body, !.place = "going",
                             !.floor = HighestTold]]

BlockingPop(c, wait) ==
    /\ job = "pop"
    /\ Send(c, "pop", wait, PopBody(c, wait))
    /\ UNCHANGED <<job, poisoned, cache, lease>>

\* A caller that asks to release its lock takes it to be gone.
AskLock(c, op) ==
    /\ job = "lock"
    /\ Send(c, op, 0, LockOp(c, op))
    /\ lease' = IF op = "release" THEN [lease EXCEPT ![c] = NoLease] ELSE lease
    /\ UNCHANGED <<job, poisoned, cache>>

\* Mutant: the lease is counted from the answer.
LeaseAfter_FromAnswer(r) ==
    CASE r.op \in {"acquire", "renew"} /\ r.answer.yes -> [token |-> r.answer.token, left |-> Ttl]
      [] r.op = "renew" /\ ~r.answer.yes -> NoLease
      [] OTHER -> lease[r.from]

\* The lease a caller counts runs from the moment it asked.
LeaseAfter(r) ==
    CASE r.op = "acquire" /\ r.answer.yes -> [token |-> r.answer.token,
                                             left |-> IF r.waited < Ttl THEN Ttl - r.waited ELSE 0]
      [] r.op = "renew" /\ r.answer.yes -> [token |-> r.answer.token,
                                           left |-> IF r.waited < Ttl THEN Ttl - r.waited ELSE 0]
      [] r.op = "renew" /\ ~r.answer.yes -> NoLease
      [] OTHER -> lease[r.from]

\* What is kept of a request that nobody waits for and nobody will execute.
Done(r, place) == [r EXCEPT !.place = place, !.age = 0, !.waited = 0, !.body = Unasked.body]

ReadReply(i) ==
    /\ InFlight(i) /\ requests[i].place = "coming"
    /\ requests' = [requests EXCEPT ![i] = [Done(@, "told") EXCEPT !.told = requests[i].answer]]
    /\ lease' = [lease EXCEPT ![requests[i].from] = LeaseAfter(requests[i])]
    /\ UNCHANGED <<job, poisoned, cache>>

\* The call fails; nobody reads the answer any more.
Fail(i, why) ==
    /\ InFlight(i)
    /\ requests' = [requests EXCEPT ![i] =
         [(IF @.place = "coming" THEN Done(@, "gone") ELSE @) EXCEPT !.failed = why, !.waited = 0]]
    /\ poisoned' = poisoned \cup {requests[i].from}
    /\ UNCHANGED <<job, cache, lease>>

TimesOut(i) == requests[i].waited = ReadTimeout /\ Fail(i, "timeout")

Cut(i) ==
    /\ Cardinality({j \in Calls : requests[j].failed = "cut"}) < MaxCuts
    /\ Fail(i, "cut")

Reconnect(c) ==
    /\ c \in poisoned
    /\ poisoned' = poisoned \ {c}
    /\ UNCHANGED <<job, requests, cache, lease>>

-----------------------------------------------------------------------------
(* The server *)

\* The answer leaves, on a connection that may be gone.
Reply(i, answer) ==
    requests' = [requests EXCEPT ![i] =
        [(IF @.failed = "no" THEN [@ EXCEPT !.place = "coming", !.age = 0] ELSE Done(@, "gone"))
            EXCEPT !.answer = answer]]

Pops(i) ==
    /\ requests[i].op = "pop" /\ requests[i].place \in {"going", "parked"}
    /\ list > 0
    /\ list' = list - 1
    /\ Reply(i, [yes |-> TRUE, token |-> 0])
    /\ UNCHANGED <<job, poisoned, pushed, lock, issued, lease>>

Parks(i) ==
    /\ requests[i].op = "pop" /\ requests[i].place = "going"
    /\ list = 0
    /\ requests' = [requests EXCEPT ![i].place = "parked", ![i].age = 0]
    /\ UNCHANGED <<job, poisoned, cache, lease>>

WaitOver(i) ==
    /\ requests[i].place = "parked" /\ requests[i].age = requests[i].body.ms
    /\ Reply(i, NoAnswer)
    /\ UNCHANGED <<job, poisoned, cache, lease>>

Push ==
    /\ job = "pop" /\ pushed < MaxElements
    /\ pushed' = pushed + 1 /\ list' = list + 1
    /\ UNCHANGED <<job, poisoned, requests, lock, issued, lease>>

Holder(i) == lock.holder # Nobody /\ lock.holder = requests[i].body.owner

\* The holder refreshes its lease, and nobody's lock is taken with a new token.
Acquires(i) ==
    /\ requests[i].op = "acquire" /\ requests[i].place = "going"
    /\ IF Holder(i)
         THEN /\ lock' = [lock EXCEPT !.left = requests[i].body.ms]
              /\ Reply(i, [yes |-> TRUE, token |-> lock.token])
              /\ UNCHANGED issued
         ELSE IF lock.holder = Nobody
         THEN /\ issued' = issued + 1
              /\ lock' = [holder |-> requests[i].body.owner, token |-> issued + 1,
                          left |-> requests[i].body.ms]
              /\ Reply(i, [yes |-> TRUE, token |-> issued + 1])
         ELSE Reply(i, NoAnswer) /\ UNCHANGED <<lock, issued>>
    /\ UNCHANGED <<job, poisoned, list, pushed, lease>>

Free == [holder |-> Nobody, token |-> lock.token, left |-> 0]

Renews(i) ==
    /\ requests[i].op = "renew" /\ requests[i].place = "going"
    /\ Reply(i, [yes |-> Holder(i), token |-> IF Holder(i) THEN lock.token ELSE 0])
    /\ lock' = IF ~Holder(i) THEN lock
               ELSE IF requests[i].body.ms = 0 THEN Free
               ELSE [lock EXCEPT !.left = requests[i].body.ms]
    /\ UNCHANGED <<job, poisoned, list, pushed, issued, lease>>

Releases(i) ==
    /\ requests[i].op = "release" /\ requests[i].place = "going"
    /\ Reply(i, [yes |-> Holder(i), token |-> 0])
    /\ lock' = IF Holder(i) THEN Free ELSE lock
    /\ UNCHANGED <<job, poisoned, list, pushed, issued, lease>>

\* A request whose connection is gone may be executed late, or never.
Drops(i) ==
    /\ requests[i].failed # "no" /\ requests[i].place \in {"going", "parked"}
    /\ requests' = [requests EXCEPT ![i] = Done(@, "gone")]
    /\ UNCHANGED <<job, poisoned, cache, lease>>

Tick ==
    /\ \/ \E i \in Calls : InFlight(i) \/ requests[i].place = "parked"
       \/ lock.left > 0 \/ \E c \in Clients : lease[c].left > 0
    /\ \A i \in Calls :
        /\ InFlight(i) => /\ requests[i].waited < ReadTimeout
                          /\ requests[i].place \in {"going", "coming"} => requests[i].age < Transit
        /\ requests[i].place = "parked" => requests[i].age < requests[i].body.ms
    /\ requests' = [i \in Calls |->
         [requests[i] EXCEPT !.waited = IF InFlight(i) THEN @ + 1 ELSE @,
                             !.age = IF InFlight(i) \/ requests[i].place = "parked" THEN @ + 1 ELSE @]]
    /\ lock' = IF lock.left <= 1 THEN Free ELSE [lock EXCEPT !.left = @ - 1]
    /\ lease' = [c \in Clients |-> IF lease[c].left <= 1 THEN NoLease
                                   ELSE [lease[c] EXCEPT !.left = @ - 1]]
    /\ UNCHANGED <<job, poisoned, list, pushed, issued>>

Next ==
    \/ \E c \in Clients : \/ \E wait \in Waits : BlockingPop(c, wait)
                          \/ \E op \in Ops["lock"] : AskLock(c, op)
                          \/ Reconnect(c)
    \/ \E i \in Calls : \/ ReadReply(i) \/ TimesOut(i) \/ Cut(i)
                        \/ Pops(i) \/ Parks(i) \/ WaitOver(i)
                        \/ Acquires(i) \/ Renews(i) \/ Releases(i) \/ Drops(i)
    \/ Push
    \/ Tick

Spec == Init /\ [][Next]_vars

-----------------------------------------------------------------------------
(* Properties *)

\* A wait that, with both ways, ends before the read timeout never costs an
\* element: unless its connection is cut, the caller that popped one is given
\* it (cache_blpop: keep `timeout` under this connection's read timeout).
NothingLost ==
    \A i \in Calls :
        LET r == requests[i]
        IN  r.op = "pop" /\ r.failed = "timeout" /\ r.answer.yes => r.wait + 2 * Transit >= ReadTimeout

\* Tokens fence: two owners are never told the same one, and whoever is told
\* one after another owner was told its own is told a higher one, whatever was
\* lost, repeated or late meanwhile (CacheLock.token, lock_op).
TokensFence ==
    \A i, j \in Calls :
        LET r == requests[i]
            s == requests[j]
        IN  /\ r.op = "acquire" /\ r.told.yes => r.told.token >= r.floor
            /\ r.op = "acquire" /\ s.op = "acquire" /\ r.told.yes /\ s.told.yes /\ r.from # s.from
                 => r.told.token # s.told.token

\* The caller gave up waiting for a release it asked for.
GaveUp(c) == \E i \in Calls : /\ requests[i].op = "release" /\ requests[i].failed # "no"
                             /\ requests[i].from = c

\* A lease a caller counts on, from the moment it asked, is the lock's, with its
\* token and for as long at least, so that two callers never both count on one;
\* unless it gave up waiting for a release of its own, which may be executed
\* after it took the lock again (cache_lock_acquire, cache_lock_renew).
LeaseIsHeld ==
    \A c \in Clients :
        \/ lease[c].left = 0
        \/ lock.holder = c /\ lock.token = lease[c].token /\ lock.left >= lease[c].left
        \/ GaveUp(c)

\* The calls that were answered with a token the server gave then.
Got(i) == requests[i].op = "acquire" /\ requests[i].answer.yes

TokenTold(i) == requests[i].op \in {"acquire", "renew"} /\ requests[i].told.yes

Promise == INSTANCE FencingLock WITH
    holder <- lock.holder,
    token <- issued,
    granted <- {<<requests[i].from, requests[i].answer.token>> : i \in {j \in Calls : Got(j)}},
    told <- {<<requests[i].from, requests[i].told.token>> : i \in {j \in Calls : TokenTold(j)}},
    counting <- {c \in Clients : lease[c].left > 0 /\ ~GaveUp(c)}

\* With leases that each caller counts from the moment it asked, and replies and
\* requests that come late or never, the lock is what FencingLock promises
\* (lock_op, CacheLock.token).
ImplementsFencing == Promise!Spec
=============================================================================
