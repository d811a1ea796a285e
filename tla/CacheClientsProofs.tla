------------------------- MODULE CacheClientsProofs --------------------------
(****************************************************************************)
(* Safety of CacheClients, for any number of clients and calls, any read    *)
(* timeout, waits, lease and bound on the transit.                          *)
(****************************************************************************)
EXTENDS CacheClients, FiniteSetTheorems, WellFoundedInduction, TLAPS

-----------------------------------------------------------------------------
(* The inductive invariant.                                                 *)

\* While a request travels its body is what the call asked for.
BodyAsAsked ==
    \A i \in Calls : requests[i].place \in Travelling =>
        /\ requests[i].from \in Clients
        /\ requests[i].op \in Ops[job]
        /\ requests[i].op = "pop" => requests[i].body.ms = requests[i].wait
        /\ requests[i].op # "pop" =>
              requests[i].body = LockOp(requests[i].from, requests[i].op)
        /\ requests[i].place = "parked" => requests[i].op = "pop"

\* An answer is given once and told as it is given.
ToldAsAnswered ==
    \A i \in Calls :
        /\ requests[i].place = "unasked" => requests[i].op = "none"
        /\ requests[i].told =
              IF requests[i].place = "told" THEN requests[i].answer ELSE NoAnswer

\* How long a caller has waited, by where its request is.
WaitedAtMost ==
    \A i \in Calls : InFlight(i) =>
        /\ requests[i].place = "going" => requests[i].waited <= requests[i].age /\ requests[i].age <= Transit
        /\ requests[i].place = "parked" =>
              /\ requests[i].waited <= Transit + requests[i].age
              /\ requests[i].age <= requests[i].wait
        /\ requests[i].place = "coming" =>
              /\ requests[i].waited <= Transit + requests[i].wait + requests[i].age
              /\ requests[i].age <= Transit

\* So a pop times out only where the wait with both ways reaches the timeout.
TimesOutLate ==
    \A i \in Calls : requests[i].op = "pop" /\ requests[i].failed = "timeout" =>
        requests[i].wait + 2 * Transit >= ReadTimeout

\* The server has given no more tokens than it served requests.
Served == {i \in Calls : requests[i].place \notin {"unasked", "going"}}
TokensCounted == issued <= Cardinality(Served)

\* The lock has the last token there is, and nobody saw a later one.
TokensBelow ==
    /\ lock.token = issued
    /\ \A i \in Calls :
          /\ requests[i].answer.token <= issued
          /\ requests[i].floor <= issued
          /\ requests[i].op = "acquire" /\ requests[i].answer.yes =>
                requests[i].floor <= requests[i].answer.token

\* A token was given to one owner, and the lock's to the one that has it.
TokensFenced ==
    /\ \A i, j \in Calls : Got(i) /\ Got(j) /\ requests[i].from # requests[j].from =>
          requests[i].answer.token # requests[j].answer.token
    /\ \A i \in Calls : Got(i) /\ requests[i].answer.token = issued =>
          lock.holder \in {Nobody, requests[i].from}

HasLock(c, token, left) == lock.holder = c /\ lock.token = token /\ lock.left >= left

\* A lease that is on its way to its caller is already the lock's.
ComingIsHeld ==
    \A i \in Calls :
        InFlight(i) /\ requests[i].place = "coming" /\ requests[i].answer.yes
            /\ requests[i].op \in {"acquire", "renew"} =>
          \/ requests[i].waited >= Ttl
          \/ HasLock(requests[i].from, requests[i].answer.token, Ttl - requests[i].waited)
          \/ GaveUp(requests[i].from)

\* While a release is on its way its caller counts on no lease.
ReleasingHasNone ==
    \A i \in Calls : InFlight(i) /\ requests[i].op = "release" =>
        lease[requests[i].from].left = 0

IInv ==
    /\ TypeOK /\ BodyAsAsked /\ ToldAsAnswered
    /\ WaitedAtMost /\ TimesOutLate
    /\ TokensCounted /\ TokensBelow /\ TokensFenced
    /\ ComingIsHeld /\ ReleasingHasNone /\ LeaseIsHeld
-----------------------------------------------------------------------------
(* What an action does to the request it is about.                          *)

Bodies == [owner : Clients \cup {Nobody}, ms : Nat]

Request == [from : Clients \cup {Nobody}, op : Ops[job] \cup {"none"}, wait : Waits,
            body : Bodies, place : Travelling \cup {"unasked", "told", "gone"},
            age : Nat, waited : 0 .. ReadTimeout,
            failed : {"no", "timeout", "cut"}, floor : Tokens,
            answer : Answers, told : Answers]

OneEach == \A c \in Clients : \A i, j \in Calls :
    InFlight(i) /\ InFlight(j) /\ requests[i].from = c /\ requests[j].from = c => i = j

LEMMA RequestsTyped == TypeOK => requests \in [Calls -> Request] /\ OneEach
BY DEF TypeOK, Request, Bodies, OneEach

LEMMA OpsOfJobs ==
    /\ Ops["pop"] = {"pop"} /\ Ops["lock"] = {"acquire", "renew", "release"}
    /\ job \in DOMAIN Ops => job \in {"pop", "lock"}
BY DEF Ops

LEMMA Typed ==
    /\ Unasked.body \in Bodies /\ NoAnswer \in Answers
    /\ \A c \in Clients : \A op : LockOp(c, op) \in Bodies
    /\ \A c \in Clients, wait \in Waits : PopBody(c, wait) \in Bodies
    /\ 0 \in 0 .. ReadTimeout /\ 0 \in Tokens
BY CacheClientsAssumption DEF Unasked, Bodies, NoAnswer, Answers, Tokens, LockOp, PopBody

\* Only the place, the clocks, the body, the failure and the answers change.
SameCall(r, s) ==
    r.from = s.from /\ r.op = s.op /\ r.wait = s.wait /\ r.floor = s.floor

OthersStay(i) == \A j \in Calls \ {i} : requests'[j] = requests[j]

LEMMA ReplyEffect ==
    ASSUME requests \in [Calls -> Request], NEW i \in Calls, NEW answer \in Answers,
           Reply(i, answer), job' = job
    PROVE  /\ requests' \in [Calls -> Request'] /\ OthersStay(i)
           /\ SameCall(requests'[i], requests[i])
           /\ requests'[i].failed = requests[i].failed
           /\ requests'[i].told = requests[i].told
           /\ requests'[i].answer = answer
           /\ requests[i].failed = "no" =>
                 requests'[i].place = "coming" /\ requests'[i].age = 0
                 /\ requests'[i].waited = requests[i].waited
                 /\ requests'[i].body = requests[i].body
           /\ requests[i].failed # "no" => requests'[i].place = "gone"
<1> DEFINE s == [(IF requests[i].failed = "no" THEN [requests[i] EXCEPT !.place = "coming", !.age = 0]
                                             ELSE Done(requests[i], "gone")) EXCEPT !.answer = answer]
<1>1. requests' = [requests EXCEPT ![i] = s]
  BY DEF Reply
<1>2. requests[i] \in Request
  OBVIOUS
<1>3. /\ s \in Request /\ SameCall(s, requests[i])
      /\ s.failed = requests[i].failed /\ s.told = requests[i].told /\ s.answer = answer
      /\ requests[i].failed = "no" =>
            s.place = "coming" /\ s.age = 0 /\ s.waited = requests[i].waited
            /\ s.body = requests[i].body
      /\ requests[i].failed # "no" => s.place = "gone"
  BY <1>2, Typed DEF Request, Done, SameCall, Travelling
<1>4. Request' = Request
  BY DEF Request
<1> HIDE DEF s
<1> QED
  BY <1>1, <1>3, <1>4 DEF OthersStay

LEMMA FailEffect ==
    ASSUME requests \in [Calls -> Request], NEW i \in Calls, NEW why \in {"timeout", "cut"},
           Fail(i, why), job' = job
    PROVE  /\ requests' \in [Calls -> Request'] /\ OthersStay(i)
           /\ SameCall(requests'[i], requests[i])
           /\ requests'[i].failed = why
           /\ requests'[i].told = requests[i].told
           /\ requests'[i].answer = requests[i].answer
           /\ requests[i].place = "coming" => requests'[i].place = "gone"
           /\ requests[i].place # "coming" =>
                 requests'[i].place = requests[i].place /\ requests'[i].body = requests[i].body
<1> DEFINE s == [(IF requests[i].place = "coming" THEN Done(requests[i], "gone") ELSE requests[i])
                    EXCEPT !.failed = why, !.waited = 0]
<1>1. requests' = [requests EXCEPT ![i] = s]
  BY DEF Fail
<1>2. requests[i] \in Request
  OBVIOUS
<1>3. /\ s \in Request /\ SameCall(s, requests[i])
      /\ s.failed = why /\ s.told = requests[i].told /\ s.answer = requests[i].answer
      /\ requests[i].place = "coming" => s.place = "gone"
      /\ requests[i].place # "coming" =>
            s.place = requests[i].place /\ s.body = requests[i].body
  BY <1>2, Typed DEF Request, Done, SameCall, Travelling
<1>4. Request' = Request
  BY DEF Request
<1> HIDE DEF s
<1> QED
  BY <1>1, <1>3, <1>4 DEF OthersStay

LEMMA ReadEffect ==
    ASSUME requests \in [Calls -> Request], NEW i \in Calls, ReadReply(i)
    PROVE  /\ requests' \in [Calls -> Request'] /\ OthersStay(i)
           /\ SameCall(requests'[i], requests[i])
           /\ requests'[i].failed = requests[i].failed
           /\ requests'[i].told = requests[i].answer
           /\ requests'[i].answer = requests[i].answer
           /\ requests'[i].place = "told"
<1> DEFINE s == [Done(requests[i], "told") EXCEPT !.told = requests[i].answer]
<1>1. requests' = [requests EXCEPT ![i] = s] /\ job' = job
  BY DEF ReadReply
<1>2. requests[i] \in Request
  OBVIOUS
<1>3. /\ s \in Request /\ SameCall(s, requests[i]) /\ s.place = "told"
      /\ s.failed = requests[i].failed /\ s.told = requests[i].answer
      /\ s.answer = requests[i].answer
  BY <1>2, Typed DEF Request, Done, SameCall, Travelling
<1>4. Request' = Request
  BY <1>1 DEF Request
<1> HIDE DEF s
<1> QED
  BY <1>1, <1>3, <1>4 DEF OthersStay

LEMMA DropEffect ==
    ASSUME requests \in [Calls -> Request], NEW i \in Calls, Drops(i)
    PROVE  /\ requests' \in [Calls -> Request'] /\ OthersStay(i)
           /\ SameCall(requests'[i], requests[i])
           /\ requests'[i].failed = requests[i].failed
           /\ requests'[i].told = requests[i].told
           /\ requests'[i].answer = requests[i].answer
           /\ requests'[i].place = "gone"
<1> DEFINE s == Done(requests[i], "gone")
<1>1. requests' = [requests EXCEPT ![i] = s] /\ job' = job
  BY DEF Drops
<1>2. requests[i] \in Request
  OBVIOUS
<1>3. /\ s \in Request /\ SameCall(s, requests[i]) /\ s.place = "gone"
      /\ s.failed = requests[i].failed /\ s.told = requests[i].told
      /\ s.answer = requests[i].answer
  BY <1>2, Typed DEF Request, Done, SameCall, Travelling
<1>4. Request' = Request
  BY <1>1 DEF Request
<1> HIDE DEF s
<1> QED
  BY <1>1, <1>3, <1>4 DEF OthersStay

LEMMA ParkEffect ==
    ASSUME requests \in [Calls -> Request], NEW i \in Calls, Parks(i)
    PROVE  /\ requests' \in [Calls -> Request'] /\ OthersStay(i)
           /\ SameCall(requests'[i], requests[i])
           /\ requests'[i].failed = requests[i].failed
           /\ requests'[i].told = requests[i].told
           /\ requests'[i].answer = requests[i].answer
           /\ requests'[i].waited = requests[i].waited
           /\ requests'[i].body = requests[i].body
           /\ requests'[i].place = "parked" /\ requests'[i].age = 0
<1> DEFINE s == [requests[i] EXCEPT !.place = "parked", !.age = 0]
<1>1. requests[i] \in Request
  OBVIOUS
<1>2. requests' = [requests EXCEPT ![i] = s] /\ job' = job
  BY <1>1 DEF Parks, Request
<1>3. /\ s \in Request /\ SameCall(s, requests[i]) /\ s.place = "parked" /\ s.age = 0
      /\ s.failed = requests[i].failed /\ s.told = requests[i].told
      /\ s.answer = requests[i].answer /\ s.waited = requests[i].waited
      /\ s.body = requests[i].body
  BY <1>1, Typed DEF Request, SameCall, Travelling
<1>4. Request' = Request
  BY <1>2 DEF Request
<1> HIDE DEF s
<1> QED
  BY <1>2, <1>3, <1>4 DEF OthersStay

LEMMA TickEffect ==
    ASSUME requests \in [Calls -> Request], Tick
    PROVE  /\ requests' \in [Calls -> Request']
           /\ \A i \in Calls :
                 /\ SameCall(requests'[i], requests[i])
                 /\ requests'[i].place = requests[i].place
                 /\ requests'[i].failed = requests[i].failed
                 /\ requests'[i].body = requests[i].body
                 /\ requests'[i].told = requests[i].told
                 /\ requests'[i].answer = requests[i].answer
                 /\ InFlight(i) =>
                       requests'[i].waited = requests[i].waited + 1
                       /\ requests'[i].age = requests[i].age + 1
<1>1. /\ job' = job
      /\ requests' = [i \in Calls |->
            [requests[i] EXCEPT !.waited = IF InFlight(i) THEN @ + 1 ELSE @,
                                !.age = IF InFlight(i) \/ requests[i].place = "parked" THEN @ + 1 ELSE @]]
      /\ \A i \in Calls : InFlight(i) => requests[i].waited < ReadTimeout
  BY DEF Tick
<1>2. ASSUME NEW i \in Calls
      PROVE  /\ requests'[i] \in Request
             /\ SameCall(requests'[i], requests[i])
             /\ requests'[i].place = requests[i].place
             /\ requests'[i].failed = requests[i].failed
             /\ requests'[i].body = requests[i].body
             /\ requests'[i].told = requests[i].told
             /\ requests'[i].answer = requests[i].answer
             /\ InFlight(i) =>
                   requests'[i].waited = requests[i].waited + 1
                   /\ requests'[i].age = requests[i].age + 1
  <2>1. /\ requests[i] \in Request
        /\ requests'[i] = [requests[i] EXCEPT !.waited = IF InFlight(i) THEN @ + 1 ELSE @,
                                 !.age = IF InFlight(i) \/ requests[i].place = "parked" THEN @ + 1 ELSE @]
        /\ InFlight(i) => requests[i].waited < ReadTimeout
    BY <1>1
  <2>2. CASE InFlight(i)
    <3>1. requests'[i] = [requests[i] EXCEPT !.waited = @ + 1, !.age = @ + 1]
      BY <2>1, <2>2
    <3>2. requests[i].waited + 1 \in 0 .. ReadTimeout /\ requests[i].age + 1 \in Nat
      BY <2>1, <2>2, CacheClientsAssumption DEF Request
    <3> QED
      BY <2>1, <3>1, <3>2 DEF Request, SameCall
  <2>3. CASE ~InFlight(i)
    <3>1. \/ requests'[i] = [requests[i] EXCEPT !.waited = @, !.age = @]
          \/ requests'[i] = [requests[i] EXCEPT !.waited = @, !.age = @ + 1]
      BY <2>1, <2>3
    <3>2. requests[i].age + 1 \in Nat
      BY <2>1 DEF Request
    <3> QED
      BY <2>1, <2>3, <3>1, <3>2 DEF Request, SameCall
  <2> QED
    BY <2>2, <2>3
<1>3. Request' = Request
  BY <1>1 DEF Request
<1> QED
  BY <1>1, <1>2, <1>3

\* A set of naturals that is not empty has a least element.
LEMMA Least ==
    ASSUME NEW S, S \subseteq Nat, S # {}
    PROVE  \E n \in S : \A m \in S : n <= m
<1> DEFINE R == {ss \in Nat \X Nat : ss[1] < ss[2]}
<1>1. IsWellFoundedOn(R, Nat)
  BY NatLessThanWellFounded DEF OpToRel
<1>2. \E n \in S : \A m \in S : ~(<<m, n>> \in R)
  <2> HIDE DEF R
  <2> QED
    BY <1>1, WFMin
<1>3. PICK n \in S : \A m \in S : ~(<<m, n>> \in R)
  BY <1>2
<1>4. \A m \in S : <<m, n>> \in R <=> m < n
  BY DEF R
<1>5. ASSUME NEW m \in S PROVE n <= m
  <2>1. ~(m < n)
    BY <1>3, <1>4
  <2> QED
    BY <2>1
<1> QED
  BY <1>5

\* HighestTold chooses from something: the least of the bounds is told.
LEMMA HighestIsTold ==
    ASSUME requests \in [Calls -> Request]
    PROVE  /\ HighestTold \in Tokens
           /\ HighestTold = 0 \/ \E i \in Calls : requests[i].told.token = HighestTold
<1> DEFINE T(i) == requests[i].told.token
           Bounds == {t \in Nat : \A i \in Calls : T(i) <= t}
           Told(t) == (t = 0 \/ \E i \in Calls : T(i) = t) /\ \A i \in Calls : T(i) <= t
<1>1. \A i \in Calls : T(i) \in 0 .. MaxCalls
  BY DEF Request, Answers, Tokens
<1>2. MaxCalls \in Nat
  BY CacheClientsAssumption
<1> HIDE DEF T
<1>3. MaxCalls \in Bounds
  BY <1>1, <1>2
<1>4. PICK t \in Bounds : \A m \in Bounds : t <= m
  <2>1. Bounds \subseteq Nat /\ Bounds # {}
    BY <1>3
  <2> HIDE DEF Bounds
  <2> QED
    BY <2>1, Least
<1>5. t \in 0 .. MaxCalls
  BY <1>2, <1>3, <1>4
<1>6. ASSUME t # 0, \A i \in Calls : T(i) # t PROVE FALSE
  <2>1. t - 1 \in Nat /\ \A i \in Calls : T(i) <= t - 1
    BY <1>1, <1>4, <1>5, <1>6
  <2>2. t <= t - 1
    BY <1>4, <2>1
  <2> QED
    BY <1>5, <2>2
<1>7. \E x \in Tokens : Told(x)
  BY <1>4, <1>5, <1>6 DEF Tokens
<1>8. \E x \in Tokens :
          /\ x = 0 \/ \E i \in Calls : requests[i].told.token = x
          /\ \A i \in Calls : requests[i].told.token <= x
  BY <1>7 DEF T
<1> QED
  BY <1>8, Zenon DEF HighestTold

LEMMA SendEffect ==
    ASSUME requests \in [Calls -> Request], job' = job,
           NEW c \in Clients, NEW op \in Ops[job], NEW wait \in Waits, NEW body \in Bodies,
           Send(c, op, wait, body)
    PROVE  \E i \in Calls :
              /\ requests[i].place = "unasked"
              /\ requests' \in [Calls -> Request'] /\ OthersStay(i)
              /\ requests'[i].from = c /\ requests'[i].op = op
              /\ requests'[i].wait = wait /\ requests'[i].body = body
              /\ requests'[i].place = "going" /\ requests'[i].failed = "no"
              /\ requests'[i].age = 0 /\ requests'[i].waited = 0
              /\ requests'[i].floor = HighestTold
              /\ requests'[i].answer = NoAnswer /\ requests'[i].told = NoAnswer
<1> DEFINE s == [Unasked EXCEPT !.from = c, !.op = op, !.wait = wait, !.body = body, !.place = "going",
                                !.floor = HighestTold]
<1>1. PICK i \in Calls : requests[i].place = "unasked" /\ requests' = [requests EXCEPT ![i] = s]
  BY DEF Send
<1>2. HighestTold \in Tokens
  BY HighestIsTold
<1>3. /\ Unasked \in Request /\ Unasked.failed = "no"
      /\ Unasked.age = 0 /\ Unasked.waited = 0
      /\ Unasked.answer = NoAnswer /\ Unasked.told = NoAnswer
  BY Typed, CacheClientsAssumption DEF Unasked, Request, Travelling, Bodies
<1>4. /\ s \in Request /\ s.from = c /\ s.op = op /\ s.wait = wait /\ s.body = body
      /\ s.place = "going" /\ s.failed = "no" /\ s.age = 0 /\ s.waited = 0
      /\ s.floor = HighestTold /\ s.answer = NoAnswer /\ s.told = NoAnswer
  BY <1>2, <1>3 DEF Request, Travelling
<1>5. Request' = Request
  BY DEF Request
<1> HIDE DEF s
<1>6. requests' \in [Calls -> Request'] /\ OthersStay(i) /\ requests'[i] = s
  BY <1>1, <1>4, <1>5 DEF OthersStay
<1> QED
  BY <1>1, <1>4, <1>6

-----------------------------------------------------------------------------
(* Every step, by what it does to the requests.                             *)

Asks(c) == \/ \E wait \in Waits : BlockingPop(c, wait)
           \/ \E op \in Ops["lock"] : AskLock(c, op)

Gives(i) == Pops(i) \/ WaitOver(i) \/ Acquires(i) \/ Renews(i) \/ Releases(i)

Fails(i) == TimesOut(i) \/ Cut(i)

LEMMA StepKinds ==
    ASSUME [Next]_vars
    PROVE  \/ \E c \in Clients : Asks(c)
           \/ \E i \in Calls : ReadReply(i) \/ Fails(i) \/ Gives(i) \/ Parks(i) \/ Drops(i)
           \/ Tick
           \/ /\ UNCHANGED <<job, requests, lock, issued, lease>>
              /\ Push \/ (\E c \in Clients : Reconnect(c)) \/ UNCHANGED vars
BY DEF Next, vars, cache, Asks, Gives, Fails, Push, Reconnect

\* A call that is asked, in either job.
LEMMA AskEffect ==
    ASSUME TypeOK, NEW c \in Clients, Asks(c)
    PROVE  /\ UNCHANGED <<job, poisoned, list, pushed, lock, issued>> /\ ~Waiting(c)
           /\ \E i \in Calls :
              /\ requests[i].place = "unasked"
              /\ requests' \in [Calls -> Request'] /\ OthersStay(i)
              /\ requests'[i].from = c /\ requests'[i].op \in Ops[job]
              /\ requests'[i].op = "pop" => requests'[i].body.ms = requests'[i].wait
              /\ requests'[i].op # "pop" => requests'[i].body = LockOp(c, requests'[i].op)
              /\ requests'[i].place = "going" /\ requests'[i].failed = "no"
              /\ requests'[i].age = 0 /\ requests'[i].waited = 0
              /\ requests'[i].floor = HighestTold
              /\ requests'[i].answer = NoAnswer /\ requests'[i].told = NoAnswer
              /\ lease' = IF requests'[i].op = "release" THEN [lease EXCEPT ![c] = NoLease]
                                                        ELSE lease
<1>1. requests \in [Calls -> Request] /\ job \in {"pop", "lock"}
  BY RequestsTyped, OpsOfJobs DEF TypeOK
<1>2. CASE \E wait \in Waits : BlockingPop(c, wait)
  <2>1. PICK wait \in Waits : BlockingPop(c, wait)
    BY <1>2
  <2>2. /\ job = "pop" /\ "pop" \in Ops[job] /\ ~Waiting(c)
        /\ Send(c, "pop", wait, PopBody(c, wait))
        /\ UNCHANGED <<job, poisoned, list, pushed, lock, issued, lease>>
    BY <2>1, OpsOfJobs DEF BlockingPop, cache, Send
  <2>3. PopBody(c, wait) \in Bodies /\ PopBody(c, wait).ms = wait
    BY Typed DEF PopBody
  <2>4. PICK i \in Calls :
              /\ requests[i].place = "unasked"
              /\ requests' \in [Calls -> Request'] /\ OthersStay(i)
              /\ requests'[i].from = c /\ requests'[i].op = "pop"
              /\ requests'[i].wait = wait /\ requests'[i].body = PopBody(c, wait)
              /\ requests'[i].place = "going" /\ requests'[i].failed = "no"
              /\ requests'[i].age = 0 /\ requests'[i].waited = 0
              /\ requests'[i].floor = HighestTold
              /\ requests'[i].answer = NoAnswer /\ requests'[i].told = NoAnswer
    BY <1>1, <2>2, <2>3, SendEffect
  <2> QED
    BY <2>2, <2>3, <2>4
<1>3. CASE \E op \in Ops["lock"] : AskLock(c, op)
  <2>1. PICK op \in Ops["lock"] : AskLock(c, op)
    BY <1>3
  <2>2. /\ job = "lock" /\ op \in Ops[job] /\ op # "pop" /\ ~Waiting(c)
        /\ Send(c, op, 0, LockOp(c, op))
        /\ lease' = IF op = "release" THEN [lease EXCEPT ![c] = NoLease] ELSE lease
        /\ UNCHANGED <<job, poisoned, list, pushed, lock, issued>>
    BY <2>1, OpsOfJobs DEF AskLock, cache, Send
  <2>3. LockOp(c, op) \in Bodies /\ 0 \in Waits
    BY Typed, CacheClientsAssumption
  <2>4. PICK i \in Calls :
              /\ requests[i].place = "unasked"
              /\ requests' \in [Calls -> Request'] /\ OthersStay(i)
              /\ requests'[i].from = c /\ requests'[i].op = op
              /\ requests'[i].wait = 0 /\ requests'[i].body = LockOp(c, op)
              /\ requests'[i].place = "going" /\ requests'[i].failed = "no"
              /\ requests'[i].age = 0 /\ requests'[i].waited = 0
              /\ requests'[i].floor = HighestTold
              /\ requests'[i].answer = NoAnswer /\ requests'[i].told = NoAnswer
    BY <1>1, <2>2, <2>3, SendEffect
  <2> QED
    BY <2>2, <2>4
<1> QED
  BY <1>2, <1>3 DEF Asks

-----------------------------------------------------------------------------
(* What the server does to the lock.                                        *)

Known == TypeOK /\ BodyAsAsked /\ ToldAsAnswered

\* There is a token left for every request that was not served.
LEMMA TokenLeft ==
    ASSUME TypeOK, TokensCounted, NEW i \in Calls, requests[i].place = "going"
    PROVE  issued + 1 \in Tokens
<1>1. IsFiniteSet(Calls) /\ Cardinality(Calls) = MaxCalls /\ MaxCalls \in Nat
  BY FS_Interval, CacheClientsAssumption DEF Calls
<1>2. /\ IsFiniteSet(Served \cup {i})
      /\ Cardinality(Served \cup {i}) <= MaxCalls
  BY <1>1, FS_Subset DEF Served
<1>3. IsFiniteSet(Served) /\ i \notin Served
  BY <1>1, FS_Subset DEF Served
<1>4. Cardinality(Served \cup {i}) = Cardinality(Served) + 1 /\ Cardinality(Served) \in Nat
  BY <1>3, FS_AddElement, FS_CardinalityType
<1> QED
  BY <1>1, <1>2, <1>4 DEF TypeOK, Tokens, TokensCounted

\* The body names the caller, and asks for the lease unless it releases.
LEMMA OwnerIsCaller ==
    ASSUME Known, NEW i \in Calls, requests[i].place = "going",
           requests[i].op \in {"acquire", "renew", "release"}
    PROVE  /\ requests[i].from \in Clients /\ requests[i].from # Nobody
           /\ requests[i].body.owner = requests[i].from
           /\ requests[i].op # "release" => requests[i].body.ms = Ttl
           /\ Ttl \in Nat \ {0}
           /\ Holder(i) <=> lock.holder = requests[i].from
<1>1. /\ requests[i].from \in Clients
      /\ requests[i].body = LockOp(requests[i].from, requests[i].op)
  BY DEF Known, BodyAsAsked, Travelling
<1>2. Ttl \in Nat \ {0} /\ requests[i].from # Nobody
  BY <1>1, CacheClientsAssumption
<1>3. /\ requests[i].body.owner = requests[i].from
      /\ requests[i].op # "release" => requests[i].body.ms = Ttl
  BY <1>1 DEF LockOp
<1> QED
  BY <1>1, <1>2, <1>3 DEF Holder

\* The lock after an acquire, in the three cases of lock_op's server.
LEMMA AcquireEffect ==
    ASSUME Known, TokensCounted, NEW i \in Calls, Acquires(i)
    PROVE  \E answer \in Answers :
              /\ Reply(i, answer)
              /\ \/ /\ lock.holder = requests[i].from /\ issued' = issued
                    /\ lock' = [lock EXCEPT !.left = Ttl]
                    /\ answer = [yes |-> TRUE, token |-> lock.token]
                 \/ /\ lock.holder = Nobody /\ issued' = issued + 1 /\ issued' \in Tokens
                    /\ lock' = [holder |-> requests[i].from, token |-> issued', left |-> Ttl]
                    /\ answer = [yes |-> TRUE, token |-> issued']
                 \/ /\ lock.holder \notin {Nobody, requests[i].from} /\ answer = NoAnswer
                    /\ UNCHANGED <<lock, issued>>
<1>1. requests[i].op = "acquire" /\ requests[i].place = "going"
  BY DEF Acquires
<1>2. /\ requests[i].from # Nobody /\ requests[i].body.owner = requests[i].from
      /\ requests[i].body.ms = Ttl
      /\ Holder(i) <=> lock.holder = requests[i].from
  BY <1>1, OwnerIsCaller
<1>3. issued + 1 \in Tokens /\ lock.token \in Tokens
  BY <1>1, TokenLeft DEF Known, TypeOK
<1>4. CASE Holder(i)
  <2>1. [yes |-> TRUE, token |-> lock.token] \in Answers
    BY <1>3 DEF Answers
  <2>2. /\ lock' = [lock EXCEPT !.left = Ttl] /\ issued' = issued
        /\ Reply(i, [yes |-> TRUE, token |-> lock.token])
    BY <1>2, <1>4 DEF Acquires
  <2> QED
    BY <1>2, <1>4, <2>1, <2>2
<1>5. CASE ~Holder(i) /\ lock.holder = Nobody
  <2>1. [yes |-> TRUE, token |-> issued + 1] \in Answers
    BY <1>3 DEF Answers
  <2>2. /\ issued' = issued + 1
        /\ lock' = [holder |-> requests[i].from, token |-> issued + 1, left |-> Ttl]
        /\ Reply(i, [yes |-> TRUE, token |-> issued + 1])
    BY <1>2, <1>5 DEF Acquires
  <2> QED
    BY <1>3, <1>5, <2>1, <2>2
<1>6. CASE ~Holder(i) /\ lock.holder # Nobody
  BY <1>2, <1>6, Typed DEF Acquires
<1> QED
  BY <1>4, <1>5, <1>6

LEMMA RenewEffect ==
    ASSUME Known, NEW i \in Calls, Renews(i)
    PROVE  \E answer \in Answers :
              /\ Reply(i, answer) /\ issued' = issued
              /\ \/ /\ lock.holder = requests[i].from
                    /\ lock' = [lock EXCEPT !.left = Ttl]
                    /\ answer = [yes |-> TRUE, token |-> lock.token]
                 \/ /\ lock.holder # requests[i].from /\ answer = NoAnswer
                    /\ lock' = lock
<1>1. requests[i].op = "renew" /\ requests[i].place = "going"
  BY DEF Renews
<1>2. /\ requests[i].body.ms = Ttl /\ Ttl # 0
      /\ Holder(i) <=> lock.holder = requests[i].from
  BY <1>1, OwnerIsCaller
<1>3. lock.token \in Tokens
  BY DEF Known, TypeOK
<1>4. CASE Holder(i)
  <2>1. [yes |-> TRUE, token |-> lock.token] \in Answers
    BY <1>3 DEF Answers
  <2>2. /\ lock' = [lock EXCEPT !.left = Ttl] /\ issued' = issued
        /\ Reply(i, [yes |-> TRUE, token |-> lock.token])
    BY <1>2, <1>4 DEF Renews
  <2> QED
    BY <1>2, <1>4, <2>1, <2>2
<1>5. CASE ~Holder(i)
  <2>1. Holder(i) = FALSE
    BY <1>5 DEF Holder
  <2>2. Reply(i, [yes |-> FALSE, token |-> IF FALSE THEN lock.token ELSE 0])
    BY <2>1 DEF Renews
  <2>3. lock' = lock /\ issued' = issued /\ Reply(i, NoAnswer)
    BY <1>5, <2>2 DEF Renews, NoAnswer
  <2> QED
    BY <1>2, <1>5, <2>3, Typed
<1> QED
  BY <1>4, <1>5

LEMMA ReleaseEffect ==
    ASSUME Known, NEW i \in Calls, Releases(i)
    PROVE  \E answer \in Answers :
              /\ Reply(i, answer) /\ issued' = issued /\ answer.token = 0
              /\ lock' = IF lock.holder = requests[i].from THEN Free ELSE lock
<1>1. requests[i].op = "release" /\ requests[i].place = "going"
  BY DEF Releases
<1>2. Holder(i) <=> lock.holder = requests[i].from
  BY <1>1, OwnerIsCaller
<1>3. [yes |-> Holder(i), token |-> 0] \in Answers
  BY Typed DEF Answers, Holder
<1> QED
  BY <1>2, <1>3 DEF Releases

LockTyped ==
    /\ lock \in [holder : Clients \cup {Nobody}, token : Tokens, left : 0 .. Ttl]
    /\ lock.holder = Nobody <=> lock.left = 0
    /\ issued \in Tokens /\ lock.token <= issued

\* Whatever the server answers, it answers once and the lock keeps its shape.
LEMMA GiveEffect ==
    ASSUME Known, TokensCounted, NEW i \in Calls, Gives(i)
    PROVE  /\ UNCHANGED <<job, poisoned, lease>>
           /\ requests[i].place \in {"going", "parked"}
           /\ \E answer \in Answers : Reply(i, answer)
           /\ LockTyped'
           /\ pushed' = pushed /\ list' \in 0 .. pushed
<1> DEFINE Conclusion == /\ UNCHANGED <<job, poisoned, lease>>
                         /\ requests[i].place \in {"going", "parked"}
                         /\ \E answer \in Answers : Reply(i, answer)
                         /\ LockTyped'
                         /\ pushed' = pushed /\ list' \in 0 .. pushed
<1>1. /\ LockTyped /\ pushed \in Nat /\ list \in 0 .. pushed
      /\ Ttl \in Nat \ {0} /\ NoAnswer \in Answers
      /\ [yes |-> TRUE, token |-> 0] \in Answers
  BY CacheClientsAssumption, Typed DEF Known, TypeOK, LockTyped, Answers, Tokens
<1>2. CASE Pops(i)
  <2>1. /\ UNCHANGED <<job, poisoned, lease, lock, issued, pushed>>
        /\ requests[i].place \in {"going", "parked"}
        /\ Reply(i, [yes |-> TRUE, token |-> 0])
        /\ list > 0 /\ list' = list - 1
    BY <1>2 DEF Pops
  <2> QED
    BY <1>1, <2>1 DEF LockTyped
<1>3. CASE WaitOver(i)
  <2>1. /\ UNCHANGED <<job, poisoned, lease, lock, issued, pushed, list>>
        /\ requests[i].place \in {"going", "parked"}
        /\ Reply(i, NoAnswer)
    BY <1>3 DEF WaitOver, cache
  <2> QED
    BY <1>1, <2>1 DEF LockTyped
<1>4. ASSUME Acquires(i) \/ Renews(i) \/ Releases(i)
      PROVE  /\ UNCHANGED <<job, poisoned, lease, pushed, list>>
             /\ requests[i].place = "going" /\ requests[i].from \in Clients /\ requests[i].from # Nobody
  BY <1>4, OwnerIsCaller DEF Acquires, Renews, Releases
<1>5. CASE Acquires(i)
  <2>1. PICK answer \in Answers :
              /\ Reply(i, answer)
              /\ \/ /\ lock.holder = requests[i].from /\ issued' = issued
                    /\ lock' = [lock EXCEPT !.left = Ttl]
                 \/ /\ lock.holder = Nobody /\ issued' = issued + 1 /\ issued' \in Tokens
                    /\ lock' = [holder |-> requests[i].from, token |-> issued', left |-> Ttl]
                 \/ UNCHANGED <<lock, issued>>
    BY <1>5, AcquireEffect
  <2>2. LockTyped'
    BY <1>1, <1>4, <1>5, <2>1 DEF LockTyped, Tokens
  <2> QED
    BY <1>1, <1>4, <1>5, <2>1, <2>2
<1>6. CASE Renews(i)
  <2>1. PICK answer \in Answers :
              /\ Reply(i, answer) /\ issued' = issued
              /\ \/ lock.holder = requests[i].from /\ lock' = [lock EXCEPT !.left = Ttl]
                 \/ lock' = lock
    BY <1>6, RenewEffect
  <2>2. LockTyped'
    BY <1>1, <1>4, <1>6, <2>1 DEF LockTyped, Tokens
  <2> QED
    BY <1>1, <1>4, <1>6, <2>1, <2>2
<1>7. CASE Releases(i)
  <2>1. PICK answer \in Answers :
              /\ Reply(i, answer) /\ issued' = issued
              /\ lock' = IF lock.holder = requests[i].from THEN Free ELSE lock
    BY <1>7, ReleaseEffect
  <2>2. LockTyped'
    BY <1>1, <1>4, <1>7, <2>1 DEF LockTyped, Tokens, Free
  <2> QED
    BY <1>1, <1>4, <1>7, <2>1, <2>2
<1> QED
  BY <1>2, <1>3, <1>5, <1>6, <1>7 DEF Gives

-----------------------------------------------------------------------------
(* Types, bodies and what is told.                                          *)

\* No step but asking puts a request under way.
NoNewFlight == \A i \in Calls :
    InFlight(i)' => InFlight(i) /\ requests'[i].from = requests[i].from

LEMMA OneEachKept == ASSUME OneEach, NoNewFlight PROVE OneEach'
BY DEF OneEach, NoNewFlight

LEMMA RequestsTypedStep ==
    ASSUME Known, TokensCounted, [Next]_vars
    PROVE  requests' \in [Calls -> Request'] /\ OneEach'
<1>1. requests \in [Calls -> Request] /\ OneEach
  BY RequestsTyped DEF Known
<1>2. ASSUME NEW c \in Clients, Asks(c) PROVE requests' \in [Calls -> Request'] /\ OneEach'
  <2>1. ~Waiting(c)
    BY <1>2, AskEffect DEF Known
  <2>2. PICK i \in Calls :
              /\ requests' \in [Calls -> Request'] /\ OthersStay(i)
              /\ requests'[i].from = c
    BY <1>2, AskEffect DEF Known
  <2> QED
    BY <1>1, <2>1, <2>2 DEF OneEach, Waiting, InFlight, OthersStay
<1>3. ASSUME NEW i \in Calls, ReadReply(i) \/ Fails(i) \/ Gives(i) \/ Parks(i) \/ Drops(i)
      PROVE  requests' \in [Calls -> Request'] /\ OneEach'
  <2>1. CASE ReadReply(i)
    <3>1. requests' \in [Calls -> Request'] /\ OthersStay(i) /\ requests'[i].place = "told"
      BY <1>1, <2>1, ReadEffect
    <3> QED
      BY <1>1, <3>1, OneEachKept DEF NoNewFlight, InFlight, Travelling, OthersStay
  <2>2. CASE Fails(i)
    <3>1. PICK why \in {"timeout", "cut"} : Fail(i, why)
      BY <2>2 DEF Fails, TimesOut, Cut
    <3>2. job' = job
      BY <3>1 DEF Fail
    <3>3. requests' \in [Calls -> Request'] /\ OthersStay(i) /\ requests'[i].failed # "no"
      BY <1>1, <3>1, <3>2, FailEffect
    <3> QED
      BY <1>1, <3>3, OneEachKept DEF NoNewFlight, InFlight, OthersStay
  <2>3. CASE Gives(i)
    <3>1. /\ job' = job /\ requests[i].place \in {"going", "parked"}
          /\ \E answer \in Answers : Reply(i, answer)
      BY <2>3, GiveEffect
    <3>2. /\ requests' \in [Calls -> Request'] /\ OthersStay(i)
          /\ SameCall(requests'[i], requests[i])
          /\ requests'[i].failed = requests[i].failed
      BY <1>1, <3>1, ReplyEffect
    <3> QED
      BY <1>1, <3>1, <3>2, OneEachKept DEF NoNewFlight, InFlight, Travelling, OthersStay, SameCall
  <2>4. CASE Parks(i)
    <3>1. /\ requests' \in [Calls -> Request'] /\ OthersStay(i)
          /\ SameCall(requests'[i], requests[i])
          /\ requests'[i].failed = requests[i].failed
      BY <1>1, <2>4, ParkEffect
    <3>2. requests[i].place = "going"
      BY <2>4 DEF Parks
    <3> QED
      BY <1>1, <3>1, <3>2, OneEachKept DEF NoNewFlight, InFlight, Travelling, OthersStay, SameCall
  <2>5. CASE Drops(i)
    <3>1. requests' \in [Calls -> Request'] /\ OthersStay(i) /\ requests'[i].place = "gone"
      BY <1>1, <2>5, DropEffect
    <3> QED
      BY <1>1, <3>1, OneEachKept DEF NoNewFlight, InFlight, Travelling, OthersStay
  <2> QED
    BY <1>3, <2>1, <2>2, <2>3, <2>4, <2>5
<1>4. CASE Tick
  <2>1. /\ requests' \in [Calls -> Request']
        /\ \A i \in Calls : /\ SameCall(requests'[i], requests[i])
                            /\ requests'[i].place = requests[i].place
                            /\ requests'[i].failed = requests[i].failed
    BY <1>1, <1>4, TickEffect
  <2> QED
    BY <1>1, <2>1, OneEachKept DEF NoNewFlight, InFlight, SameCall
<1>5. CASE UNCHANGED <<job, requests>>
  <2>1. Request' = Request
    BY <1>5 DEF Request
  <2> QED
    BY <1>1, <1>5, <2>1 DEF OneEach, InFlight
<1> QED
  BY <1>2, <1>3, <1>4, <1>5, StepKinds

LeaseTyped == lease \in [Clients -> [token : Tokens, left : 0 .. Ttl]]

LEMMA TypeParts ==
    TypeOK <=> /\ job \in DOMAIN Ops /\ poisoned \subseteq Clients
               /\ requests \in [Calls -> Request] /\ OneEach
               /\ pushed \in 0 .. MaxElements /\ list \in 0 .. pushed
               /\ LockTyped /\ LeaseTyped
BY DEF TypeOK, Request, Bodies, OneEach, LockTyped, LeaseTyped

\* The lease a reply leaves with its caller, and the clock with everybody.
LEMMA LeaseAfterTyped ==
    ASSUME TypeOK, NEW i \in Calls, requests[i].from \in Clients
    PROVE  LeaseAfter(requests[i]) \in [token : Tokens, left : 0 .. Ttl]
<1> DEFINE r == requests[i]
           L == [token : Tokens, left : 0 .. Ttl]
           given == [token |-> r.answer.token, left |-> IF r.waited < Ttl THEN Ttl - r.waited ELSE 0]
<1>1. r.waited \in Nat /\ r.answer.token \in Tokens /\ Ttl \in Nat
  BY RequestsTyped, CacheClientsAssumption DEF Request, Answers
<1>2. (IF r.waited < Ttl THEN Ttl - r.waited ELSE 0) \in 0 .. Ttl
  BY <1>1
<1>3. given \in L
  BY <1>1, <1>2
<1>4. NoLease \in L
  BY <1>1, Typed DEF NoLease
<1>5. lease[r.from] \in L
  BY DEF TypeOK
<1>6. LeaseAfter(r) = given \/ LeaseAfter(r) = NoLease \/ LeaseAfter(r) = lease[r.from]
  BY DEF LeaseAfter
<1> QED
  BY <1>3, <1>4, <1>5, <1>6

LEMMA LeaseTypedStep ==
    ASSUME Known, [Next]_vars
    PROVE  LeaseTyped'
<1>1. LeaseTyped /\ TypeOK /\ NoLease \in [token : Tokens, left : 0 .. Ttl]
  BY Typed, CacheClientsAssumption DEF Known, TypeOK, LeaseTyped, NoLease
<1>2. ASSUME NEW c \in Clients, Asks(c) PROVE LeaseTyped'
  <2>1. lease' = lease \/ lease' = [lease EXCEPT ![c] = NoLease]
    BY <1>1, <1>2, AskEffect
  <2> QED
    BY <1>1, <2>1 DEF LeaseTyped
<1>3. ASSUME NEW i \in Calls, ReadReply(i) PROVE LeaseTyped'
  <2>1. /\ lease' = [lease EXCEPT ![requests[i].from] = LeaseAfter(requests[i])]
        /\ requests[i].place \in Travelling
    BY <1>3 DEF ReadReply, InFlight
  <2>2. requests[i].from \in Clients
    BY <2>1 DEF Known, BodyAsAsked
  <2>3. LeaseAfter(requests[i]) \in [token : Tokens, left : 0 .. Ttl]
    BY <1>1, <2>2, LeaseAfterTyped
  <2> QED
    BY <1>1, <2>1, <2>2, <2>3 DEF LeaseTyped
<1>4. ASSUME NEW i \in Calls, Fails(i) \/ Gives(i) \/ Parks(i) \/ Drops(i) PROVE lease' = lease
  BY <1>4 DEF Fails, TimesOut, Cut, Fail, Gives, Pops, WaitOver, Acquires, Renews, Releases, Parks, Drops
<1>5. CASE Tick
  <2>1. lease' = [c \in Clients |-> IF lease[c].left <= 1 THEN NoLease ELSE [lease[c] EXCEPT !.left = @ - 1]]
    BY <1>5 DEF Tick
  <2>2. ASSUME NEW c \in Clients
        PROVE  lease'[c] \in [token : Tokens, left : 0 .. Ttl]
    <3>1. /\ lease[c] \in [token : Tokens, left : 0 .. Ttl] /\ Ttl \in Nat
          /\ lease'[c] = IF lease[c].left <= 1 THEN NoLease ELSE [lease[c] EXCEPT !.left = @ - 1]
      BY <1>1, <2>1, CacheClientsAssumption DEF LeaseTyped
    <3>2. CASE lease[c].left <= 1
      BY <1>1, <3>1, <3>2
    <3>3. CASE ~(lease[c].left <= 1)
      <4>1. lease[c].left - 1 \in 0 .. Ttl
        BY <3>1, <3>3
      <4>2. lease'[c] = [lease[c] EXCEPT !.left = lease[c].left - 1]
        BY <3>1, <3>3
      <4> QED
        BY <3>1, <4>1, <4>2
    <3> QED
      BY <3>2, <3>3
  <2> QED
    BY <2>1, <2>2 DEF LeaseTyped
<1>6. CASE lease' = lease
  BY <1>1, <1>6 DEF LeaseTyped
<1> QED
  BY <1>2, <1>3, <1>4, <1>5, <1>6, StepKinds

LEMMA TypeStep ==
    ASSUME Known, TokensCounted, [Next]_vars
    PROVE  TypeOK'
<1>1. /\ job \in DOMAIN Ops /\ poisoned \subseteq Clients
      /\ pushed \in 0 .. MaxElements /\ list \in 0 .. pushed
      /\ LockTyped /\ MaxElements \in Nat /\ Ttl \in Nat
  BY TypeParts, CacheClientsAssumption DEF Known
<1>2. requests' \in [Calls -> Request'] /\ OneEach' /\ LeaseTyped'
  BY RequestsTypedStep, LeaseTypedStep
<1> DEFINE Rest == /\ job' = job /\ poisoned' \subseteq Clients
                   /\ pushed' \in 0 .. MaxElements /\ list' \in 0 .. pushed'
                   /\ LockTyped'
<1>3. ASSUME NEW c \in Clients, Asks(c) PROVE Rest
  BY <1>1, <1>3, AskEffect DEF Known, LockTyped
<1>4. ASSUME NEW i \in Calls, ReadReply(i) \/ Parks(i) \/ Drops(i) PROVE Rest
  BY <1>1, <1>4 DEF ReadReply, Parks, Drops, cache, LockTyped
<1>5. ASSUME NEW i \in Calls, Fails(i) PROVE Rest
  <2>1. PICK why \in {"timeout", "cut"} : Fail(i, why)
    BY <1>5 DEF Fails, TimesOut, Cut
  <2>2. requests[i].from \in Clients
    BY <2>1 DEF Fail, InFlight, Known, BodyAsAsked
  <2> QED
    BY <1>1, <2>1, <2>2 DEF Fail, cache, LockTyped
<1>6. ASSUME NEW i \in Calls, Gives(i) PROVE Rest
  BY <1>1, <1>6, GiveEffect
<1>7. ASSUME Tick PROVE Rest
  <2>1. /\ UNCHANGED <<job, poisoned, list, pushed, issued>>
        /\ lock' = IF lock.left <= 1 THEN Free ELSE [lock EXCEPT !.left = @ - 1]
    BY <1>7 DEF Tick
  <2>2. LockTyped'
    <3>1. CASE lock.left <= 1
      BY <1>1, <2>1, <3>1 DEF LockTyped, Free
    <3>2. CASE ~(lock.left <= 1)
      <4>1. lock.left - 1 \in 0 .. Ttl /\ lock.left - 1 # 0 /\ lock.holder # Nobody
        BY <1>1, <3>2 DEF LockTyped
      <4>2. lock' = [lock EXCEPT !.left = lock.left - 1]
        BY <2>1, <3>2
      <4> QED
        BY <1>1, <2>1, <4>1, <4>2 DEF LockTyped
    <3> QED
      BY <3>1, <3>2
  <2> QED
    BY <1>1, <2>1, <2>2
<1>8. ASSUME UNCHANGED <<job, requests, lock, issued, lease>>,
             Push \/ (\E c \in Clients : Reconnect(c)) \/ UNCHANGED vars
      PROVE  Rest
  <2>1. LockTyped'
    BY <1>1, <1>8 DEF LockTyped
  <2>2. CASE Push
    BY <1>1, <1>8, <2>1, <2>2 DEF Push
  <2>3. CASE \E c \in Clients : Reconnect(c)
    BY <1>1, <1>8, <2>1, <2>3 DEF Reconnect, cache
  <2>4. CASE UNCHANGED vars
    BY <1>1, <2>1, <2>4 DEF vars
  <2> QED
    BY <1>8, <2>2, <2>3, <2>4
<1>9. Rest
  <2> HIDE DEF Rest
  <2> QED
    BY <1>3, <1>4, <1>5, <1>6, <1>7, <1>8, StepKinds
<1>10. (DOMAIN Ops)' = DOMAIN Ops
  BY DEF Ops
<1>11. TypeOK' <=> /\ (job \in DOMAIN Ops)' /\ poisoned' \subseteq Clients
                   /\ requests' \in [Calls -> Request'] /\ OneEach'
                   /\ pushed' \in 0 .. MaxElements /\ list' \in 0 .. pushed'
                   /\ LockTyped' /\ LeaseTyped'
  BY TypeParts DEF TypeOK, Request, Bodies, OneEach, LockTyped, LeaseTyped
<1> QED
  BY <1>1, <1>2, <1>9, <1>10, <1>11

\* What the steps keep of every request by itself.
EachRequest == BodyAsAsked /\ ToldAsAnswered /\ WaitedAtMost /\ TimesOutLate

LEMMA EachRequestStep ==
    ASSUME TypeOK, EachRequest, TokensCounted, [Next]_vars
    PROVE  EachRequest'
<1> USE DEF EachRequest
<1>1. /\ requests \in [Calls -> Request] /\ Known
      /\ Transit \in Nat /\ ReadTimeout \in Nat /\ Waits \subseteq Nat
  BY RequestsTyped, CacheClientsAssumption DEF Known
<1>2. \A i \in Calls : /\ requests[i].waited \in Nat /\ requests[i].age \in Nat
                       /\ requests[i].wait \in Nat
  <2>1. ASSUME NEW r \in Request PROVE r.waited \in Nat /\ r.age \in Nat /\ r.wait \in Nat
    <3>1. r.waited \in 0 .. ReadTimeout /\ r.age \in Nat /\ r.wait \in Waits
      BY DEF Request
    <3>2. ReadTimeout \in Nat /\ \A w \in Waits : w \in Nat
      BY CacheClientsAssumption
    <3>3. r.waited \in Nat
      BY <3>1, <3>2
    <3>4. r.wait \in Nat
      BY <3>1, <3>2
    <3> QED
      BY <3>1, <3>3, <3>4
  <2> QED
    BY <1>1, <2>1
<1>3. ASSUME NEW c \in Clients, Asks(c) PROVE EachRequest'
  <2>1. job' = job
    BY <1>3, AskEffect
  <2>2. PICK i \in Calls :
              /\ OthersStay(i)
              /\ requests'[i].from = c /\ requests'[i].op \in Ops[job]
              /\ requests'[i].op = "pop" => requests'[i].body.ms = requests'[i].wait
              /\ requests'[i].op # "pop" => requests'[i].body = LockOp(c, requests'[i].op)
              /\ requests'[i].place = "going" /\ requests'[i].failed = "no"
              /\ requests'[i].age = 0 /\ requests'[i].waited = 0
              /\ requests'[i].answer = NoAnswer /\ requests'[i].told = NoAnswer
    BY <1>3, AskEffect
  <2>3. BodyAsAsked' /\ ToldAsAnswered'
    BY <2>1, <2>2 DEF BodyAsAsked, ToldAsAnswered, OthersStay, LockOp
  <2>4. WaitedAtMost' /\ TimesOutLate'
    BY <1>1, <2>2 DEF WaitedAtMost, TimesOutLate, OthersStay, InFlight
  <2> QED
    BY <2>3, <2>4
<1>4. ASSUME NEW i \in Calls, ReadReply(i) PROVE EachRequest'
  <2>1. /\ job' = job /\ InFlight(i) /\ requests[i].place = "coming"
        /\ OthersStay(i) /\ SameCall(requests'[i], requests[i])
        /\ requests'[i].failed = requests[i].failed
        /\ requests'[i].told = requests[i].answer
        /\ requests'[i].answer = requests[i].answer
        /\ requests'[i].place = "told"
    BY <1>1, <1>4, ReadEffect DEF ReadReply
  <2>2. BodyAsAsked' /\ ToldAsAnswered'
    BY <2>1 DEF BodyAsAsked, ToldAsAnswered, OthersStay, LockOp, Travelling
  <2>3. WaitedAtMost' /\ TimesOutLate'
    BY <2>1 DEF WaitedAtMost, TimesOutLate, OthersStay, InFlight, Travelling, SameCall
  <2> QED
    BY <2>2, <2>3
<1>5. ASSUME NEW i \in Calls, Fails(i) PROVE EachRequest'
  <2>1. PICK why \in {"timeout", "cut"} :
            Fail(i, why) /\ (why = "timeout" => requests[i].waited = ReadTimeout)
    BY <1>5 DEF Fails, TimesOut, Cut
  <2>2. job' = job /\ InFlight(i)
    BY <2>1 DEF Fail
  <2>3. /\ OthersStay(i) /\ SameCall(requests'[i], requests[i])
        /\ requests'[i].failed = why
        /\ requests'[i].told = requests[i].told
        /\ requests'[i].answer = requests[i].answer
        /\ requests[i].place = "coming" => requests'[i].place = "gone"
        /\ requests[i].place # "coming" =>
              requests'[i].place = requests[i].place /\ requests'[i].body = requests[i].body
    BY <1>1, <2>1, <2>2, FailEffect
  <2>4. BodyAsAsked'
    BY <2>2, <2>3 DEF BodyAsAsked, OthersStay, LockOp, Travelling, SameCall, InFlight
  <2>5. ToldAsAnswered'
    BY <2>2, <2>3 DEF ToldAsAnswered, OthersStay, SameCall, InFlight, Travelling
  <2>6. WaitedAtMost'
    BY <2>2, <2>3 DEF WaitedAtMost, OthersStay, InFlight
  <2>7. why = "timeout" /\ requests[i].op = "pop" => requests[i].wait + 2 * Transit >= ReadTimeout
    <3>1. requests[i].place \in {"going", "parked", "coming"}
      BY <2>2 DEF InFlight, Travelling
    <3> QED
      BY <1>1, <1>2, <2>1, <2>2, <3>1 DEF WaitedAtMost
  <2>8. TimesOutLate'
    BY <2>3, <2>7 DEF TimesOutLate, OthersStay, SameCall
  <2> QED
    BY <2>4, <2>5, <2>6, <2>8
<1>6. ASSUME NEW i \in Calls, Gives(i) PROVE EachRequest'
  <2>1. /\ job' = job /\ requests[i].place \in {"going", "parked"}
        /\ \E answer \in Answers : Reply(i, answer)
    BY <1>1, <1>6, GiveEffect
  <2>2. /\ OthersStay(i) /\ SameCall(requests'[i], requests[i])
        /\ requests'[i].failed = requests[i].failed
        /\ requests'[i].told = requests[i].told
        /\ requests[i].failed = "no" =>
              /\ requests'[i].place = "coming" /\ requests'[i].age = 0
              /\ requests'[i].waited = requests[i].waited
              /\ requests'[i].body = requests[i].body
        /\ requests[i].failed # "no" => requests'[i].place = "gone"
    BY <1>1, <2>1, ReplyEffect
  <2>3. BodyAsAsked'
    BY <2>1, <2>2 DEF BodyAsAsked, OthersStay, LockOp, Travelling, SameCall
  <2>4. ToldAsAnswered'
    BY <2>1, <2>2 DEF ToldAsAnswered, OthersStay, SameCall
  <2>5. requests[i].failed = "no" => requests[i].waited <= Transit + requests[i].wait
    <3>1. requests[i].failed = "no" => InFlight(i)
      BY <2>1 DEF InFlight, Travelling
    <3> QED
      BY <1>1, <1>2, <2>1, <3>1 DEF WaitedAtMost
  <2>6. WaitedAtMost'
    BY <1>1, <1>2, <2>2, <2>5 DEF WaitedAtMost, OthersStay, InFlight, SameCall, Travelling
  <2>7. TimesOutLate'
    BY <2>2 DEF TimesOutLate, OthersStay, SameCall
  <2> QED
    BY <2>3, <2>4, <2>6, <2>7
<1>7. ASSUME NEW i \in Calls, Parks(i) PROVE EachRequest'
  <2>1. /\ job' = job /\ requests[i].place = "going" /\ requests[i].op = "pop"
        /\ OthersStay(i) /\ SameCall(requests'[i], requests[i])
        /\ requests'[i].failed = requests[i].failed
        /\ requests'[i].told = requests[i].told
        /\ requests'[i].answer = requests[i].answer
        /\ requests'[i].waited = requests[i].waited
        /\ requests'[i].body = requests[i].body
        /\ requests'[i].place = "parked" /\ requests'[i].age = 0
    BY <1>1, <1>7, ParkEffect DEF Parks
  <2>2. BodyAsAsked' /\ ToldAsAnswered'
    BY <2>1 DEF BodyAsAsked, ToldAsAnswered, OthersStay, LockOp, Travelling, SameCall
  <2>3. WaitedAtMost'
    BY <1>1, <1>2, <2>1 DEF WaitedAtMost, OthersStay, InFlight, SameCall, Travelling
  <2>4. TimesOutLate'
    BY <2>1 DEF TimesOutLate, OthersStay, SameCall
  <2> QED
    BY <2>2, <2>3, <2>4
<1>8. ASSUME NEW i \in Calls, Drops(i) PROVE EachRequest'
  <2>1. /\ job' = job /\ requests[i].place \in {"going", "parked"}
        /\ OthersStay(i) /\ SameCall(requests'[i], requests[i])
        /\ requests'[i].failed = requests[i].failed
        /\ requests'[i].told = requests[i].told
        /\ requests'[i].answer = requests[i].answer
        /\ requests'[i].place = "gone"
    BY <1>1, <1>8, DropEffect DEF Drops
  <2>2. BodyAsAsked' /\ ToldAsAnswered'
    BY <2>1 DEF BodyAsAsked, ToldAsAnswered, OthersStay, LockOp, Travelling, SameCall
  <2>3. WaitedAtMost' /\ TimesOutLate'
    BY <2>1 DEF WaitedAtMost, TimesOutLate, OthersStay, InFlight, Travelling, SameCall
  <2> QED
    BY <2>2, <2>3
<1>9. ASSUME Tick PROVE EachRequest'
  <2>1. /\ job' = job
        /\ \A i \in Calls :
              /\ InFlight(i) /\ requests[i].place \in {"going", "coming"} =>
                    requests[i].age < Transit
              /\ requests[i].place = "parked" => requests[i].age < requests[i].body.ms
    BY <1>9 DEF Tick
  <2>2. \A i \in Calls :
              /\ SameCall(requests'[i], requests[i])
              /\ requests'[i].place = requests[i].place
              /\ requests'[i].failed = requests[i].failed
              /\ requests'[i].body = requests[i].body
              /\ requests'[i].told = requests[i].told
              /\ requests'[i].answer = requests[i].answer
              /\ InFlight(i) =>
                    requests'[i].waited = requests[i].waited + 1
                    /\ requests'[i].age = requests[i].age + 1
    BY <1>1, <1>9, TickEffect
  <2>3. BodyAsAsked' /\ ToldAsAnswered' /\ TimesOutLate'
    BY <2>1, <2>2 DEF BodyAsAsked, ToldAsAnswered, TimesOutLate, LockOp, SameCall
  <2>4. \A i \in Calls : requests[i].place = "parked" => requests[i].age < requests[i].wait
    BY <2>1 DEF BodyAsAsked, Travelling
  <2>5. WaitedAtMost'
    BY <1>1, <1>2, <2>1, <2>2, <2>4 DEF WaitedAtMost, InFlight, SameCall
  <2> QED
    BY <2>3, <2>5
<1>10. ASSUME UNCHANGED <<job, requests>> PROVE EachRequest'
  BY <1>10 DEF BodyAsAsked, ToldAsAnswered, WaitedAtMost, TimesOutLate, InFlight, LockOp
<1> QED
  BY <1>3, <1>4, <1>5, <1>6, <1>7, <1>8, <1>9, <1>10, StepKinds

-----------------------------------------------------------------------------
(* Tokens.                                                                  *)

\* The server gives the last token again to the owner of the lock, or the next
\* one to whoever takes a free lock.
LEMMA GiveTokens ==
    ASSUME Known, TokensCounted, TokensBelow, NEW i \in Calls, Gives(i)
    PROVE  \E answer \in Answers :
              /\ Reply(i, answer)
              /\ answer.token <= issued' /\ lock'.token = issued'
              /\ \/ /\ issued' = issued /\ lock'.holder \in {Nobody, lock.holder}
                    /\ requests[i].op \in {"acquire", "renew"} /\ answer.yes =>
                          /\ answer.token = issued
                          /\ lock.holder = requests[i].from /\ lock.holder # Nobody
                 \/ /\ issued' = issued + 1 /\ requests[i].place = "going"
                    /\ requests[i].op = "acquire" /\ answer = [yes |-> TRUE, token |-> issued']
                    /\ lock.holder = Nobody /\ lock'.holder = requests[i].from
                    /\ requests[i].from \in Clients
<1>1. lock.token = issued /\ issued \in Nat /\ 0 <= issued
      /\ lock \in [holder : Clients \cup {Nobody}, token : Tokens, left : 0 .. Ttl]
  BY DEF Known, TypeOK, TokensBelow, Tokens
<1>2. CASE Pops(i)
  <2>1. /\ UNCHANGED <<lock, issued>> /\ requests[i].op = "pop"
        /\ Reply(i, [yes |-> TRUE, token |-> 0])
    BY <1>2 DEF Pops
  <2>2. [yes |-> TRUE, token |-> 0] \in Answers
    BY Typed DEF Answers
  <2> QED
    BY <1>1, <2>1, <2>2
<1>3. CASE WaitOver(i)
  <2>1. UNCHANGED <<lock, issued>> /\ Reply(i, NoAnswer)
    BY <1>3 DEF WaitOver, cache
  <2>2. NoAnswer \in Answers /\ NoAnswer.token = 0 /\ ~NoAnswer.yes
    BY Typed DEF NoAnswer
  <2> QED
    BY <1>1, <2>1, <2>2
<1>4. CASE Acquires(i)
  <2>1. requests[i].op = "acquire" /\ requests[i].place = "going"
    BY <1>4 DEF Acquires
  <2>2. requests[i].from # Nobody /\ requests[i].from \in Clients
    BY <2>1, OwnerIsCaller
  <2>3. PICK answer \in Answers :
              /\ Reply(i, answer)
              /\ \/ /\ lock.holder = requests[i].from /\ issued' = issued
                    /\ lock' = [lock EXCEPT !.left = Ttl]
                    /\ answer = [yes |-> TRUE, token |-> lock.token]
                 \/ /\ lock.holder = Nobody /\ issued' = issued + 1
                    /\ lock' = [holder |-> requests[i].from, token |-> issued', left |-> Ttl]
                    /\ answer = [yes |-> TRUE, token |-> issued']
                 \/ answer = NoAnswer /\ UNCHANGED <<lock, issued>>
    BY <1>4, AcquireEffect
  <2> QED
    BY <1>1, <2>1, <2>2, <2>3 DEF NoAnswer
<1>5. CASE Renews(i)
  <2>1. requests[i].op = "renew" /\ requests[i].from # Nobody
    BY <1>5, OwnerIsCaller DEF Renews
  <2>2. PICK answer \in Answers :
              /\ Reply(i, answer) /\ issued' = issued
              /\ \/ /\ lock.holder = requests[i].from
                    /\ lock' = [lock EXCEPT !.left = Ttl]
                    /\ answer = [yes |-> TRUE, token |-> lock.token]
                 \/ answer = NoAnswer /\ lock' = lock
    BY <1>5, RenewEffect
  <2> QED
    BY <1>1, <2>1, <2>2 DEF NoAnswer
<1>6. CASE Releases(i)
  <2>1. requests[i].op = "release"
    BY <1>6 DEF Releases
  <2>2. PICK answer \in Answers :
              /\ Reply(i, answer) /\ issued' = issued /\ answer.token = 0
              /\ lock' = IF lock.holder = requests[i].from THEN Free ELSE lock
    BY <1>6, ReleaseEffect
  <2> QED
    BY <1>1, <2>1, <2>2 DEF Free
<1> QED
  BY <1>2, <1>3, <1>4, <1>5, <1>6 DEF Gives

Fencing == TokensCounted /\ TokensBelow /\ TokensFenced

\* More requests served, and a token no request took.
LEMMA FencingKept ==
    ASSUME IsFiniteSet(Calls), issued \in Nat, Fencing, Served \subseteq Served', UNCHANGED issued,
           lock'.token = lock.token, lock'.holder \in {Nobody, lock.holder},
           \A i \in Calls : SameCall(requests'[i], requests[i])
                            /\ requests'[i].answer = requests[i].answer
    PROVE  Fencing'
<1>1. TokensBelow' /\ TokensFenced'
  BY DEF Fencing, TokensBelow, TokensFenced, Got, SameCall
<1>2. IsFiniteSet(Served) /\ IsFiniteSet(Served')
  BY FS_Subset DEF Served, Calls
<1>3. Cardinality(Served) <= Cardinality(Served')
  BY <1>2, FS_Subset
<1>4. Cardinality(Served) \in Nat /\ Cardinality(Served') \in Nat
  BY <1>2, FS_CardinalityType
<1> QED
  BY <1>1, <1>3, <1>4 DEF Fencing, TokensCounted

LEMMA FencingStep ==
    ASSUME Known, TypeOK', Fencing, [Next]_vars
    PROVE  Fencing'
<1>1. /\ requests \in [Calls -> Request] /\ issued \in Nat /\ issued' \in Nat /\ IsFiniteSet(Calls)
      /\ TokensCounted /\ TokensBelow /\ TypeOK
  <2>1. TypeOK /\ TokensCounted /\ TokensBelow
    BY DEF Known, Fencing
  <2>2. IsFiniteSet(Calls)
    BY FS_Interval, CacheClientsAssumption DEF Calls
  <2>3. issued \in Tokens /\ issued' \in Tokens
    BY <2>1 DEF TypeOK, Tokens
  <2> QED
    BY <2>1, <2>2, <2>3, RequestsTyped DEF Tokens
<1>2. IsFiniteSet(Served) /\ IsFiniteSet(Served')
  BY <1>1, FS_Subset DEF Served, Calls
<1>3. Cardinality(Served) \in Nat /\ Cardinality(Served') \in Nat
  BY <1>2, FS_CardinalityType
<1>4. Served \subseteq Served' => Cardinality(Served) <= Cardinality(Served')
  BY <1>2, FS_Subset
<1>5. ASSUME NEW c \in Clients, Asks(c) PROVE Fencing'
  <2>1. UNCHANGED <<lock, issued>>
    BY <1>1, <1>5, AskEffect
  <2>2. PICK i \in Calls :
              /\ requests[i].place = "unasked"
              /\ OthersStay(i)
              /\ requests'[i].place = "going"
              /\ requests'[i].floor = HighestTold
              /\ requests'[i].answer = NoAnswer
    BY <1>1, <1>5, AskEffect
  <2>3. HighestTold <= issued
    <3>1. HighestTold = 0 \/ \E j \in Calls : requests[j].told.token = HighestTold
      BY <1>1, HighestIsTold
    <3>2. \A j \in Calls : requests[j].told.token <= issued
      BY <1>1 DEF Known, ToldAsAnswered, NoAnswer, TokensBelow
    <3> QED
      BY <1>1, <3>1, <3>2
  <2>4. TokensBelow' /\ TokensFenced'
    BY <1>1, <2>1, <2>2, <2>3 DEF Fencing, TokensBelow, TokensFenced, Got, OthersStay, NoAnswer
  <2>5. Served \subseteq Served'
    BY <2>2 DEF Served, OthersStay
  <2> QED
    BY <1>1, <1>3, <1>4, <2>1, <2>4, <2>5 DEF Fencing, TokensCounted
<1>6. ASSUME NEW i \in Calls, ReadReply(i) \/ Fails(i) \/ Parks(i) \/ Drops(i)
      PROVE  Fencing'
  <2>1. UNCHANGED <<job, lock, issued>>
    BY <1>6 DEF ReadReply, Fails, TimesOut, Cut, Fail, Parks, Drops, cache
  <2>2. /\ OthersStay(i) /\ SameCall(requests'[i], requests[i])
        /\ requests'[i].answer = requests[i].answer
        /\ requests'[i].place \in {requests[i].place, "told", "gone", "parked"}
    <3>1. CASE ReadReply(i)
      BY <1>1, <3>1, ReadEffect
    <3>2. CASE Fails(i)
      <4>1. PICK why \in {"timeout", "cut"} : Fail(i, why)
        BY <3>2 DEF Fails, TimesOut, Cut
      <4> QED
        BY <1>1, <2>1, <4>1, FailEffect
    <3>3. CASE Parks(i)
      BY <1>1, <3>3, ParkEffect
    <3>4. CASE Drops(i)
      BY <1>1, <3>4, DropEffect
    <3> QED
      BY <1>6, <3>1, <3>2, <3>3, <3>4
  <2>3. \A j \in Calls : SameCall(requests'[j], requests[j])
                         /\ requests'[j].answer = requests[j].answer
    BY <2>2 DEF OthersStay, SameCall
  <2>4. Served \subseteq Served'
    BY <2>2 DEF Served, OthersStay
  <2> QED
    BY <1>1, <2>1, <2>3, <2>4, FencingKept
<1>7. ASSUME NEW i \in Calls, Gives(i) PROVE Fencing'
  <2>1. PICK answer \in Answers :
              /\ Reply(i, answer)
              /\ answer.token <= issued' /\ lock'.token = issued'
              /\ \/ /\ issued' = issued /\ lock'.holder \in {Nobody, lock.holder}
                    /\ requests[i].op = "acquire" /\ answer.yes =>
                          /\ answer.token = issued
                          /\ lock.holder = requests[i].from /\ lock.holder # Nobody
                 \/ /\ issued' = issued + 1 /\ requests[i].place = "going"
                    /\ requests[i].op = "acquire" /\ answer.token = issued'
                    /\ lock'.holder = requests[i].from
    BY <1>1, <1>7, GiveTokens
  <2>2. job' = job /\ requests[i].place \in {"going", "parked"}
    BY <1>1, <1>7, GiveEffect
  <2>3. /\ OthersStay(i) /\ SameCall(requests'[i], requests[i])
        /\ requests'[i].answer = answer
        /\ requests'[i].place \in {"coming", "gone"}
    BY <1>1, <2>1, <2>2, ReplyEffect
  <2>4. \A j \in Calls : requests[j].answer.token \in Nat /\ requests[j].floor \in Nat
    BY <1>1 DEF Request, Answers, Tokens
  <2>5. answer.token \in Nat
    BY <2>1 DEF Answers, Tokens
  <2>6. TokensBelow'
    BY <1>1, <2>1, <2>3, <2>4, <2>5 DEF TokensBelow, OthersStay, SameCall
  <2>7. TokensFenced'
    <3>1. CASE issued' = issued
      <4>1. /\ lock'.holder \in {Nobody, lock.holder}
            /\ requests[i].op = "acquire" /\ answer.yes =>
                  /\ answer.token = issued
                  /\ lock.holder = requests[i].from /\ lock.holder # Nobody
        BY <1>1, <2>1, <3>1
      <4> QED
        BY <2>3, <3>1, <4>1 DEF Fencing, TokensFenced, Got, OthersStay, SameCall
    <3>2. CASE issued' # issued
      <4>1. issued' = issued + 1 /\ answer.token = issued' /\ lock'.holder = requests[i].from
        BY <2>1, <3>2
      <4>2. \A j \in Calls : requests[j].answer.token # issued'
        BY <1>1, <2>4, <4>1 DEF TokensBelow
      <4> QED
        BY <2>3, <4>1, <4>2 DEF Fencing, TokensFenced, Got, OthersStay, SameCall
    <3> QED
      BY <3>1, <3>2
  <2>8. Served \subseteq Served' /\ i \in Served'
    BY <2>2, <2>3 DEF Served, OthersStay
  <2>9. TokensCounted'
    <3>1. CASE issued' = issued
      BY <1>1, <1>3, <1>4, <2>8, <3>1 DEF TokensCounted
    <3>2. CASE issued' # issued
      <4>1. issued' = issued + 1 /\ i \notin Served /\ Served \cup {i} \subseteq Served'
        BY <2>1, <2>8, <3>2 DEF Served
      <4>2. Cardinality(Served \cup {i}) = Cardinality(Served) + 1
        BY <1>2, <4>1, FS_AddElement
      <4>3. Cardinality(Served \cup {i}) <= Cardinality(Served')
        BY <1>2, <4>1, FS_Subset
      <4> QED
        BY <1>1, <1>3, <4>1, <4>2, <4>3 DEF TokensCounted
    <3> QED
      BY <3>1, <3>2
  <2> QED
    BY <2>6, <2>7, <2>9 DEF Fencing
<1>8. ASSUME Tick PROVE Fencing'
  <2>1. /\ UNCHANGED issued /\ lock' = IF lock.left <= 1 THEN Free ELSE [lock EXCEPT !.left = @ - 1]
    BY <1>8 DEF Tick
  <2>2. lock'.token = lock.token /\ lock'.holder \in {Nobody, lock.holder}
    BY <1>1, <2>1 DEF TypeOK, Free
  <2>3. \A j \in Calls : /\ SameCall(requests'[j], requests[j])
                         /\ requests'[j].answer = requests[j].answer
                         /\ requests'[j].place = requests[j].place
    BY <1>1, <1>8, TickEffect
  <2>4. Served \subseteq Served'
    BY <2>3 DEF Served
  <2> QED
    BY <1>1, <2>1, <2>2, <2>3, <2>4, FencingKept
<1>9. ASSUME UNCHANGED <<job, requests, lock, issued, lease>> PROVE Fencing'
  BY <1>9 DEF Fencing, TokensCounted, TokensBelow, TokensFenced, Served, Got
<1> QED
  BY <1>5, <1>6, <1>7, <1>8, <1>9, StepKinds

-----------------------------------------------------------------------------
(* Leases.                                                                  *)

Leases == ComingIsHeld /\ ReleasingHasNone /\ LeaseIsHeld

LEMMA LeaseHeldBy ==
    LeaseIsHeld <=> \A c \in Clients : \/ lease[c].left = 0
                                       \/ HasLock(c, lease[c].token, lease[c].left)
                                       \/ GaveUp(c)
BY DEF LeaseIsHeld, HasLock, GaveUp

\* The same of the next state, for a client, a token and a lease of this one.
GaveUpThen(c) == \E i \in Calls : /\ requests'[i].op = "release" /\ requests'[i].failed # "no"
                                 /\ requests'[i].from = c
HasLockThen(c, token, left) == lock'.holder = c /\ lock'.token = token /\ lock'.left >= left

\* What has failed stays failed.
GaveUpKept == \A c \in Clients : GaveUp(c) => GaveUpThen(c)

\* A lock that is held is taken from its holder by no request but a release
\* of its own.
LEMMA HeldStep ==
    ASSUME Known, TokensCounted, NEW i \in Calls, Gives(i),
           NEW c \in Clients, NEW token, NEW left \in 0 .. Ttl,
           HasLock(c, token, left),
           requests[i].op = "release" => requests[i].from # c
    PROVE  HasLockThen(c, token, left)
<1>1. /\ lock \in [holder : Clients \cup {Nobody}, token : Tokens, left : 0 .. Ttl]
      /\ lock.holder = c /\ lock.token = token /\ lock.left >= left
      /\ c # Nobody /\ Ttl \in Nat
  BY CacheClientsAssumption DEF Known, TypeOK, HasLock, HasLockThen
<1>2. CASE lock' = lock
  BY <1>1, <1>2 DEF HasLock, HasLockThen
<1>3. CASE lock' = [lock EXCEPT !.left = Ttl]
  BY <1>1, <1>3 DEF HasLock, HasLockThen
<1>4. CASE Pops(i) \/ WaitOver(i)
  BY <1>2, <1>4 DEF Pops, WaitOver, cache
<1>5. CASE Acquires(i)
  BY <1>1, <1>2, <1>3, <1>5, AcquireEffect
<1>6. CASE Renews(i)
  BY <1>2, <1>3, <1>6, RenewEffect
<1>7. CASE Releases(i)
  <2>1. requests[i].from # c
    BY <1>7 DEF Releases
  <2> QED
    BY <1>1, <1>2, <1>7, <2>1, ReleaseEffect
<1> QED
  BY <1>4, <1>5, <1>6, <1>7 DEF Gives

\* A request that is answered with a lease finds it with its caller.
LEMMA AnsweredHeld ==
    ASSUME Known, TokensCounted, NEW i \in Calls, Gives(i), requests[i].op \in {"acquire", "renew"}
    PROVE  \E answer \in Answers :
              /\ Reply(i, answer)
              /\ answer.yes => HasLockThen(requests[i].from, answer.token, Ttl)
<1>1. /\ lock \in [holder : Clients \cup {Nobody}, token : Tokens, left : 0 .. Ttl]
      /\ Ttl \in Nat
  BY CacheClientsAssumption DEF Known, TypeOK
<1>2. CASE requests[i].op = "acquire"
  <2>1. Acquires(i) \/ WaitOver(i)
    BY <1>2 DEF Gives, Pops, Renews, Releases
  <2>2. ~WaitOver(i)
    BY <1>2 DEF WaitOver, Known, BodyAsAsked, Travelling
  <2>3. PICK answer \in Answers :
              /\ Reply(i, answer)
              /\ \/ /\ lock.holder = requests[i].from
                    /\ lock' = [lock EXCEPT !.left = Ttl]
                    /\ answer = [yes |-> TRUE, token |-> lock.token]
                 \/ /\ lock' = [holder |-> requests[i].from, token |-> issued', left |-> Ttl]
                    /\ answer = [yes |-> TRUE, token |-> issued']
                 \/ answer = NoAnswer
    BY <2>1, <2>2, AcquireEffect
  <2> QED
    BY <1>1, <2>3 DEF HasLock, HasLockThen, NoAnswer
<1>3. CASE requests[i].op = "renew"
  <2>1. Renews(i) \/ WaitOver(i)
    BY <1>3 DEF Gives, Pops, Acquires, Releases
  <2>2. ~WaitOver(i)
    BY <1>3 DEF WaitOver, Known, BodyAsAsked, Travelling
  <2>3. PICK answer \in Answers :
              /\ Reply(i, answer)
              /\ \/ /\ lock.holder = requests[i].from
                    /\ lock' = [lock EXCEPT !.left = Ttl]
                    /\ answer = [yes |-> TRUE, token |-> lock.token]
                 \/ answer = NoAnswer
    BY <2>1, <2>2, RenewEffect
  <2> QED
    BY <1>1, <2>3 DEF HasLock, HasLockThen, NoAnswer
<1> QED
  BY <1>2, <1>3

LEMMA LeasesStep ==
    ASSUME Known, TokensCounted, Leases, [Next]_vars
    PROVE  Leases'
<1>1. /\ requests \in [Calls -> Request] /\ OneEach /\ Ttl \in Nat
      /\ TypeOK /\ LeaseTyped /\ ComingIsHeld /\ ReleasingHasNone
      /\ \A i \in Calls : requests[i].waited \in Nat
      /\ \A i \in Calls : requests[i].place \in Travelling => requests[i].from \in Clients
  <2>1. TypeOK /\ Ttl \in Nat /\ ReadTimeout \in Nat
    BY CacheClientsAssumption DEF Known
  <2>2. \A i \in Calls : requests[i].waited \in 0 .. ReadTimeout
    BY <2>1, RequestsTyped DEF Request
  <2>3. \A i \in Calls : requests[i].waited \in Nat
    BY <2>1, <2>2
  <2> QED
    BY <2>1, <2>3, RequestsTyped, TypeParts DEF Known, BodyAsAsked, Leases
<1>2. \A c \in Clients : \/ lease[c].left = 0
                         \/ HasLock(c, lease[c].token, lease[c].left)
                         \/ GaveUp(c)
  BY LeaseHeldBy DEF Leases
<1>3. ASSUME ComingIsHeld', ReleasingHasNone',
             \A c \in Clients : \/ lease'[c].left = 0
                                \/ HasLockThen(c, lease'[c].token, lease'[c].left)
                                \/ GaveUpThen(c)
      PROVE  Leases'
  BY <1>3 DEF Leases, LeaseIsHeld, HasLock, HasLockThen, GaveUp, GaveUpThen
<1>4. ASSUME NEW c \in Clients, Asks(c) PROVE Leases'
  <2>1. lock' = lock
    BY <1>1, <1>4, AskEffect
  <2>2. PICK i \in Calls :
              /\ requests[i].place = "unasked"
              /\ OthersStay(i)
              /\ requests'[i].from = c
              /\ requests'[i].place = "going"
              /\ lease' = IF requests'[i].op = "release" THEN [lease EXCEPT ![c] = NoLease]
                                                        ELSE lease
    BY <1>1, <1>4, AskEffect
  <2>3. GaveUpKept
    <3>1. requests[i].op = "none"
      BY <2>2 DEF Known, ToldAsAnswered
    <3> QED
      BY <2>2, <3>1 DEF GaveUpKept, GaveUp, GaveUpThen, OthersStay
  <2>4. /\ \A d \in Clients : lease'[d] = lease[d] \/ lease'[d].left = 0
        /\ requests'[i].op = "release" => lease'[c].left = 0
    BY <1>1, <2>2 DEF LeaseTyped, NoLease
  <2>5. ComingIsHeld'
    BY <1>1, <2>1, <2>2, <2>3 DEF ComingIsHeld, GaveUpKept, GaveUp, GaveUpThen, HasLock, HasLockThen, InFlight, OthersStay, Travelling
  <2>6. ReleasingHasNone'
    <3>1. \A j \in Calls \ {i} : InFlight(j) => requests[j].from \in Clients
      BY <1>1 DEF InFlight
    <3> QED
      BY <1>1, <2>2, <2>4, <3>1 DEF ReleasingHasNone, InFlight, OthersStay
  <2>7. \A d \in Clients : \/ lease'[d].left = 0
                           \/ HasLockThen(d, lease'[d].token, lease'[d].left)
                           \/ GaveUpThen(d)
    BY <1>2, <2>1, <2>3, <2>4 DEF GaveUpKept, HasLock, HasLockThen
  <2> QED
    BY <1>3, <2>5, <2>6, <2>7
<1>5. ASSUME NEW i \in Calls, ReadReply(i) PROVE Leases'
  <2> DEFINE c == requests[i].from
  <2>1. /\ InFlight(i) /\ requests[i].place = "coming" /\ lock' = lock
        /\ lease' = [lease EXCEPT ![c] = LeaseAfter(requests[i])]
    BY <1>5 DEF ReadReply, cache
  <2>2. /\ OthersStay(i) /\ SameCall(requests'[i], requests[i])
        /\ requests'[i].failed = requests[i].failed
        /\ requests'[i].place = "told"
    BY <1>1, <1>5, ReadEffect
  <2>3. GaveUpKept
    BY <2>2 DEF GaveUpKept, GaveUp, GaveUpThen, OthersStay, SameCall
  <2>4. c \in Clients
    BY <1>1, <2>1 DEF InFlight
  <2>5. ComingIsHeld'
    BY <1>1, <2>1, <2>2, <2>3 DEF ComingIsHeld, GaveUpKept, GaveUp, GaveUpThen, HasLock, HasLockThen, InFlight, OthersStay, Travelling
  <2>6. ReleasingHasNone'
    <3>1. \A j \in Calls \ {i} : InFlight(j) => requests[j].from \in Clients /\ requests[j].from # c
      BY <1>1, <2>1, <2>4 DEF InFlight, OneEach
    <3> QED
      BY <1>1, <2>1, <2>2, <3>1 DEF ReleasingHasNone, InFlight, OthersStay, LeaseTyped, Travelling
  <2>7. lease'[c] = LeaseAfter(requests[i]) /\ \A d \in Clients \ {c} : lease'[d] = lease[d]
    BY <1>1, <2>1, <2>4 DEF LeaseTyped
  <2>8. \/ lease'[c].left = 0
        \/ HasLockThen(c, lease'[c].token, lease'[c].left)
        \/ GaveUpThen(c)
    <3>1. CASE requests[i].op \in {"acquire", "renew"} /\ requests[i].answer.yes
      <4>1. lease'[c] = [token |-> requests[i].answer.token,
                         left |-> IF requests[i].waited < Ttl THEN Ttl - requests[i].waited ELSE 0]
        BY <2>7, <3>1 DEF LeaseAfter
      <4>2. \/ requests[i].waited >= Ttl
            \/ HasLock(c, requests[i].answer.token, Ttl - requests[i].waited)
            \/ GaveUp(c)
        BY <1>1, <2>1, <3>1 DEF ComingIsHeld
      <4>3. CASE requests[i].waited >= Ttl
        BY <1>1, <4>1, <4>3
      <4>4. CASE GaveUp(c)
        BY <2>3, <2>4, <4>4 DEF GaveUpKept
      <4>5. CASE HasLock(c, requests[i].answer.token, Ttl - requests[i].waited)
        BY <1>1, <2>1, <4>1, <4>5 DEF HasLock, HasLockThen
      <4> QED
        BY <4>2, <4>3, <4>4, <4>5
    <3>2. CASE ~(requests[i].op \in {"acquire", "renew"} /\ requests[i].answer.yes)
      <4>1. lease'[c] = NoLease \/ lease'[c] = lease[c]
        BY <2>7, <3>2 DEF LeaseAfter
      <4> QED
        BY <1>2, <2>1, <2>3, <2>4, <4>1 DEF NoLease, HasLock, HasLockThen, GaveUpKept
    <3> QED
      BY <3>1, <3>2
  <2>9. \A d \in Clients : \/ lease'[d].left = 0
                           \/ HasLockThen(d, lease'[d].token, lease'[d].left)
                           \/ GaveUpThen(d)
    BY <1>2, <2>1, <2>3, <2>7, <2>8 DEF GaveUpKept, HasLock, HasLockThen
  <2> QED
    BY <1>3, <2>5, <2>6, <2>9
<1>6. ASSUME NEW i \in Calls, Fails(i) \/ Parks(i) \/ Drops(i) PROVE Leases'
  <2>1. UNCHANGED <<job, lock, lease>>
    BY <1>6 DEF Fails, TimesOut, Cut, Fail, Parks, Drops, cache
  <2>2. /\ OthersStay(i) /\ SameCall(requests'[i], requests[i])
        /\ requests'[i].failed = "no" => requests[i].failed = "no"
        /\ requests'[i].place \in Travelling => requests[i].place \in Travelling
        /\ requests'[i].failed # "no" \/ requests'[i].place # "coming"
    <3>1. CASE Fails(i)
      <4>1. PICK why \in {"timeout", "cut"} : Fail(i, why)
        BY <3>1 DEF Fails, TimesOut, Cut
      <4> QED
        BY <1>1, <2>1, <4>1, FailEffect DEF Travelling
    <3>2. CASE Parks(i)
      BY <1>1, <3>2, ParkEffect DEF Parks, Travelling
    <3>3. CASE Drops(i)
      BY <1>1, <3>3, DropEffect DEF Travelling
    <3> QED
      BY <1>6, <3>1, <3>2, <3>3
  <2>3. GaveUpKept
    BY <2>2 DEF GaveUpKept, GaveUp, GaveUpThen, OthersStay, SameCall
  <2>4. ComingIsHeld'
    BY <1>1, <2>1, <2>2, <2>3 DEF ComingIsHeld, GaveUpKept, GaveUp, GaveUpThen, HasLock, HasLockThen, InFlight, OthersStay, Travelling
  <2>5. ReleasingHasNone'
    BY <1>1, <2>1, <2>2 DEF ReleasingHasNone, InFlight, OthersStay, SameCall
  <2> QED
    BY <1>2, <1>3, <2>1, <2>3, <2>4, <2>5 DEF GaveUpKept, HasLock, HasLockThen
<1>7. ASSUME NEW i \in Calls, Gives(i) PROVE Leases'
  <2>1. /\ UNCHANGED <<job, lease>> /\ requests[i].place \in {"going", "parked"}
        /\ requests[i].place \in Travelling
    BY <1>7, GiveEffect DEF Travelling
  <2>2. PICK answer \in Answers :
            /\ Reply(i, answer)
            /\ requests[i].op \in {"acquire", "renew"} /\ answer.yes =>
                  HasLockThen(requests[i].from, answer.token, Ttl)
    BY <1>7, GiveEffect, AnsweredHeld
  <2>3. /\ OthersStay(i) /\ SameCall(requests'[i], requests[i])
        /\ requests'[i].failed = requests[i].failed
        /\ requests'[i].answer = answer
        /\ requests[i].failed = "no" => requests'[i].waited = requests[i].waited
        /\ requests[i].failed # "no" => requests'[i].place = "gone"
    BY <1>1, <2>1, <2>2, ReplyEffect
  <2>4. GaveUpKept
    BY <2>3 DEF GaveUpKept, GaveUp, GaveUpThen, OthersStay, SameCall
  <2>5. ASSUME NEW j \in Calls \ {i}, InFlight(j), requests[j].place = "coming",
               requests[j].answer.yes, requests[j].op \in {"acquire", "renew"}
        PROVE  \/ requests[j].waited >= Ttl
               \/ HasLockThen(requests[j].from, requests[j].answer.token, Ttl - requests[j].waited)
               \/ GaveUpThen(requests[j].from)
    <3> DEFINE c == requests[j].from
               left == Ttl - requests[j].waited
    <3>1. c \in Clients
      BY <1>1, <2>5 DEF InFlight
    <3>2. CASE requests[j].waited >= Ttl \/ GaveUp(c)
      BY <2>4, <3>1, <3>2 DEF GaveUpKept
    <3>3. CASE requests[i].op = "release" /\ requests[i].from = c
      <4>1. requests[i].failed # "no"
        BY <1>1, <2>1, <2>5, <3>1, <3>3 DEF OneEach, InFlight
      <4> QED
        BY <2>4, <3>1, <3>3, <4>1 DEF GaveUp, GaveUpThen, GaveUpKept
    <3>4. CASE /\ ~(requests[j].waited >= Ttl \/ GaveUp(c))
               /\ ~(requests[i].op = "release" /\ requests[i].from = c)
      <4>1. left \in 0 .. Ttl
        BY <1>1, <3>4
      <4>2. HasLock(c, requests[j].answer.token, left)
        BY <1>1, <2>5, <3>4 DEF ComingIsHeld
      <4> HIDE DEF c, left
      <4>3. HasLockThen(c, requests[j].answer.token, left)
        BY <1>7, <3>1, <3>4, <4>1, <4>2, HeldStep
      <4> QED
        BY <4>3 DEF c, left
    <3> QED
      BY <3>2, <3>3, <3>4
  <2>6. ComingIsHeld'
    <3> SUFFICES ASSUME NEW j \in Calls, InFlight(j)', requests'[j].place = "coming",
                        requests'[j].answer.yes, requests'[j].op \in {"acquire", "renew"}
                 PROVE  \/ requests'[j].waited >= Ttl
                        \/ HasLockThen(requests'[j].from, requests'[j].answer.token, Ttl - requests'[j].waited)
                        \/ GaveUpThen(requests'[j].from)
      BY DEF ComingIsHeld, HasLock, HasLockThen, GaveUp, GaveUpThen
    <3>1. CASE j # i
      <4>1. requests'[j] = requests[j]
        BY <2>3, <3>1 DEF OthersStay
      <4>2. InFlight(j)
        BY <4>1 DEF InFlight
      <4> QED
        BY <2>5, <3>1, <4>1, <4>2
    <3>2. CASE j = i
      <4>1. HasLockThen(requests[i].from, answer.token, Ttl)
        BY <2>2, <2>3, <3>2 DEF SameCall
      <4>2. /\ lock'.left \in Nat /\ requests'[i].waited \in Nat
            /\ requests'[i].from = requests[i].from /\ requests'[i].answer = answer
        BY <1>1, <1>7, <2>3, <3>2, GiveEffect DEF LockTyped, SameCall, InFlight
      <4> QED
        BY <1>1, <3>2, <4>1, <4>2 DEF HasLockThen
    <3> QED
      BY <3>1, <3>2
  <2>7. ReleasingHasNone'
    BY <1>1, <2>1, <2>3 DEF ReleasingHasNone, InFlight, OthersStay, SameCall
  <2>8. ASSUME NEW c \in Clients
        PROVE  \/ lease'[c].left = 0
               \/ HasLockThen(c, lease'[c].token, lease'[c].left)
               \/ GaveUpThen(c)
    <3>1. CASE lease[c].left = 0 \/ GaveUp(c)
      BY <2>1, <2>4, <3>1 DEF GaveUpKept
    <3>2. CASE requests[i].op = "release" /\ requests[i].from = c
      <4>1. InFlight(i) \/ GaveUp(c)
        BY <2>1, <3>2 DEF InFlight, GaveUp, GaveUpThen
      <4> QED
        BY <1>1, <3>1, <3>2, <4>1 DEF ReleasingHasNone
    <3>3. CASE /\ ~(lease[c].left = 0 \/ GaveUp(c))
               /\ ~(requests[i].op = "release" /\ requests[i].from = c)
      <4>1. HasLock(c, lease[c].token, lease[c].left) /\ lease[c].left \in 0 .. Ttl
        BY <1>1, <1>2, <3>3 DEF LeaseTyped
      <4>2. lock'.holder = c /\ lock'.token = lease[c].token /\ lock'.left >= lease[c].left
        BY <1>7, <3>3, <4>1, HeldStep DEF HasLock, HasLockThen
      <4> QED
        BY <2>1, <4>2 DEF HasLock, HasLockThen
    <3> QED
      BY <3>1, <3>2, <3>3
  <2> QED
    BY <1>3, <2>6, <2>7, <2>8
<1>8. ASSUME Tick PROVE Leases'
  <2>1. /\ lock' = IF lock.left <= 1 THEN Free ELSE [lock EXCEPT !.left = @ - 1]
        /\ lease' = [c \in Clients |-> IF lease[c].left <= 1 THEN NoLease
                                       ELSE [lease[c] EXCEPT !.left = @ - 1]]
    BY <1>8 DEF Tick
  <2>2. \A i \in Calls :
              /\ SameCall(requests'[i], requests[i])
              /\ requests'[i].place = requests[i].place
              /\ requests'[i].failed = requests[i].failed
              /\ requests'[i].answer = requests[i].answer
              /\ InFlight(i) => requests'[i].waited = requests[i].waited + 1
    BY <1>1, <1>8, TickEffect
  <2>3. GaveUpKept
    BY <2>2 DEF GaveUpKept, GaveUp, GaveUpThen, SameCall
  <2>4. ASSUME NEW c, NEW token, NEW left \in Int, left > 1, HasLock(c, token, left)
        PROVE  lock'.holder = c /\ lock'.token = token /\ lock'.left >= left - 1
    <3>1. /\ lock \in [holder : Clients \cup {Nobody}, token : Tokens, left : 0 .. Ttl]
          /\ lock.left \in Nat
      BY <1>1 DEF TypeOK
    <3>2. ~(lock.left <= 1)
      BY <2>4, <3>1 DEF HasLock, HasLockThen
    <3> QED
      BY <2>1, <2>4, <3>1, <3>2 DEF HasLock, HasLockThen
  <2>5. ComingIsHeld'
    <3> SUFFICES ASSUME NEW i \in Calls, InFlight(i)', requests'[i].place = "coming",
                        requests'[i].answer.yes, requests'[i].op \in {"acquire", "renew"}
                 PROVE  \/ requests'[i].waited >= Ttl
                        \/ HasLockThen(requests[i].from, requests[i].answer.token, Ttl - requests'[i].waited)
                        \/ GaveUpThen(requests[i].from)
      BY <2>2 DEF ComingIsHeld, HasLock, HasLockThen, GaveUp, GaveUpThen, SameCall
    <3>1. /\ InFlight(i) /\ requests[i].place = "coming"
          /\ requests[i].answer.yes /\ requests[i].op \in {"acquire", "renew"}
          /\ requests'[i].waited = requests[i].waited + 1
          /\ requests'[i].from = requests[i].from
          /\ requests'[i].answer = requests[i].answer
          /\ requests[i].from \in Clients
      BY <1>1, <2>2 DEF InFlight, SameCall
    <3>2. CASE requests[i].waited + 1 >= Ttl
      BY <3>1, <3>2
    <3>3. CASE GaveUp(requests[i].from)
      BY <2>3, <3>1, <3>3 DEF GaveUpKept, GaveUp, GaveUpThen
    <3>4. CASE ~(requests[i].waited + 1 >= Ttl) /\ ~GaveUp(requests[i].from)
      <4> DEFINE left == Ttl - requests[i].waited
      <4>1. left \in Int /\ left > 1 /\ HasLock(requests[i].from, requests[i].answer.token, left)
            /\ Ttl - (requests[i].waited + 1) = left - 1
        BY <1>1, <3>1, <3>4 DEF ComingIsHeld
      <4> HIDE DEF left
      <4>2. /\ lock'.holder = requests[i].from /\ lock'.token = requests[i].answer.token
            /\ lock'.left >= left - 1
        BY <2>4, <4>1
      <4> QED
        BY <3>1, <4>1, <4>2 DEF HasLock, HasLockThen
    <3> QED
      BY <3>2, <3>3, <3>4
  <2>6. \A c \in Clients : \/ lease'[c].left = 0 /\ lease[c].left <= 1
                           \/ /\ lease[c].left > 1 /\ lease'[c].token = lease[c].token
                              /\ lease'[c].left = lease[c].left - 1
    BY <1>1, <2>1 DEF LeaseTyped, NoLease
  <2>7. ReleasingHasNone'
    <3> SUFFICES ASSUME NEW i \in Calls, InFlight(i)', requests'[i].op = "release"
                 PROVE  lease'[requests'[i].from].left = 0
      BY DEF ReleasingHasNone
    <3>1. /\ InFlight(i) /\ requests[i].op = "release" /\ requests'[i].from = requests[i].from
          /\ requests[i].from \in Clients
      BY <1>1, <2>2 DEF InFlight, SameCall
    <3>2. lease[requests[i].from].left = 0
      BY <1>1, <3>1 DEF ReleasingHasNone
    <3> QED
      BY <2>6, <3>1, <3>2
  <2>8. ASSUME NEW c \in Clients
        PROVE  \/ lease'[c].left = 0
               \/ HasLockThen(c, lease'[c].token, lease'[c].left)
               \/ GaveUpThen(c)
    <3>1. CASE lease[c].left <= 1
      BY <1>1, <2>6, <3>1 DEF LeaseTyped
    <3>2. CASE GaveUp(c)
      BY <2>3, <3>2 DEF GaveUpKept
    <3>3. CASE ~(lease[c].left <= 1) /\ ~GaveUp(c)
      <4>1. lease[c].left \in Int /\ lease[c].left > 1 /\ HasLock(c, lease[c].token, lease[c].left)
        BY <1>1, <1>2, <3>3 DEF LeaseTyped
      <4>2. /\ lock'.holder = c /\ lock'.token = lease[c].token
            /\ lock'.left >= lease[c].left - 1
        BY <2>4, <4>1
      <4>3. lease'[c].token = lease[c].token /\ lease'[c].left = lease[c].left - 1
        BY <2>6, <3>3, <4>1
      <4> QED
        BY <4>2, <4>3 DEF HasLock, HasLockThen
    <3> QED
      BY <3>1, <3>2, <3>3
  <2> QED
    BY <1>3, <2>5, <2>7, <2>8
<1>9. ASSUME UNCHANGED <<job, requests, lock, issued, lease>> PROVE Leases'
  BY <1>9, LeaseHeldBy DEF Leases, ComingIsHeld, ReleasingHasNone, LeaseIsHeld, HasLock, HasLockThen, GaveUp, GaveUpThen, InFlight
<1> QED
  BY <1>4, <1>5, <1>6, <1>7, <1>8, <1>9, StepKinds

-----------------------------------------------------------------------------
LEMMA InitInv == Init => IInv
<1> SUFFICES ASSUME Init PROVE IInv
  OBVIOUS
<1>1. /\ Ttl \in Nat /\ MaxCalls \in Nat /\ MaxElements \in Nat /\ 0 \in Tokens
      /\ IsFiniteSet(Calls)
  BY FS_Interval, CacheClientsAssumption DEF Tokens, Calls
<1>2. /\ Unasked.place = "unasked" /\ Unasked.op = "none" /\ Unasked.failed = "no"
      /\ Unasked.answer = NoAnswer /\ Unasked.told = NoAnswer /\ Unasked.floor = 0
      /\ NoAnswer.token = 0 /\ ~NoAnswer.yes
  BY DEF Unasked, NoAnswer
<1>3. \A i \in Calls : requests[i] = Unasked /\ ~InFlight(i)
  BY <1>2 DEF Init, InFlight, Travelling
<1>4. TypeOK
  <2>1. Unasked \in Request
    BY Typed, CacheClientsAssumption DEF Unasked, Request, Travelling, Bodies
  <2>2. requests \in [Calls -> Request] /\ OneEach
    BY <1>3, <2>1 DEF Init, OneEach
  <2>3. LockTyped /\ LeaseTyped
    BY <1>1 DEF Init, LockTyped, LeaseTyped, NoLease
  <2> QED
    BY <1>1, <2>2, <2>3, TypeParts DEF Init
<1>5. EachRequest
  BY <1>2, <1>3 DEF EachRequest, BodyAsAsked, ToldAsAnswered, WaitedAtMost, TimesOutLate, Travelling
<1>6. Fencing
  <2>1. Cardinality(Served) \in Nat
    BY <1>1, FS_Subset, FS_CardinalityType DEF Served
  <2> QED
    BY <1>2, <1>3, <2>1 DEF Init, Fencing, TokensCounted, TokensBelow, TokensFenced, Got
<1>7. Leases
  BY <1>1, <1>3 DEF Init, Leases, ComingIsHeld, ReleasingHasNone, LeaseIsHeld, NoLease
<1> QED
  BY <1>4, <1>5, <1>6, <1>7 DEF IInv, EachRequest, Fencing, Leases

LEMMA StepInv == IInv /\ [Next]_vars => IInv'
<1> SUFFICES ASSUME IInv, [Next]_vars PROVE IInv'
  OBVIOUS
<1>1. Known /\ EachRequest /\ Fencing /\ Leases
  BY DEF IInv, Known, EachRequest, Fencing, Leases
<1>2. TypeOK /\ TokensCounted
  BY DEF IInv
<1>3. TypeOK'
  BY <1>1, <1>2, TypeStep
<1>4. EachRequest'
  BY <1>1, <1>2, EachRequestStep
<1>5. Fencing'
  BY <1>1, <1>3, FencingStep
<1>6. Leases'
  BY <1>1, <1>2, LeasesStep
<1> QED
  BY <1>3, <1>4, <1>5, <1>6 DEF IInv, EachRequest, Fencing, Leases

LEMMA Invariant == Spec => []IInv
BY InitInv, StepInv, PTL DEF Spec

\* Every variable keeps its type; a connection has one call at a time, and the
\* server has no more tokens to give than there are calls.
THEOREM CacheTypes == Spec => []TypeOK
<1>1. IInv => TypeOK
  BY DEF IInv
<1> QED
  BY <1>1, Invariant, PTL

\* A blocking pop whose wait, with both ways, ends before the read timeout
\* never loses its element but to a cut (cache.rs:1884-1925).
THEOREM CacheNothingLost == Spec => []NothingLost
<1>1. IInv => NothingLost
  BY DEF IInv, TimesOutLate, NothingLost
<1> QED
  BY <1>1, Invariant, PTL

\* Two owners are never told one token, and a later owner is told a higher one
\* (cache.rs:308-320, 697-704).
THEOREM CacheTokensFence == Spec => []TokensFence
<1>1. IInv => TokensFence
  <2> SUFFICES ASSUME IInv PROVE TokensFence
    OBVIOUS
  <2>1. \A i \in Calls : requests[i].told.yes => requests[i].told = requests[i].answer
    BY DEF IInv, ToldAsAnswered, NoAnswer
  <2>2. \A i \in Calls : requests[i].floor \in Nat /\ requests[i].answer.token \in Nat
    BY RequestsTyped DEF IInv, Request, Answers, Tokens
  <2> QED
    BY <2>1, <2>2 DEF IInv, TokensBelow, TokensFenced, Got, TokensFence
<1> QED
  BY <1>1, Invariant, PTL

\* A lease a caller counts on is the lock's, with its token and for as long at
\* least (cache.rs:1664-1700).
THEOREM CacheLeaseIsHeld == Spec => []LeaseIsHeld
<1>1. IInv => LeaseIsHeld
  BY DEF IInv
<1> QED
  BY <1>1, Invariant, PTL

-----------------------------------------------------------------------------
(* The promise of the lock.                                                 *)

Grants == {<<requests[i].from, requests[i].answer.token>> : i \in {j \in Calls : Got(j)}}
Tolds == {<<requests[i].from, requests[i].told.token>> : i \in {j \in Calls : TokenTold(j)}}
Counting == {c \in Clients : lease[c].left > 0 /\ ~GaveUp(c)}

Answered(r) == r.place \notin {"unasked", "going", "parked"}

\* Whoever has the lock, and whoever is answered that it has, was granted that
\* token by an answer of its own; and a request has no answer before its turn.
TokensGranted ==
    /\ lock.holder # Nobody => <<lock.holder, issued>> \in Grants
    /\ \A i \in Calls :
          /\ requests[i].op \in {"acquire", "renew"} /\ requests[i].answer.yes =>
                <<requests[i].from, requests[i].answer.token>> \in Grants
          /\ ~Answered(requests[i]) => requests[i].answer = NoAnswer

\* Only who has the lock counts on it.
LEMMA CountingHolds ==
    ASSUME LeaseIsHeld
    PROVE  /\ \A c \in Counting : c = lock.holder /\ c \in Clients /\ c # Nobody
           /\ \A c \in Counting : lease[c].token = lock.token
BY CacheClientsAssumption DEF LeaseIsHeld, Counting

\* A step that grants and tells nothing lets go of the lock, or has its holder
\* stop counting on it, or is not seen.
LEMMA Unseen ==
    ASSUME LeaseIsHeld, LeaseIsHeld', issued' = issued, Grants' = Grants, Tolds' = Tolds,
           lock'.holder \in {Nobody, lock.holder}, Counting' \subseteq Counting
    PROVE  [Promise!Next]_Promise!vars
<1>1. \A c \in Counting : c = lock.holder /\ c \in Clients /\ c # Nobody
  BY CountingHolds
<1>2. \A c \in Counting' : c = lock'.holder /\ c # Nobody
  BY CacheClientsAssumption DEF LeaseIsHeld, Counting
<1>3. CASE lock'.holder = Nobody
  <2>1. Counting' = {}
    BY <1>2, <1>3
  <2>2. Promise!Free
    BY <1>3, <2>1 DEF Promise!Free, Grants, Tolds, Counting
  <2> QED
    BY <2>2 DEF Promise!Next
<1>4. CASE lock'.holder = lock.holder /\ Counting' = Counting
  BY <1>4 DEF Promise!vars, Grants, Tolds, Counting
<1>5. CASE lock'.holder = lock.holder /\ Counting' # Counting
  <2>1. PICK c \in Counting : c \notin Counting'
    BY <1>5
  <2>2. c \in Clients /\ Counting' = Counting \ {c}
    BY <1>1, <2>1
  <2>3. Promise!Stop(c)
    BY <1>5, <2>2 DEF Promise!Stop, Grants, Tolds, Counting
  <2> QED
    BY <2>2, <2>3 DEF Promise!Next
<1> QED
  BY <1>3, <1>4, <1>5

\* What every step but an answer and the reading of one does to the requests:
\* grants and what was told stay, and what failed stays failed.
SamePairs == \A j \in Calls :
    /\ SameCall(requests'[j], requests[j])
    /\ requests'[j].answer = requests[j].answer /\ requests'[j].told = requests[j].told
    /\ Answered(requests[j]) => Answered(requests'[j])
    /\ requests[j].failed # "no" => requests'[j].failed # "no"

LEMMA PairsKept ==
    ASSUME SamePairs
    PROVE  Grants' = Grants /\ Tolds' = Tolds /\ GaveUpKept
<1>1. \A j \in Calls : (Got(j)' <=> Got(j)) /\ (TokenTold(j)' <=> TokenTold(j))
  BY DEF SamePairs, SameCall, Got, TokenTold
<1>2. Grants' = Grants
  BY <1>1 DEF Grants, SamePairs, SameCall
<1>3. Tolds' = Tolds
  BY <1>1 DEF Tolds, SamePairs, SameCall
<1>4. GaveUpKept
  BY DEF GaveUpKept, GaveUp, GaveUpThen, SamePairs, SameCall
<1> QED
  BY <1>2, <1>3, <1>4

LEMMA CountingKept ==
    ASSUME GaveUpKept, \A c \in Clients : lease'[c].left > 0 => lease[c].left > 0
    PROVE  Counting' \subseteq Counting
BY DEF Counting, GaveUp, GaveUpKept, GaveUpThen

LEMMA QuietStep ==
    ASSUME LeaseIsHeld, LeaseIsHeld', TokensGranted, SamePairs, issued' = issued,
           lock'.holder \in {Nobody, lock.holder},
           \A c \in Clients : lease'[c].left > 0 => lease[c].left > 0
    PROVE  TokensGranted' /\ [Promise!Next]_Promise!vars
<1>1. Grants' = Grants /\ Tolds' = Tolds /\ Counting' \subseteq Counting
  BY PairsKept, CountingKept
<1>2. TokensGranted'
  BY <1>1 DEF TokensGranted, SamePairs, SameCall
<1> QED
  BY <1>1, <1>2, Unseen

\* The call that is asked has no pair yet.
LEMMA AskIsQuiet ==
    ASSUME IInv, LeaseIsHeld', TokensGranted, NEW c \in Clients, Asks(c)
    PROVE  TokensGranted' /\ [Promise!Next]_Promise!vars
<1>1. UNCHANGED <<lock, issued>>
  BY AskEffect DEF IInv
<1>2. PICK i \in Calls :
          /\ requests[i].place = "unasked" /\ OthersStay(i)
          /\ requests'[i].place = "going" /\ requests'[i].failed = "no"
          /\ requests'[i].answer = NoAnswer /\ requests'[i].told = NoAnswer
          /\ lease' = IF requests'[i].op = "release" THEN [lease EXCEPT ![c] = NoLease] ELSE lease
  BY AskEffect DEF IInv
<1>3. /\ requests[i].op = "none" /\ requests[i].told = NoAnswer /\ ~NoAnswer.yes
      /\ lease \in [Clients -> [token : Tokens, left : 0 .. Ttl]]
  BY <1>2 DEF IInv, ToldAsAnswered, NoAnswer, TypeOK
<1>4. \A j \in Calls : (Got(j)' <=> Got(j)) /\ (TokenTold(j)' <=> TokenTold(j))
                        /\ (Got(j) \/ TokenTold(j) => j # i)
  BY <1>2, <1>3 DEF Got, TokenTold, OthersStay
<1>5. Grants' = Grants /\ Tolds' = Tolds
  BY <1>2, <1>4 DEF Grants, Tolds, OthersStay
<1>6. Counting' \subseteq Counting
  <2>1. GaveUpKept
    BY <1>2, <1>3 DEF GaveUpKept, GaveUp, GaveUpThen, OthersStay
  <2>2. \A d \in Clients : lease'[d].left > 0 => lease[d].left > 0
    BY <1>2, <1>3 DEF NoLease
  <2> QED
    BY <2>1, <2>2, CountingKept
<1>7. TokensGranted'
  BY <1>1, <1>2, <1>3, <1>5 DEF TokensGranted, OthersStay, Answered
<1> QED
  BY <1>1, <1>5, <1>6, <1>7, Unseen DEF IInv

\* The reading of an answer tells of a grant, or of none.
LEMMA ReadIsTell ==
    ASSUME IInv, LeaseIsHeld', TokensGranted, NEW i \in Calls, ReadReply(i)
    PROVE  TokensGranted' /\ [Promise!Next]_Promise!vars
<1> DEFINE c == requests[i].from
           t == requests[i].answer.token
           tells == requests[i].op \in {"acquire", "renew"} /\ requests[i].answer.yes
<1>1. /\ UNCHANGED <<lock, issued>>
      /\ lease' = [lease EXCEPT ![c] = LeaseAfter(requests[i])]
      /\ requests[i].place = "coming"
  BY DEF ReadReply, cache
<1>2. /\ OthersStay(i) /\ SameCall(requests'[i], requests[i])
      /\ requests'[i].failed = requests[i].failed
      /\ requests'[i].told = requests[i].answer /\ requests'[i].answer = requests[i].answer
      /\ requests'[i].place = "told"
  BY RequestsTyped, ReadEffect DEF IInv
<1>3. /\ c \in Clients /\ requests[i].told = NoAnswer /\ ~NoAnswer.yes
      /\ lease \in [Clients -> [token : Tokens, left : 0 .. Ttl]]
      /\ lock.token = issued
  BY <1>1 DEF IInv, BodyAsAsked, ToldAsAnswered, Travelling, NoAnswer, TypeOK, TokensBelow
<1>4. GaveUpKept /\ (\A d \in Clients : GaveUp(d)' => GaveUp(d))
  BY <1>2 DEF GaveUpKept, GaveUp, GaveUpThen, OthersStay, SameCall
<1>5. \A j \in Calls : Got(j)' <=> Got(j)
  BY <1>2 DEF Got, OthersStay, SameCall
<1>6. Grants' = Grants
  BY <1>2, <1>5 DEF Grants, OthersStay, SameCall
<1>7. TokensGranted'
  BY <1>1, <1>2, <1>6 DEF TokensGranted, OthersStay, SameCall, Answered
<1>8. \A j \in Calls : j # i => (TokenTold(j)' <=> TokenTold(j))
  BY <1>2 DEF TokenTold, OthersStay
<1>9. ~TokenTold(i) /\ (TokenTold(i)' <=> tells)
  BY <1>2, <1>3 DEF TokenTold, SameCall
<1>10. CASE tells
  <2>1. Tolds' = Tolds \cup {<<c, t>>}
    BY <1>2, <1>8, <1>9, <1>10 DEF Tolds, OthersStay, SameCall
  <2>2. <<c, t>> \in Grants
    BY <1>10 DEF TokensGranted
  <2>3. lease'[c].token = t /\ \A d \in Clients : d # c => lease'[d] = lease[d]
    BY <1>1, <1>3, <1>10 DEF LeaseAfter
  <2>4. \A d \in Clients : d # c => (d \in Counting' <=> d \in Counting)
    BY <1>4, <2>3 DEF Counting, GaveUpKept, GaveUp, GaveUpThen
  <2>5. c \in Counting' => lock.holder = c /\ issued = t
    BY <1>1, <1>3, <2>3 DEF LeaseIsHeld, Counting
  <2>6. Counting \subseteq Clients /\ Counting' \subseteq Clients
    BY DEF Counting
  <2>7. \/ Counting' = Counting \ {c}
        \/ Counting' = Counting \cup {c} /\ lock.holder = c /\ issued = t
    BY <1>3, <2>4, <2>5, <2>6
  <2>8. PICK grant \in Grants : grant = <<c, t>>
    BY <2>2
  <2>9. Promise!Tell(grant[1], grant[2])
    <3>1. grant[1] = c /\ grant[2] = t /\ <<grant[1], grant[2]>> \in Grants
          /\ Tolds' = Tolds \cup {<<grant[1], grant[2]>>}
      BY <2>1, <2>2, <2>8
    <3> QED
      BY <1>1, <1>6, <2>7, <3>1 DEF Promise!Tell, Grants, Tolds, Counting
  <2>10. Promise!Next
    BY <2>9 DEF Promise!Next, Grants
  <2> QED
    BY <1>7, <2>10
<1>11. CASE ~tells
  <2>1. Tolds' = Tolds
    BY <1>2, <1>8, <1>9, <1>11 DEF Tolds, OthersStay
  <2>2. LeaseAfter(requests[i]) \in {NoLease, lease[c]}
    BY <1>11 DEF LeaseAfter
  <2>3. \A d \in Clients : lease'[d].left > 0 => lease[d].left > 0
    BY <1>1, <1>3, <2>2 DEF NoLease
  <2> QED
    BY <1>1, <1>4, <1>6, <1>7, <2>1, <2>3, CountingKept, Unseen DEF IInv
<1> QED
  BY <1>10, <1>11

\* An answer of the server grants a free lock, or is not seen.
LEMMA GiveIsGrant ==
    ASSUME IInv, LeaseIsHeld', TokensGranted, NEW i \in Calls, Gives(i)
    PROVE  TokensGranted' /\ [Promise!Next]_Promise!vars
<1> DEFINE c == requests[i].from
<1>1. /\ Known /\ TokensCounted /\ TokensBelow /\ requests \in [Calls -> Request]
      /\ issued \in Nat
  BY RequestsTyped DEF IInv, Known, TypeOK, Tokens
<1>2. PICK answer \in Answers :
          /\ Reply(i, answer)
          /\ \/ /\ issued' = issued /\ lock'.holder \in {Nobody, lock.holder}
                /\ requests[i].op \in {"acquire", "renew"} /\ answer.yes =>
                      /\ answer.token = issued
                      /\ lock.holder = requests[i].from /\ lock.holder # Nobody
             \/ /\ issued' = issued + 1 /\ requests[i].op = "acquire"
                /\ answer = [yes |-> TRUE, token |-> issued']
                /\ lock.holder = Nobody /\ lock'.holder = requests[i].from
                /\ requests[i].from \in Clients
  BY <1>1, GiveTokens
<1>3. job' = job /\ lease' = lease /\ requests[i].place \in {"going", "parked"}
  BY <1>1, GiveEffect
<1>4. /\ OthersStay(i) /\ SameCall(requests'[i], requests[i])
      /\ requests'[i].failed = requests[i].failed /\ requests'[i].told = requests[i].told
      /\ requests'[i].answer = answer /\ requests'[i].place \in {"coming", "gone"}
  BY <1>1, <1>2, <1>3, ReplyEffect
<1>5. GaveUpKept /\ (\A d \in Clients : GaveUp(d)' => GaveUp(d))
  BY <1>4 DEF GaveUpKept, GaveUp, GaveUpThen, OthersStay, SameCall
<1>6. Counting' = Counting
  BY <1>3, <1>5 DEF Counting, GaveUpKept, GaveUp, GaveUpThen
<1>7. \A j \in Calls : TokenTold(j)' <=> TokenTold(j)
  BY <1>4 DEF TokenTold, OthersStay, SameCall
<1>8. Tolds' = Tolds
  BY <1>4, <1>7 DEF Tolds, OthersStay, SameCall
<1>9. ~Got(i) /\ (\A j \in Calls : j # i => (Got(j)' <=> Got(j)))
  <2>1. requests[i].answer = NoAnswer /\ ~NoAnswer.yes
    BY <1>3 DEF TokensGranted, Answered, NoAnswer
  <2> QED
    BY <1>4, <2>1 DEF Got, OthersStay
<1>10. Got(i)' <=> requests[i].op = "acquire" /\ answer.yes
  BY <1>4 DEF Got, SameCall
<1>11. Grants' = IF requests[i].op = "acquire" /\ answer.yes
                THEN Grants \cup {<<c, answer.token>>} ELSE Grants
  BY <1>4, <1>9, <1>10 DEF Grants, OthersStay, SameCall
<1>12. Grants \subseteq Grants'
  BY <1>11
<1>13. TokensGranted'
  <2>1. lock'.holder # Nobody => <<lock'.holder, issued'>> \in Grants'
    BY <1>2, <1>11, <1>12 DEF TokensGranted
  <2>2. requests[i].op \in {"acquire", "renew"} /\ answer.yes => <<c, answer.token>> \in Grants'
    BY <1>2, <1>11, <1>12 DEF TokensGranted
  <2> QED
    BY <1>4, <1>12, <2>1, <2>2 DEF TokensGranted, OthersStay, SameCall, Answered
<1>14. CASE issued' = issued
  <2>1. Grants' = Grants
    BY <1>1, <1>2, <1>11, <1>14 DEF TokensGranted
  <2> QED
    BY <1>1, <1>2, <1>6, <1>8, <1>13, <1>14, <2>1, Unseen DEF IInv
<1>15. CASE issued' # issued
  <2>1. Grants' = Grants \cup {<<c, issued + 1>>}
    BY <1>2, <1>11, <1>15
  <2>2. PICK d \in Clients : d = c
    BY <1>2, <1>15
  <2>3. Promise!Grant(d)
    BY <1>2, <1>6, <1>8, <1>15, <2>1, <2>2 DEF Promise!Grant, Grants, Tolds, Counting
  <2>4. Promise!Next
    BY <2>3 DEF Promise!Next
  <2> QED
    BY <1>13, <2>4
<1> QED
  BY <1>14, <1>15

LEMMA FencingLockStep ==
    ASSUME IInv, IInv', TokensGranted, [Next]_vars
    PROVE  TokensGranted' /\ [Promise!Next]_Promise!vars
<1>1. /\ LeaseIsHeld /\ LeaseIsHeld' /\ requests \in [Calls -> Request]
      /\ lock \in [holder : Clients \cup {Nobody}, token : Tokens, left : 0 .. Ttl]
      /\ lease \in [Clients -> [token : Tokens, left : 0 .. Ttl]] /\ Ttl \in Nat
  BY RequestsTyped, CacheClientsAssumption DEF IInv, TypeOK
<1>2. ASSUME NEW i \in Calls, Fails(i) \/ Parks(i) \/ Drops(i)
      PROVE  TokensGranted' /\ [Promise!Next]_Promise!vars
  <2>1. UNCHANGED <<job, lock, issued, lease>>
    BY <1>2 DEF Fails, TimesOut, Cut, Fail, Parks, Drops, cache
  <2>2. /\ OthersStay(i) /\ SameCall(requests'[i], requests[i])
        /\ requests'[i].answer = requests[i].answer /\ requests'[i].told = requests[i].told
        /\ Answered(requests[i]) => Answered(requests'[i])
        /\ requests[i].failed # "no" => requests'[i].failed # "no"
    <3>1. CASE Fails(i)
      <4>1. PICK why \in {"timeout", "cut"} : Fail(i, why)
        BY <3>1 DEF Fails, TimesOut, Cut
      <4> QED
        BY <1>1, <2>1, <4>1, FailEffect DEF Answered
    <3>2. CASE Parks(i)
      BY <1>1, <3>2, ParkEffect DEF Parks, Answered
    <3>3. CASE Drops(i)
      BY <1>1, <3>3, DropEffect DEF Answered
    <3> QED
      BY <1>2, <3>1, <3>2, <3>3
  <2>3. SamePairs
    BY <2>2 DEF SamePairs, OthersStay, SameCall
  <2> QED
    BY <1>1, <2>1, <2>3, QuietStep
<1>3. CASE Tick
  <2>1. SamePairs
    BY <1>1, <1>3, TickEffect DEF SamePairs, Answered
  <2>2. /\ issued' = issued
        /\ lock' = IF lock.left <= 1 THEN Free ELSE [lock EXCEPT !.left = @ - 1]
        /\ lease' = [c \in Clients |-> IF lease[c].left <= 1 THEN NoLease
                                       ELSE [lease[c] EXCEPT !.left = @ - 1]]
    BY <1>3 DEF Tick
  <2>3. lock'.holder \in {Nobody, lock.holder}
    BY <1>1, <2>2 DEF Free
  <2>4. \A c \in Clients : lease'[c].left > 0 => lease[c].left > 0
    BY <1>1, <2>2 DEF NoLease
  <2> QED
    BY <1>1, <2>1, <2>2, <2>3, <2>4, QuietStep
<1>4. CASE UNCHANGED <<job, requests, lock, issued, lease>>
  <2>1. SamePairs
    BY <1>4 DEF SamePairs, SameCall
  <2> QED
    BY <1>1, <1>4, <2>1, QuietStep
<1> QED
  BY <1>1, <1>2, <1>3, <1>4, StepKinds, AskIsQuiet, ReadIsTell, GiveIsGrant

LEMMA GrantsInvariant == Spec => []TokensGranted
<1>1. Init => TokensGranted
  <2> SUFFICES ASSUME Init PROVE TokensGranted
    OBVIOUS
  <2>1. /\ \A i \in Calls : requests[i].op = "none" /\ requests[i].answer = NoAnswer
        /\ lock.holder = Nobody
    BY DEF Init, Unasked
  <2> QED
    BY <2>1 DEF TokensGranted
<1>2. IInv /\ IInv' /\ TokensGranted /\ [Next]_vars => TokensGranted'
  BY FencingLockStep
<1> QED
  BY <1>1, <1>2, Invariant, PTL DEF Spec

\* With leases counted by each caller, and answers and requests that come late,
\* more than once, or never, the cache's lock is a fencing lock: grants have
\* rising tokens, callers are told of grants of their own only, and who counts
\* on the lock has it, with the newest token (cache.rs:308-320, 1664-1724).
THEOREM CacheImplementsFencing == Spec => ImplementsFencing
<1>1. Init => Promise!Init
  <2> SUFFICES ASSUME Init PROVE Promise!Init
    OBVIOUS
  <2>1. \A i \in Calls : ~Got(i) /\ ~TokenTold(i)
    BY DEF Init, Got, TokenTold, Unasked
  <2>2. \A c \in Clients : lease[c].left = 0
    BY DEF Init, NoLease
  <2>3. lock.holder = Nobody /\ issued = 0
    BY DEF Init
  <2> QED
    BY <2>1, <2>2, <2>3 DEF Promise!Init
<1>2. IInv /\ IInv' /\ TokensGranted /\ [Next]_vars => [Promise!Next]_Promise!vars
  BY FencingLockStep
<1> QED
  BY <1>1, <1>2, Invariant, GrantsInvariant, PTL DEF Spec, ImplementsFencing, Promise!Spec
=============================================================================
