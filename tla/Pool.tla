-------------------------------- MODULE Pool --------------------------------
(****************************************************************************)
(* The bounded connection pool of src/pool.rs.                              *)
(*                                                                          *)
(* Every critical section under Inner.state's mutex is one action; what a   *)
(* thread does after it unlocks (dialling, running the closure, closing a   *)
(* socket, notifying) is a separate action, so other threads interleave.    *)
(* The condvar `free` is the set of threads whose pc is "waiting".          *)
(*                                                                          *)
(* What happens on a connection while it is lent, the rollback loop of      *)
(* Pool::run included, is here only its verdict: the `broken` flag handed   *)
(* to release, which SessionTxn computes.                                   *)
(****************************************************************************)
EXTENDS Integers, Sequences, FiniteSets

CONSTANTS
    Threads,    \* callers sharing the pool
    Conns,      \* identities of connections; a closed one may be dialled anew
    NoConn,     \* "this thread holds no connection"
    Size,       \* Inner.size
    MayPanic    \* whether a closure may unwind

ASSUME PoolAssumption ==
    /\ IsFiniteSet(Threads)
    /\ Size \in Nat \ {0}
    /\ NoConn \notin Conns
    /\ MayPanic \in BOOLEAN

VARIABLES
    pc,         \* where each thread is, in with_connection or close
    deadline,   \* the deadline of a thread's call: none, ahead or passed
    idle,       \* State.idle, a stack
    lent,       \* State.lent
    closed,     \* State.closed
    holds,      \* the Client each thread owns
    taken,      \* what a thread in Pool::close took out of idle
    sockets,    \* connections whose socket is open
    leaked      \* history: slots a panic never gave back

vars == <<pc, deadline, idle, lent, closed, holds, taken, sockets, leaked>>

Locations == {"out", "acquire", "waiting", "timedOut", "dialing", "working",
              "retiring", "notifying", "closing"}

TypeOK ==
    /\ pc \in [Threads -> Locations]
    /\ deadline \in [Threads -> {"none", "ahead", "passed"}]
    /\ idle \in Seq(Conns)
    /\ lent \in Nat
    /\ closed \in BOOLEAN
    /\ holds \in [Threads -> Conns \cup {NoConn}]
    /\ taken \in [Threads -> Seq(Conns)]
    /\ sockets \subseteq Conns
    /\ leaked \in Nat

Init ==
    /\ pc = [t \in Threads |-> "out"]
    /\ deadline = [t \in Threads |-> "none"]
    /\ idle = <<>>
    /\ lent = 0
    /\ closed = FALSE
    /\ holds = [t \in Threads |-> NoConn]
    /\ taken = [t \in Threads |-> <<>>]
    /\ sockets = {}
    /\ leaked = 0

At(loc) == {t \in Threads : pc[t] = loc}
Go(t, from, to) == pc[t] = from /\ pc' = [pc EXCEPT ![t] = to]

\* Condvar::notify_one, by a thread that goes on to `to`: a waiter, if there
\* is one, returns from wait() and is back at the head of acquire's loop.
NotifyOne(t, from, to) ==
    /\ pc[t] = from
    /\ \/ /\ At("waiting") = {}
          /\ pc' = [pc EXCEPT ![t] = to]
       \/ \E w \in At("waiting") :
             pc' = [pc EXCEPT ![t] = to, ![w] = "acquire"]

-----------------------------------------------------------------------------
(* Acquiring.                                                               *)

Call(t) ==
    /\ Go(t, "out", "acquire")
    /\ \E d \in {"none", "ahead"} : deadline' = [deadline EXCEPT ![t] = d]
    /\ UNCHANGED <<idle, lent, closed, holds, taken, sockets, leaked>>

DeadlinePasses(t) ==
    /\ pc[t] \in {"acquire", "waiting"}
    /\ deadline[t] = "ahead"
    /\ deadline' = [deadline EXCEPT ![t] = "passed"]
    /\ UNCHANGED <<pc, idle, lent, closed, holds, taken, sockets, leaked>>

\* No connection to pop and no slot to dial in.
Full == idle = <<>> /\ lent >= Size

\* Inside the mutex at the head of the loop.  A timed-out waiter that still
\* finds the pool full has already returned (GiveUp).
AtHead(t) == pc[t] = "acquire" \/ (pc[t] = "timedOut" /\ ~Full)

Leave(t, loc) == pc' = [pc EXCEPT ![t] = loc]

RefuseClosed(t) ==
    /\ AtHead(t)
    /\ closed
    /\ Leave(t, "out")
    /\ UNCHANGED <<deadline, idle, lent, closed, holds, taken, sockets, leaked>>

\* Mutant: hands out the top of the stack and leaves it there.
TakeIdle_Peeks(t) ==
    /\ AtHead(t) /\ ~closed /\ idle # <<>>
    /\ holds' = [holds EXCEPT ![t] = idle[Len(idle)]]
    /\ lent' = lent + 1
    /\ Leave(t, "working")
    /\ UNCHANGED <<deadline, idle, closed, taken, sockets, leaked>>

TakeIdle(t) ==
    /\ AtHead(t)
    /\ ~closed
    /\ idle # <<>>
    /\ holds' = [holds EXCEPT ![t] = idle[Len(idle)]]
    /\ idle' = SubSeq(idle, 1, Len(idle) - 1)
    /\ lent' = lent + 1
    /\ Leave(t, "working")
    /\ UNCHANGED <<deadline, closed, taken, sockets, leaked>>

\* Mutants: dials without counting the slot; finds room when there is none.
TakeSlot_Uncounted(t) ==
    /\ AtHead(t) /\ ~closed /\ idle = <<>> /\ lent < Size
    /\ Leave(t, "dialing")
    /\ UNCHANGED <<deadline, idle, lent, closed, holds, taken, sockets, leaked>>
TakeSlot_OffByOne(t) ==
    /\ AtHead(t) /\ ~closed /\ idle = <<>> /\ lent <= Size
    /\ lent' = lent + 1
    /\ Leave(t, "dialing")
    /\ UNCHANGED <<deadline, idle, closed, holds, taken, sockets, leaked>>

TakeSlot(t) ==
    /\ AtHead(t)
    /\ ~closed
    /\ idle = <<>>
    /\ lent < Size
    /\ lent' = lent + 1
    /\ Leave(t, "dialing")
    /\ UNCHANGED <<deadline, idle, closed, holds, taken, sockets, leaked>>

\* Mutant: every wait starts its timeout afresh, whatever the deadline.
Wait_Restarts(t) ==
    /\ pc[t] = "acquire" /\ ~closed /\ Full
    /\ Leave(t, "waiting")
    /\ UNCHANGED <<deadline, idle, lent, closed, holds, taken, sockets, leaked>>

Wait(t) ==
    /\ pc[t] = "acquire"
    /\ ~closed
    /\ Full
    /\ deadline[t] # "passed"
    /\ Leave(t, "waiting")
    /\ UNCHANGED <<deadline, idle, lent, closed, holds, taken, sockets, leaked>>

\* Either of the two early returns that say nothing became free in time.
GiveUp(t) ==
    /\ Full
    /\ \/ pc[t] = "acquire" /\ ~closed /\ deadline[t] = "passed"
       \/ pc[t] = "timedOut"
    /\ Leave(t, "out")
    /\ UNCHANGED <<deadline, idle, lent, closed, holds, taken, sockets, leaked>>

\* wait_timeout returns with timed_out() set.
Timeout(t) ==
    /\ deadline[t] = "passed"
    /\ Go(t, "waiting", "timedOut")
    /\ UNCHANGED <<deadline, idle, lent, closed, holds, taken, sockets, leaked>>

\* Condvar::wait may return without a notification.
SpuriousWake(t) ==
    /\ Go(t, "waiting", "acquire")
    /\ UNCHANGED <<deadline, idle, lent, closed, holds, taken, sockets, leaked>>

DialOk(t) ==
    /\ Go(t, "dialing", "working")
    /\ \E c \in Conns \ sockets :
          /\ holds' = [holds EXCEPT ![t] = c]
          /\ sockets' = sockets \cup {c}
    /\ UNCHANGED <<deadline, idle, lent, closed, taken, leaked>>

\* Mutants: a failed dial keeps its slot; gives it back and tells nobody.
DialFails_KeepsSlot(t) ==
    /\ NotifyOne(t, "dialing", "out")
    /\ UNCHANGED <<deadline, idle, lent, closed, holds, taken, sockets, leaked>>
DialFails_Silent(t) ==
    /\ Go(t, "dialing", "out")
    /\ lent' = lent - 1
    /\ UNCHANGED <<deadline, idle, closed, holds, taken, sockets, leaked>>

DialFails(t) ==
    /\ NotifyOne(t, "dialing", "out")
    /\ lent' = lent - 1
    /\ UNCHANGED <<deadline, idle, closed, holds, taken, sockets, leaked>>

-----------------------------------------------------------------------------
(* Giving back.                                                             *)

Release(t, broken) ==
    /\ lent' = lent - 1
    /\ IF broken \/ closed
         THEN /\ Go(t, "working", "retiring")
              /\ UNCHANGED <<idle, holds>>
         ELSE /\ Go(t, "working", "notifying")
              /\ idle' = Append(idle, holds[t])
              /\ holds' = [holds EXCEPT ![t] = NoConn]
    /\ UNCHANGED <<deadline, closed, taken, sockets, leaked>>

\* client.close(), outside the lock and before the notification.
Retire(t) ==
    /\ Go(t, "retiring", "notifying")
    /\ sockets' = sockets \ {holds[t]}
    /\ holds' = [holds EXCEPT ![t] = NoConn]
    /\ UNCHANGED <<deadline, idle, lent, closed, taken, leaked>>

NotifyFreed(t) ==
    /\ NotifyOne(t, "notifying", "out")
    /\ UNCHANGED <<deadline, idle, lent, closed, holds, taken, sockets, leaked>>

\* The closure unwinds through Pool::run: the Client is dropped, which closes
\* its socket, and nothing after the call of `work` runs.
Panic(t) ==
    /\ MayPanic
    /\ Go(t, "working", "out")
    /\ sockets' = sockets \ {holds[t]}
    /\ holds' = [holds EXCEPT ![t] = NoConn]
    /\ leaked' = leaked + 1
    /\ UNCHANGED <<deadline, idle, lent, closed, taken>>

-----------------------------------------------------------------------------
(* Closing the pool.                                                        *)

\* Mutant: forgets the idle connections instead of closing them.
Close_Forgets(t) ==
    /\ Go(t, "out", "closing")
    /\ closed' = TRUE
    /\ idle' = <<>>
    /\ UNCHANGED <<deadline, lent, holds, taken, sockets, leaked>>

Close(t) ==
    /\ Go(t, "out", "closing")
    /\ closed' = TRUE
    /\ taken' = [taken EXCEPT ![t] = idle]
    /\ idle' = <<>>
    /\ UNCHANGED <<deadline, lent, holds, sockets, leaked>>

CloseNext(t) ==
    /\ pc[t] = "closing"
    /\ taken[t] # <<>>
    /\ sockets' = sockets \ {Head(taken[t])}
    /\ taken' = [taken EXCEPT ![t] = Tail(taken[t])]
    /\ UNCHANGED <<pc, deadline, idle, lent, closed, holds, leaked>>

\* Mutant: wakes one waiter where all must learn that the pool is closed.
NotifyAll_One(t) ==
    /\ taken[t] = <<>>
    /\ NotifyOne(t, "closing", "out")
    /\ UNCHANGED <<deadline, idle, lent, closed, holds, taken, sockets, leaked>>

NotifyAll(t) ==
    /\ pc[t] = "closing"
    /\ taken[t] = <<>>
    /\ pc' = [u \in Threads |-> IF u = t THEN "out"
                                ELSE IF pc[u] = "waiting" THEN "acquire"
                                ELSE pc[u]]
    /\ UNCHANGED <<deadline, idle, lent, closed, holds, taken, sockets, leaked>>

-----------------------------------------------------------------------------
\* What a thread inside the pool does of itself, once it is scheduled.
Proceed(t) ==
    \/ RefuseClosed(t) \/ TakeIdle(t) \/ TakeSlot(t) \/ Wait(t) \/ GiveUp(t)
    \/ Timeout(t) \/ DialOk(t) \/ DialFails(t)
    \/ \E broken \in BOOLEAN : Release(t, broken)
    \/ Retire(t) \/ NotifyFreed(t) \/ Panic(t)
    \/ CloseNext(t) \/ NotifyAll(t)

\* What the caller, the clock and the condvar may do but need not.
Environment(t) == Call(t) \/ Close(t) \/ DeadlinePasses(t) \/ SpuriousWake(t)

Next == \E t \in Threads : Proceed(t) \/ Environment(t)

Spec == Init /\ [][Next]_vars

\* A scheduled thread runs, a dial ends (connect_timeout bounds it), and a
\* closure returns.  Nobody has to call, to close, or to wake by accident.
Fairness == \A t \in Threads : WF_vars(Proceed(t))
FairSpec == Spec /\ Fairness

-----------------------------------------------------------------------------
(* What the pool promises.                                                  *)

\* Threads that own a slot: State.lent was raised for them and not lowered.
Borrowers == At("dialing") \cup At("working")

\* stats() never adds up to more than size(): the slot is counted before the
\* dial, so two threads cannot both find room for the last connection.
WithinSize == Len(idle) + lent <= Size

\* Every count in State.lent has a thread that will lower it, or was lost to
\* a panic: no return path of acquire or release forgets or repeats one.
SlotAccounting == lent = Cardinality(Borrowers) + leaked

Places ==
    [ idle  |-> {idle[i] : i \in DOMAIN idle},
      taken |-> UNION {{taken[t][i] : i \in DOMAIN taken[t]} : t \in Threads},
      held  |-> {holds[t] : t \in Threads} \ {NoConn} ]

\* A Client has one owner: no two threads hold the same one, and one that is
\* held is neither idle nor being closed by Pool::close.
SingleOwner ==
    /\ \A t, u \in Threads : t # u /\ holds[t] # NoConn => holds[t] # holds[u]
    /\ \A i, j \in DOMAIN idle : i # j => idle[i] # idle[j]
    /\ Places.idle \cap Places.held = {}
    /\ Places.taken \cap (Places.held \cup Places.idle) = {}

\* Every open socket belongs to somebody who will reuse or close it, and every
\* Client the pool has is still open: none is lost by closing the pool while a
\* thread dials, works or gives back.
SocketsOwned == sockets = Places.idle \cup Places.taken \cup Places.held

\* A closed pool keeps nothing idle, whatever release runs after close().
ClosedKeepsNothing == closed => idle = <<>>

\* No wakeup is lost: while a thread waits, each slot that is not lent has a
\* thread on its way to take it or to notify for it, or close() has yet to
\* wake everybody.
OnTheWay == {t \in Threads : pc[t] \in {"acquire", "timedOut", "retiring", "notifying"}}
NoLostWakeup ==
    At("waiting") # {} =>
        IF closed THEN At("closing") # {}
                  ELSE Size - lent <= Cardinality(OnTheWay)

\* Once close() has run no thread is given a connection or a slot to dial in.
NoGrantAfterClose ==
    [][closed => \A t \in Threads :
          t \in Borrowers' => t \in Borrowers]_vars

Grant == \E t \in Threads : TakeIdle(t) \/ TakeSlot(t)

\* A thread waits for ever only while others are served over and over: when
\* borrowers stop coming, whoever waits gets a connection.  (The mutex and the
\* condvar are not fair, so one thread can be overtaken without end.)
NeverWedged ==
    \A t \in Threads : <>[](pc[t] = "waiting") => []<><<Grant>>_vars

InAcquire(t) == pc[t] \in {"acquire", "waiting", "timedOut"}

\* And only a panic can undo that: while one slot is left, whoever waits is
\* served, however many others were lost.
ServedWhileASlotIsLeft ==
    \A t \in Threads :
        <>[](pc[t] = "waiting" /\ leaked < Size) => []<><<Grant>>_vars

\* with_connection_timeout comes back once its deadline has passed.
DeadlineHonoured ==
    \A t \in Threads :
        (InAcquire(t) /\ deadline[t] = "passed") ~> ~InAcquire(t)

\* After close() every waiter is let go and every socket gets closed.
CloseDrains == closed ~> (At("waiting") = {} /\ sockets = {})

Lend == INSTANCE Lending WITH
            asking    <- {t \in Threads : InAcquire(t)},
            borrowing <- Borrowers,
            open      <- ~closed

\* The pool implements bounded lending (pool.rs:55-59, 101-103, 220-222): a
\* caller is granted a slot only while fewer than Size are borrowed and the
\* pool is open, and leaves acquire only granted or refused.
ImplementsLending == Lend!Spec
=============================================================================
