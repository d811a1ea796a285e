----------------------------- MODULE PoolProofs -----------------------------
(****************************************************************************)
(* Safety of Pool, for every set of threads, every size, with and without   *)
(* panicking closures.                                                      *)
(****************************************************************************)
EXTENDS Pool, FiniteSetTheorems, SequenceTheorems, TLAPS

\* A thread holds a Client exactly while it works with it or retires it.
HoldsOK ==
    \A t \in Threads : (holds[t] # NoConn) <=> (pc[t] \in {"working", "retiring"})

\* Owners: the idle stack, a thread that holds, a thread that closes.
Lists(s, c) == \E i \in DOMAIN s : s[i] = c
Once(s) == \A i, j \in DOMAIN s : i # j => s[i] # s[j]

OwnedOnce ==
    /\ Once(idle)
    /\ \A t \in Threads : Once(taken[t])
    /\ \A t, u \in Threads : t # u /\ holds[t] # NoConn => holds[t] # holds[u]
    /\ \A t, u \in Threads, c \in Conns :
          t # u /\ Lists(taken[t], c) => ~Lists(taken[u], c)
    /\ \A t \in Threads, c \in Conns : Lists(idle, c) => ~Lists(taken[t], c)
    /\ \A t, u \in Threads, c \in Conns :
          holds[t] = c => ~Lists(idle, c) /\ ~Lists(taken[u], c)

\* What a thread took out of the pool it closes before it does anything else.
TakenByClosing == \A t \in Threads : pc[t] # "closing" => taken[t] = <<>>

OpenIsOwned ==
    \A c \in Conns :
        c \in sockets <=> \/ Lists(idle, c)
                          \/ \E t \in Threads : Lists(taken[t], c)
                          \/ \E t \in Threads : holds[t] = c

Owned == OwnedOnce /\ TakenByClosing /\ OpenIsOwned

IInv == TypeOK /\ HoldsOK /\ WithinSize /\ SlotAccounting
        /\ ClosedKeepsNothing /\ NoLostWakeup /\ Owned

-----------------------------------------------------------------------------
(* Counting: what one step does to the number of threads in a set.          *)

\* A set of threads has a cardinality, which one thread more or less moves
\* by one.
LEMMA CountThreads ==
    ASSUME NEW S \in SUBSET Threads, NEW t \in Threads
    PROVE  /\ Cardinality(S) \in Nat
           /\ t \notin S => Cardinality(S \cup {t}) = Cardinality(S) + 1
           /\ t \in S => /\ Cardinality(S \ {t}) = Cardinality(S) - 1
                         /\ Cardinality(S) >= 1
<1>1. IsFiniteSet(S)
  BY FS_Subset, PoolAssumption
<1>2. Cardinality(S) \in Nat
  BY <1>1, FS_CardinalityType
<1>3. t \notin S => Cardinality(S \cup {t}) = Cardinality(S) + 1
  BY <1>1, FS_AddElement
<1>4. ASSUME t \in S
      PROVE  Cardinality(S \ {t}) = Cardinality(S) - 1 /\ Cardinality(S) >= 1
  <2>1. Cardinality(S \ {t}) = Cardinality(S) - 1
    BY <1>1, <1>4, FS_RemoveElement
  <2>2. Cardinality(S \ {t}) \in Nat
    BY <1>1, FS_RemoveElement, FS_CardinalityType
  <2> QED
    BY <1>2, <2>1, <2>2
<1> QED
  BY <1>2, <1>3, <1>4

-----------------------------------------------------------------------------
(* The parts that need no counting.                                         *)

\* A slot that is held keeps State.lent above zero, so that no release can
\* take it below.
LEMMA HeldSlotCounted ==
    ASSUME TypeOK, SlotAccounting, NEW t \in Borrowers
    PROVE  lent >= 1
<1>1. Borrowers \in SUBSET Threads /\ t \in Threads
  BY DEF Borrowers, At
<1>2. Cardinality(Borrowers) \in Nat /\ Cardinality(Borrowers) >= 1
  BY <1>1, CountThreads
<1> QED
  BY <1>2 DEF TypeOK, SlotAccounting

\* notify_one moves its caller on and at most one waiter back to the loop.
LEMMA NotifyMoves ==
    ASSUME TypeOK, NEW t \in Threads,
           NEW from \in Locations \ {"waiting"}, NEW to \in Locations,
           NotifyOne(t, from, to)
    PROVE  /\ pc' \in [Threads -> Locations]
           /\ pc[t] = from /\ pc'[t] = to
           /\ \A u \in Threads \ {t} :
                 pc'[u] = pc[u] \/ (pc[u] = "waiting" /\ pc'[u] = "acquire")
           /\ At("waiting") = {} \/ \E w \in At("waiting") \ {t} : pc'[w] = "acquire"
<1> USE DEF TypeOK, At
<1>1. CASE At("waiting") = {} /\ pc' = [pc EXCEPT ![t] = to]
  BY <1>1 DEF NotifyOne
<1>2. ASSUME NEW w \in At("waiting"), pc' = [pc EXCEPT ![t] = to, ![w] = "acquire"]
      PROVE  /\ pc' \in [Threads -> Locations]
             /\ w # t /\ pc[t] = from /\ pc'[t] = to /\ pc'[w] = "acquire"
             /\ \A u \in Threads \ {t, w} : pc'[u] = pc[u]
  <2>1. "acquire" \in Locations
    BY DEF Locations
  <2> QED
    BY <1>2, <2>1 DEF NotifyOne
<1> QED
  BY <1>1, <1>2 DEF NotifyOne

\* What pop() leaves of a non-empty stack, and what it yields.
LEMMA Popped ==
    ASSUME NEW S, NEW s \in Seq(S), s # <<>>
    PROVE  /\ SubSeq(s, 1, Len(s) - 1) \in Seq(S)
           /\ Len(SubSeq(s, 1, Len(s) - 1)) = Len(s) - 1
           /\ s[Len(s)] \in S
           /\ \A i \in 1 .. Len(s) - 1 : SubSeq(s, 1, Len(s) - 1)[i] = s[i]
<1>1. Len(s) \in Nat \ {0} /\ Len(s) - 1 \in Nat
  BY EmptySeq, LenProperties
<1>2. \A i \in 1 .. Len(s) : s[i] \in S
  BY ElementOfSeq
<1> QED
  <2>1. \A i \in 1 .. Len(s) - 1 : s[i] \in S
    BY <1>1, <1>2
  <2>2. /\ SubSeq(s, 1, Len(s) - 1) \in Seq(S)
        /\ Len(SubSeq(s, 1, Len(s) - 1)) = IF 1 <= Len(s) - 1 THEN Len(s) - 1 - 1 + 1 ELSE 0
        /\ \A i \in 1 .. Len(s) - 1 - 1 + 1 : SubSeq(s, 1, Len(s) - 1)[i] = s[1 + i - 1]
    BY <1>1, <2>1, SubSeqProperties
  <2>3. Len(SubSeq(s, 1, Len(s) - 1)) = Len(s) - 1
    <3> DEFINE l == Len(s)
               m == Len(SubSeq(s, 1, l - 1))
    <3>1. l \in Nat \ {0} /\ m = IF 1 <= l - 1 THEN l - 1 - 1 + 1 ELSE 0
      BY <1>1, <2>2
    <3> HIDE DEF l, m
    <3>2. m = l - 1
      BY <3>1
    <3> QED
      BY <3>2 DEF l, m
  <2>4. ASSUME NEW i \in 1 .. Len(s) - 1
        PROVE  SubSeq(s, 1, Len(s) - 1)[i] = s[i]
    <3>1. i \in 1 .. Len(s) - 1 - 1 + 1 /\ 1 + i - 1 = i
      BY <1>1
    <3> QED
      BY <2>2, <3>1
  <2> QED
    BY <1>1, <1>2, <2>2, <2>3, <2>4

Plain == TypeOK /\ HoldsOK /\ WithinSize /\ ClosedKeepsNothing

\* Every step keeps the types, what a thread holds, the size of the pool, and
\* a closed pool empty.
LEMMA PlainStep ==
    ASSUME Plain, SlotAccounting, [Next]_vars
    PROVE  Plain'
<1> USE PoolAssumption DEF Plain, TypeOK, Locations, HoldsOK, WithinSize, ClosedKeepsNothing
<1>1. CASE UNCHANGED vars
  BY <1>1 DEF vars
<1>2. SUFFICES ASSUME NEW t \in Threads, Proceed(t) \/ Environment(t)
               PROVE  Plain'
  BY <1>1, <1>2 DEF Next
<1>3. CASE Call(t)
  BY <1>3 DEF Call, Go
<1>4. CASE DeadlinePasses(t)
  BY <1>4 DEF DeadlinePasses
<1>5. CASE RefuseClosed(t)
  BY <1>5 DEF RefuseClosed, AtHead, Leave
<1>6. CASE TakeIdle(t)
  <2>1. /\ idle' \in Seq(Conns) /\ Len(idle') = Len(idle) - 1
        /\ idle[Len(idle)] \in Conns
    BY <1>6, Popped DEF TakeIdle
  <2>2. /\ lent' = lent + 1 /\ closed' = closed /\ ~closed
        /\ pc' = [pc EXCEPT ![t] = "working"]
        /\ holds' = [holds EXCEPT ![t] = idle[Len(idle)]]
        /\ UNCHANGED <<deadline, taken, sockets, leaked>>
    BY <1>6 DEF TakeIdle, Leave
  <2>3. HoldsOK'
    BY <2>1, <2>2
  <2> QED
    BY <2>1, <2>2, <2>3
<1>7. CASE TakeSlot(t)
  BY <1>7 DEF TakeSlot, AtHead, Leave
<1>8. CASE Wait(t)
  BY <1>8 DEF Wait, Leave
<1>9. CASE GiveUp(t)
  BY <1>9 DEF GiveUp, Leave
<1>10. CASE Timeout(t)
  BY <1>10 DEF Timeout, Go
<1>11. CASE SpuriousWake(t)
  BY <1>11 DEF SpuriousWake, Go
<1>12. CASE DialOk(t)
  BY <1>12 DEF DialOk, Go
<1>13. CASE DialFails(t)
  <2>1. lent >= 1
    BY <1>13, HeldSlotCounted DEF Borrowers, At, DialFails, NotifyOne
  <2>2. NotifyOne(t, "dialing", "out")
    BY <1>13 DEF DialFails
  <2> HIDE DEF TypeOK, Plain
  <2>3. /\ pc' \in [Threads -> Locations]
        /\ \A u \in Threads : pc'[u] \in {"working", "retiring"} <=> pc[u] \in {"working", "retiring"}
    <3>1. "dialing" \in Locations \ {"waiting"} /\ "out" \in Locations
      BY DEF Locations
    <3>2. TypeOK
      BY DEF Plain
    <3> QED
      BY <2>2, <3>1, <3>2, NotifyMoves, SMTT(30)
  <2>4. lent' = lent - 1 /\ UNCHANGED <<deadline, idle, closed, holds, taken, sockets, leaked>>
    BY <1>13 DEF DialFails
  <2> QED
    BY <2>1, <2>3, <2>4 DEF TypeOK, Plain
<1>14. ASSUME NEW broken \in BOOLEAN, Release(t, broken) PROVE Plain'
  <2>1. lent >= 1
    BY <1>14, HeldSlotCounted DEF Borrowers, At, Release, Go
  <2>2. CASE broken \/ closed
    <3>1. /\ lent' = lent - 1
          /\ pc[t] = "working" /\ pc' = [pc EXCEPT ![t] = "retiring"]
          /\ UNCHANGED <<idle, holds, deadline, closed, taken, sockets, leaked>>
      BY <1>14, <2>2 DEF Release, Go
    <3> QED
      BY <2>1, <3>1
  <2>3. CASE ~(broken \/ closed)
    <3>1. holds[t] \in Conns
      BY <1>14 DEF Release, Go
    <3>2. idle' \in Seq(Conns) /\ Len(idle') = Len(idle) + 1
      <4>1. idle' = Append(idle, holds[t])
        BY <1>14, <2>3 DEF Release
      <4> QED
        BY <3>1, <4>1, AppendProperties
    <3>3. /\ lent' = lent - 1 /\ closed' = closed /\ ~closed
          /\ pc' = [pc EXCEPT ![t] = "notifying"]
          /\ holds' = [holds EXCEPT ![t] = NoConn]
          /\ UNCHANGED <<deadline, taken, sockets, leaked>>
      BY <1>14, <2>3 DEF Release, Go
    <3>4. HoldsOK'
      BY <3>3
    <3> QED
      BY <2>1, <3>2, <3>3, <3>4
  <2> QED
    BY <2>2, <2>3
<1>15. CASE Retire(t)
  BY <1>15 DEF Retire, Go
<1>16. CASE NotifyFreed(t)
  BY <1>16 DEF NotifyFreed, NotifyOne, At
<1>17. CASE Panic(t)
  BY <1>17 DEF Panic, Go
<1>18. CASE Close(t)
  BY <1>18 DEF Close, Go
<1>19. CASE CloseNext(t)
  BY <1>19 DEF CloseNext
<1>20. CASE NotifyAll(t)
  BY <1>20 DEF NotifyAll
<1> QED
  BY <1>2, <1>3, <1>4, <1>5, <1>6, <1>7, <1>8, <1>9, <1>10, <1>11, <1>12, <1>13, <1>14, <1>15, <1>16, <1>17, <1>18, <1>19, <1>20 DEF Proceed, Environment

-----------------------------------------------------------------------------
(* Who owns a slot.  The steps that change it are those that change lent.   *)

\* Leaving the loop head, or moving between places that own no slot, leaves
\* the borrowers as they were.
LEMMA BorrowersKept ==
    ASSUME TypeOK, NEW t \in Threads,
           \/ Call(t) \/ DeadlinePasses(t) \/ RefuseClosed(t) \/ Wait(t) \/ GiveUp(t)
           \/ Timeout(t) \/ SpuriousWake(t) \/ DialOk(t) \/ Retire(t) \/ NotifyFreed(t)
           \/ Close(t) \/ CloseNext(t) \/ NotifyAll(t)
    PROVE  Borrowers' = Borrowers /\ lent' = lent /\ leaked' = leaked
<1> USE DEF TypeOK, Borrowers, At
<1>1. CASE Call(t) \/ Timeout(t) \/ SpuriousWake(t) \/ DialOk(t) \/ Retire(t) \/ Close(t)
  BY <1>1 DEF Call, Timeout, SpuriousWake, DialOk, Retire, Close, Go
<1>2. CASE RefuseClosed(t) \/ Wait(t) \/ GiveUp(t)
  BY <1>2 DEF RefuseClosed, AtHead, Wait, GiveUp, Leave
<1>3. CASE DeadlinePasses(t) \/ CloseNext(t)
  BY <1>3 DEF DeadlinePasses, CloseNext
<1>4. CASE NotifyFreed(t)
  <2>1. "notifying" \in Locations \ {"waiting"} /\ "out" \in Locations
    BY DEF Locations
  <2>2. NotifyOne(t, "notifying", "out")
    BY <1>4 DEF NotifyFreed
  <2>3. \A u \in Threads : pc'[u] \in {"dialing", "working"} <=> pc[u] \in {"dialing", "working"}
    BY <2>1, <2>2, NotifyMoves, SMTT(30)
  <2> QED
    BY <1>4, <2>3 DEF NotifyFreed
<1>5. CASE NotifyAll(t)
  BY <1>5 DEF NotifyAll
<1> QED
  BY <1>1, <1>2, <1>3, <1>4, <1>5

\* Taking an idle connection or a slot to dial in adds one borrower.
LEMMA BorrowerAdded ==
    ASSUME TypeOK, NEW t \in Threads, TakeIdle(t) \/ TakeSlot(t)
    PROVE  /\ t \notin Borrowers /\ Borrowers' = Borrowers \cup {t}
           /\ lent' = lent + 1 /\ leaked' = leaked
BY DEF TypeOK, Borrowers, At, TakeIdle, TakeSlot, AtHead, Leave

\* A failed dial, a release and a panic each take one borrower away.
LEMMA BorrowerRemoved ==
    ASSUME TypeOK, NEW t \in Threads,
           \/ DialFails(t) \/ (\E broken \in BOOLEAN : Release(t, broken)) \/ Panic(t)
    PROVE  /\ t \in Borrowers /\ Borrowers' = Borrowers \ {t}
           /\ \/ lent' = lent - 1 /\ leaked' = leaked
              \/ lent' = lent /\ leaked' = leaked + 1
<1> USE DEF TypeOK, Borrowers, At
<1>1. CASE DialFails(t)
  <2>1. "dialing" \in Locations \ {"waiting"} /\ "out" \in Locations
    BY DEF Locations
  <2>2. NotifyOne(t, "dialing", "out")
    BY <1>1 DEF DialFails
  <2>3. /\ pc[t] = "dialing" /\ pc'[t] = "out"
        /\ \A u \in Threads \ {t} :
              pc'[u] \in {"dialing", "working"} <=> pc[u] \in {"dialing", "working"}
    BY <2>1, <2>2, NotifyMoves
  <2> QED
    BY <1>1, <2>3 DEF DialFails
<1>2. CASE \E broken \in BOOLEAN : Release(t, broken)
  BY <1>2 DEF Release, Go
<1>3. CASE Panic(t)
  BY <1>3 DEF Panic, Go
<1> QED
  BY <1>1, <1>2, <1>3

\* The count in State.lent follows the borrowers and the slots lost to panics.
LEMMA SlotStep ==
    ASSUME TypeOK, SlotAccounting, [Next]_vars
    PROVE  SlotAccounting'
<1> DEFINE S == Borrowers
           n == Cardinality(Borrowers)
           k == Cardinality(Borrowers')
<1>1. CASE UNCHANGED vars
  BY <1>1 DEF vars, SlotAccounting, Borrowers, At
<1>2. ASSUME NEW t \in Threads, Proceed(t) \/ Environment(t)
      PROVE  SlotAccounting'
  <2>1. Borrowers \in SUBSET Threads
    BY DEF Borrowers, At
  <2>2. /\ n \in Nat
        /\ t \notin S => Cardinality(S \cup {t}) = n + 1
        /\ t \in S => Cardinality(S \ {t}) = n - 1
    BY <2>1, CountThreads
  <2>3. \/ k = n /\ lent' = lent /\ leaked' = leaked
        \/ k = n + 1 /\ lent' = lent + 1 /\ leaked' = leaked
        \/ k = n - 1 /\ lent' = lent - 1 /\ leaked' = leaked
        \/ k = n - 1 /\ lent' = lent /\ leaked' = leaked + 1
    BY <1>2, <2>2, BorrowersKept, BorrowerAdded, BorrowerRemoved DEF Proceed, Environment
  <2>4. lent = n + leaked /\ lent \in Nat /\ leaked \in Nat
    BY DEF SlotAccounting, TypeOK
  <2> HIDE DEF n, k
  <2>5. lent' = k + leaked'
    BY <2>2, <2>3, <2>4
  <2> QED
    BY <2>5 DEF SlotAccounting, k
<1> QED
  BY <1>1, <1>2 DEF Next

-----------------------------------------------------------------------------
(* No lost wakeup.  For a pool that is open the step either raises lent     *)
(* with at most one thread leaving OnTheWay, or lowers it with a thread     *)
(* joining, or leaves both as they were, or nobody waits afterwards.        *)

\* The arithmetic of one step: l and m slots lent before and after, n and k
\* threads on the way before and after.
LEMMA SlotBalance ==
    ASSUME NEW l \in Nat, NEW m \in Nat, NEW n \in Nat, NEW k \in Nat,
           NEW size \in Nat, size - l <= n,
           \/ m = l /\ n <= k
           \/ m = l + 1 /\ k >= n - 1
           \/ m = l - 1 /\ k = n + 1
           \/ m = l /\ k = n
           \/ m = l /\ l >= size
    PROVE  size - m <= k
OBVIOUS

\* One thread more on the way pays for one slot less lent.
LEMMA WakeupStepCount ==
    ASSUME TypeOK, TypeOK', NoLostWakeup, NEW t \in Threads, NEW w \in Threads,
           ~closed', closed' = closed,
           At("waiting")' # {} => At("waiting") # {} \/ Full,
           \/ lent' = lent /\ OnTheWay \subseteq OnTheWay'
           \/ lent' = lent + 1 /\ OnTheWay' = OnTheWay \ {t}
           \/ lent' = lent - 1 /\ w \notin OnTheWay /\ OnTheWay' = OnTheWay \cup {w}
           \/ /\ lent' = lent /\ t \in OnTheWay /\ w \notin OnTheWay
              /\ OnTheWay' = (OnTheWay \ {t}) \cup {w}
           \/ lent' = lent /\ Full
    PROVE  NoLostWakeup'
<1> DEFINE O == OnTheWay
           n == Cardinality(O)
           k == Cardinality(O')
<1> SUFFICES ASSUME At("waiting")' # {} PROVE Size - lent' <= k
  BY DEF NoLostWakeup
<1>1. /\ O \in SUBSET Threads /\ O' \in SUBSET Threads
      /\ O \ {t} \in SUBSET Threads
  BY DEF OnTheWay
<1>2. /\ n \in Nat /\ k \in Nat
      /\ O \subseteq O' => n <= k
      /\ O' = O \ {t} => k >= n - 1
      /\ w \notin O /\ O' = O \cup {w} => k = n + 1
      /\ t \in O /\ w \notin O /\ O' = (O \ {t}) \cup {w} => k = n
  <2>1. n \in Nat /\ k \in Nat
    BY <1>1, CountThreads
  <2>2. O \subseteq O' => n <= k
    BY <1>1, FS_Subset, PoolAssumption
  <2>3. O' = O \ {t} => k >= n - 1
    <3>1. CASE t \in O
      BY <1>1, <2>1, <3>1, CountThreads
    <3>2. CASE t \notin O
      <4>1. O \ {t} = O
        BY <3>2
      <4> QED
        BY <2>1, <4>1
    <3> QED
      BY <3>1, <3>2
  <2>4. w \notin O /\ O' = O \cup {w} => k = n + 1
    BY <1>1, CountThreads
  <2>5. ASSUME t \in O, w \notin O, O' = (O \ {t}) \cup {w}
        PROVE  k = n
    <3>1. Cardinality(O \ {t}) = n - 1
      BY <1>1, <2>5, CountThreads
    <3>2. Cardinality((O \ {t}) \cup {w}) = Cardinality(O \ {t}) + 1
      <4>1. w \notin O \ {t}
        BY <2>5
      <4> QED
        BY <1>1, <4>1, CountThreads
    <3> QED
      BY <2>1, <2>5, <3>1, <3>2
  <2> QED
    BY <2>1, <2>2, <2>3, <2>4, <2>5
<1>3. Size - lent <= n
  <2>1. CASE At("waiting") # {}
    BY <2>1 DEF NoLostWakeup
  <2>2. CASE Full
    BY <1>2, <2>2, PoolAssumption DEF Full, TypeOK
  <2> QED
    BY <2>1, <2>2
<1>4. lent \in Nat /\ lent' \in Nat /\ Size \in Nat /\ (Full => lent >= Size)
  BY PoolAssumption DEF TypeOK, Full
<1>5. \/ lent' = lent /\ n <= k
      \/ lent' = lent + 1 /\ k >= n - 1
      \/ lent' = lent - 1 /\ k = n + 1
      \/ lent' = lent /\ k = n
      \/ lent' = lent /\ lent >= Size
  BY <1>2, <1>4, Zenon
<1>6. n \in Nat /\ k \in Nat
  BY <1>2
<1> QED
  BY <1>3, <1>4, <1>5, <1>6, SlotBalance

\* In a closed pool a waiter is still owed close()'s notify_all.
LEMMA WakeupStepClosed ==
    ASSUME closed', At("waiting")' # {} => At("closing")' # {}
    PROVE  NoLostWakeup'
BY DEF NoLostWakeup

LEMMA WakeupStep ==
    ASSUME TypeOK, TypeOK', NoLostWakeup, [Next]_vars
    PROVE  NoLostWakeup'
<1>1. CASE UNCHANGED vars
  BY <1>1 DEF vars, NoLostWakeup, At, OnTheWay
<1>2. SUFFICES ASSUME NEW t \in Threads, Proceed(t) \/ Environment(t)
               PROVE  NoLostWakeup'
  BY <1>1, <1>2 DEF Next
<1> USE DEF At, OnTheWay
<1>3. CASE Close(t)
  <2>1. closed' /\ At("closing")' # {}
    BY <1>3 DEF Close, Go, TypeOK
  <2> QED
    BY <2>1, WakeupStepClosed
<1>4. CASE NotifyAll(t)
  <2>1. At("waiting")' = {}
    BY <1>4 DEF NotifyAll, TypeOK
  <2> QED
    BY <2>1 DEF NoLostWakeup
<1>5. CASE closed /\ ~Close(t) /\ ~NotifyAll(t)
  <2>1. closed' = closed
    BY <1>2, <1>5 DEF Proceed, Environment, Call, DeadlinePasses, RefuseClosed, TakeIdle,
       TakeSlot, Wait, GiveUp, Timeout, SpuriousWake, DialOk, DialFails, Release, Retire,
       NotifyFreed, Panic, CloseNext
  <2>2. \A u \in Threads : /\ pc[u] = "closing" => pc'[u] = "closing"
                           /\ pc'[u] = "waiting" => pc[u] = "waiting"
    <3> USE DEF TypeOK
    <3>1. CASE Call(t) \/ Timeout(t) \/ SpuriousWake(t) \/ DialOk(t) \/ Retire(t) \/ Panic(t)
      BY <3>1 DEF Call, Timeout, SpuriousWake, DialOk, Retire, Panic, Go
    <3>2. CASE \E broken \in BOOLEAN : Release(t, broken)
      BY <3>2 DEF Release, Go
    <3>3. CASE RefuseClosed(t) \/ TakeIdle(t) \/ TakeSlot(t) \/ Wait(t) \/ GiveUp(t)
      BY <1>5, <3>3 DEF RefuseClosed, AtHead, TakeIdle, TakeSlot, Wait, GiveUp, Leave
    <3>4. CASE DeadlinePasses(t) \/ CloseNext(t)
      BY <3>4 DEF DeadlinePasses, CloseNext
    <3>5. CASE DialFails(t) \/ NotifyFreed(t)
      BY <3>5 DEF DialFails, NotifyFreed, NotifyOne
    <3> QED
      BY <1>2, <1>5, <3>1, <3>2, <3>3, <3>4, <3>5 DEF Proceed, Environment
  <2> QED
    BY <1>5, <2>1, <2>2, WakeupStepClosed DEF NoLostWakeup
<1>6. CASE ~closed /\ ~Close(t) /\ ~NotifyAll(t)
  <2> USE <1>6 DEF TypeOK
  <2>1. CASE DeadlinePasses(t) \/ CloseNext(t)
    BY <2>1, ZenonT(60) DEF DeadlinePasses, CloseNext, NoLostWakeup
  <2>2. CASE Call(t) \/ Timeout(t) \/ SpuriousWake(t) \/ DialOk(t) \/ Retire(t) \/ Panic(t)
    <3>1. /\ lent' = lent /\ closed' = closed /\ OnTheWay \subseteq OnTheWay'
          /\ At("waiting")' \subseteq At("waiting")
      BY <2>2 DEF Call, Timeout, SpuriousWake, DialOk, Retire, Panic, Go
    <3> QED
      BY <3>1, WakeupStepCount
  <2>3. CASE TakeIdle(t) \/ TakeSlot(t)
    <3>1. /\ lent' = lent + 1 /\ closed' = closed /\ OnTheWay' = OnTheWay \ {t}
          /\ At("waiting")' \subseteq At("waiting")
      BY <2>3 DEF TakeIdle, TakeSlot, AtHead, Leave
    <3> QED
      BY <3>1, WakeupStepCount
  <2>4. CASE Wait(t) \/ GiveUp(t)
    BY <2>4, WakeupStepCount DEF Wait, GiveUp
  <2>5. CASE \E broken \in BOOLEAN : Release(t, broken)
    <3>1. /\ lent' = lent - 1 /\ closed' = closed /\ t \notin OnTheWay
          /\ OnTheWay' = OnTheWay \cup {t} /\ At("waiting")' \subseteq At("waiting")
      BY <2>5 DEF Release, Go
    <3> QED
      BY <3>1, WakeupStepCount
  <2>6. CASE DialFails(t)
    <3>1. CASE At("waiting") = {}
      BY <2>6, <3>1 DEF DialFails, NotifyOne, NoLostWakeup
    <3>2. CASE At("waiting") # {}
      <4>1. PICK w \in Threads :
              /\ pc[w] = "waiting" /\ pc[t] = "dialing"
              /\ pc' = [pc EXCEPT ![t] = "out", ![w] = "acquire"]
        BY <2>6, <3>2 DEF DialFails, NotifyOne
      <4>2. /\ lent' = lent - 1 /\ closed' = closed /\ w \notin OnTheWay
            /\ OnTheWay' = OnTheWay \cup {w}
        BY <2>6, <4>1 DEF DialFails
      <4> QED
        BY <3>2, <4>2, WakeupStepCount
    <3> QED
      BY <3>1, <3>2
  <2>7. CASE NotifyFreed(t)
    <3>1. CASE At("waiting") = {}
      BY <2>7, <3>1 DEF NotifyFreed, NotifyOne, NoLostWakeup
    <3>2. CASE At("waiting") # {}
      <4>1. PICK w \in Threads :
              /\ pc[w] = "waiting" /\ pc[t] = "notifying"
              /\ pc' = [pc EXCEPT ![t] = "out", ![w] = "acquire"]
        BY <2>7, <3>2 DEF NotifyFreed, NotifyOne
      <4>2. /\ lent' = lent /\ closed' = closed /\ t \in OnTheWay /\ w \notin OnTheWay
            /\ OnTheWay' = (OnTheWay \ {t}) \cup {w}
        BY <2>7, <4>1 DEF NotifyFreed
      <4> QED
        BY <3>2, <4>2, WakeupStepCount
    <3> QED
      BY <3>1, <3>2
  <2> QED
    BY <1>2, <2>1, <2>2, <2>3, <2>4, <2>5, <2>6, <2>7 DEF Proceed, Environment, RefuseClosed
<1> QED
  BY <1>3, <1>4, <1>5, <1>6

-----------------------------------------------------------------------------
(* Who owns a Client.  All the steps need to know of a list is which        *)
(* Clients it has, and that it has none of them twice.                      *)

LEMMA ListsEmpty == Once(<<>>) /\ \A c : ~Lists(<<>>, c)
BY EmptySeq DEF Once, Lists

\* Taking the last of a list leaves the others.
LEMMA ListsPopped ==
    ASSUME NEW s \in Seq(Conns), s # <<>>, Once(s)
    PROVE  /\ Once(SubSeq(s, 1, Len(s) - 1))
           /\ Lists(s, s[Len(s)])
           /\ \A c : Lists(SubSeq(s, 1, Len(s) - 1), c) <=> Lists(s, c) /\ c # s[Len(s)]
<1> DEFINE l == Len(s)
           p == SubSeq(s, 1, l - 1)
<1>1. /\ l \in Nat \ {0} /\ DOMAIN s = 1 .. l
      /\ DOMAIN p = 1 .. l - 1
      /\ \A i \in 1 .. l - 1 : p[i] = s[i]
  <2>1. p \in Seq(Conns) /\ Len(p) = l - 1 /\ \A i \in 1 .. l - 1 : p[i] = s[i]
    BY Popped
  <2> QED
    BY <2>1, EmptySeq, LenProperties
<1> HIDE DEF l, p
<1>2. Once(p) /\ Lists(s, s[l])
  BY <1>1 DEF Once, Lists
<1>3. ASSUME NEW c PROVE Lists(p, c) <=> Lists(s, c) /\ c # s[l]
  BY <1>1 DEF Once, Lists
<1> QED
  BY <1>2, <1>3 DEF l, p

\* Adding one that was not there.
LEMMA ListsAppended ==
    ASSUME NEW s \in Seq(Conns), NEW e \in Conns, Once(s), ~Lists(s, e)
    PROVE  /\ Once(Append(s, e))
           /\ \A c : Lists(Append(s, e), c) <=> Lists(s, c) \/ c = e
<1> DEFINE l == Len(s)
           a == Append(s, e)
<1>1. /\ l \in Nat /\ DOMAIN s = 1 .. l
      /\ DOMAIN a = 1 .. l + 1
      /\ \A i \in 1 .. l : a[i] = s[i]
      /\ a[l + 1] = e
  BY AppendProperties, LenProperties
<1> HIDE DEF l, a
<1>2. Once(a)
  BY <1>1 DEF Once, Lists
<1>3. ASSUME NEW c PROVE Lists(a, c) <=> Lists(s, c) \/ c = e
  BY <1>1 DEF Lists
<1> QED
  BY <1>2, <1>3 DEF a

\* Taking the first of a list leaves the others.
LEMMA ListsTail ==
    ASSUME NEW s \in Seq(Conns), s # <<>>, Once(s)
    PROVE  /\ Once(Tail(s))
           /\ Lists(s, Head(s))
           /\ \A c : Lists(Tail(s), c) <=> Lists(s, c) /\ c # Head(s)
<1> DEFINE l == Len(s)
           r == Tail(s)
<1>1. /\ l \in Nat \ {0} /\ DOMAIN s = 1 .. l
      /\ DOMAIN r = 1 .. l - 1
      /\ \A i \in 1 .. l - 1 : r[i] = s[i + 1]
      /\ Head(s) = s[1]
  BY HeadTailProperties, EmptySeq, LenProperties
<1> HIDE DEF l, r
<1>2. Once(r) /\ Lists(s, Head(s))
  <2>1. 1 \in DOMAIN s
    BY <1>1
  <2>2. ASSUME NEW i \in 1 .. l - 1, NEW j \in 1 .. l - 1, i # j
        PROVE  r[i] # r[j]
    <3>1. i + 1 \in 1 .. l /\ j + 1 \in 1 .. l /\ i + 1 # j + 1
      BY <1>1, <2>2
    <3> QED
      BY <1>1, <3>1 DEF Once
  <2> QED
    BY <1>1, <2>1, <2>2 DEF Once, Lists
<1>3. ASSUME NEW c PROVE Lists(r, c) <=> Lists(s, c) /\ c # Head(s)
  <2>1. ASSUME NEW i \in 1 .. l, s[i] = c, c # Head(s)
        PROVE  Lists(r, c)
    <3>1. i - 1 \in 1 .. l - 1 /\ (i - 1) + 1 = i
      BY <1>1, <2>1
    <3>2. r[i - 1] = c
      BY <1>1, <2>1, <3>1
    <3> QED
      BY <1>1, <3>1, <3>2 DEF Lists
  <2>2. ASSUME NEW i \in 1 .. l - 1, r[i] = c
        PROVE  Lists(s, c) /\ c # Head(s)
    <3>1. i + 1 \in 1 .. l /\ i + 1 # 1 /\ s[i + 1] = c
      BY <1>1, <2>2
    <3> QED
      BY <1>1, <3>1 DEF Lists, Once
  <2> QED
    BY <1>1, <2>1, <2>2 DEF Lists
<1> QED
  BY <1>2, <1>3 DEF r

\* Every step that moves a Client takes it from its owner before it gives it
\* to another, and closes only what it takes.
LEMMA OwnedStep ==
    ASSUME Plain, Plain', Owned, [Next]_vars
    PROVE  Owned'
<1> USE DEF Owned
<1>0. /\ pc \in [Threads -> Locations] /\ holds \in [Threads -> Conns \cup {NoConn}]
      /\ taken \in [Threads -> Seq(Conns)] /\ idle \in Seq(Conns) /\ HoldsOK
      /\ NoConn \notin Conns
  BY PoolAssumption DEF Plain, TypeOK
<1>1. ASSUME UNCHANGED <<idle, holds, taken, sockets>>,
             \A u \in Threads : pc[u] = "closing" => pc'[u] = "closing" \/ taken[u] = <<>>
      PROVE  Owned'
  BY <1>1 DEF OwnedOnce, TakenByClosing, OpenIsOwned
<1>2. CASE UNCHANGED vars
  BY <1>1, <1>2 DEF vars
<1>3. SUFFICES ASSUME NEW t \in Threads, Proceed(t) \/ Environment(t)
               PROVE  Owned'
  BY <1>2, <1>3 DEF Next
<1>4. CASE Call(t) \/ DeadlinePasses(t) \/ RefuseClosed(t) \/ TakeSlot(t) \/ Wait(t)
           \/ GiveUp(t) \/ Timeout(t) \/ SpuriousWake(t)
  <2>1. UNCHANGED <<idle, holds, taken, sockets>>
    BY <1>4 DEF Call, DeadlinePasses, RefuseClosed, TakeSlot, Wait, GiveUp, Timeout, SpuriousWake
  <2>2. \A u \in Threads : pc[u] = "closing" => pc'[u] = "closing"
    BY <1>0, <1>4 DEF Call, DeadlinePasses, RefuseClosed, TakeSlot, Wait, GiveUp, Timeout,
                      SpuriousWake, Go, Leave, AtHead
  <2> QED
    BY <1>1, <2>1, <2>2
<1>5. CASE DialFails(t) \/ NotifyFreed(t) \/ NotifyAll(t)
  <2>1. UNCHANGED <<idle, holds, taken, sockets>>
    BY <1>5 DEF DialFails, NotifyFreed, NotifyAll
  <2>2. \A u \in Threads : pc[u] = "closing" => pc'[u] = "closing" \/ taken[u] = <<>>
    BY <1>0, <1>5 DEF DialFails, NotifyFreed, NotifyAll, NotifyOne, At
  <2> QED
    BY <1>1, <2>1, <2>2
<1>6. CASE TakeIdle(t)
  <2> DEFINE c == idle[Len(idle)]
  <2>1. /\ Once(idle') /\ Lists(idle, c) /\ c \in Conns
        /\ \A d : Lists(idle', d) <=> Lists(idle, d) /\ d # c
    BY <1>0, <1>6, ListsPopped, Popped DEF TakeIdle, OwnedOnce
  <2>2. /\ holds' = [holds EXCEPT ![t] = c] /\ holds[t] = NoConn
        /\ UNCHANGED <<taken, sockets>>
        /\ \A u \in Threads : pc'[u] = "closing" <=> pc[u] = "closing"
    BY <1>0, <1>6 DEF TakeIdle, HoldsOK, AtHead, Leave
  <2> HIDE DEF c
  <2>3. OwnedOnce'
    BY <1>0, <2>1, <2>2 DEF OwnedOnce
  <2>4. TakenByClosing'
    BY <1>0, <2>2 DEF TakenByClosing
  <2>5. OpenIsOwned'
    BY <1>0, <2>1, <2>2 DEF OpenIsOwned
  <2> QED
    BY <2>3, <2>4, <2>5
<1>7. CASE DialOk(t)
  <2>1. PICK c \in Conns \ sockets :
            /\ holds' = [holds EXCEPT ![t] = c]
            /\ sockets' = sockets \cup {c}
    BY <1>7 DEF DialOk
  <2>2. /\ holds[t] = NoConn
        /\ UNCHANGED <<idle, taken>>
        /\ \A u \in Threads : pc'[u] = "closing" <=> pc[u] = "closing"
    BY <1>0, <1>7 DEF DialOk, Go, HoldsOK
  <2>3. \A u \in Threads : ~Lists(idle, c) /\ ~Lists(taken[u], c) /\ holds[u] # c
    BY <2>1 DEF OpenIsOwned
  <2>4. OwnedOnce'
    BY <1>0, <2>1, <2>2, <2>3 DEF OwnedOnce
  <2>5. TakenByClosing'
    BY <1>0, <2>2 DEF TakenByClosing
  <2>6. OpenIsOwned'
    BY <1>0, <2>1, <2>2 DEF OpenIsOwned
  <2> QED
    BY <2>4, <2>5, <2>6
<1>8. ASSUME NEW broken \in BOOLEAN, Release(t, broken) PROVE Owned'
  <2>1. CASE broken \/ closed
    BY <1>0, <1>1, <1>8, <2>1 DEF Release, Go
  <2>2. CASE ~(broken \/ closed)
    <3>1. /\ holds[t] \in Conns /\ holds' = [holds EXCEPT ![t] = NoConn]
          /\ idle' = Append(idle, holds[t])
          /\ UNCHANGED <<taken, sockets>>
          /\ \A u \in Threads : pc'[u] = "closing" <=> pc[u] = "closing"
      BY <1>0, <1>8, <2>2 DEF Release, Go, HoldsOK
    <3>2. /\ Once(idle')
          /\ \A c : Lists(idle', c) <=> Lists(idle, c) \/ c = holds[t]
      BY <1>0, <3>1, ListsAppended DEF OwnedOnce
    <3>3. OwnedOnce'
      BY <1>0, <3>1, <3>2 DEF OwnedOnce
    <3>4. TakenByClosing' /\ OpenIsOwned'
      BY <1>0, <3>1, <3>2 DEF TakenByClosing, OpenIsOwned
    <3> QED
      BY <3>3, <3>4
  <2> QED
    BY <2>1, <2>2
<1>9. CASE Retire(t) \/ Panic(t)
  <2>1. /\ holds[t] \in Conns /\ holds' = [holds EXCEPT ![t] = NoConn]
        /\ sockets' = sockets \ {holds[t]}
        /\ UNCHANGED <<idle, taken>>
        /\ \A u \in Threads : pc'[u] = "closing" <=> pc[u] = "closing"
    BY <1>0, <1>9 DEF Retire, Panic, Go, HoldsOK
  <2>2. OwnedOnce'
    BY <1>0, <2>1 DEF OwnedOnce
  <2>3. TakenByClosing' /\ OpenIsOwned'
    BY <1>0, <2>1 DEF TakenByClosing, OpenIsOwned, OwnedOnce
  <2> QED
    BY <2>2, <2>3
<1>10. CASE Close(t)
  <2>1. /\ taken[t] = <<>> /\ taken' = [taken EXCEPT ![t] = idle] /\ idle' = <<>>
        /\ pc'[t] = "closing"
        /\ UNCHANGED <<holds, sockets>>
        /\ \A u \in Threads \ {t} : pc'[u] = pc[u]
    BY <1>0, <1>10 DEF Close, Go, TakenByClosing
  <2>2. Once(idle') /\ \A c : ~Lists(idle', c) /\ ~Lists(taken[t], c)
    BY <2>1, ListsEmpty
  <2>3. OwnedOnce'
    BY <1>0, <2>1, <2>2 DEF OwnedOnce
  <2>4. TakenByClosing' /\ OpenIsOwned'
    BY <1>0, <2>1, <2>2 DEF TakenByClosing, OpenIsOwned
  <2> QED
    BY <2>3, <2>4
<1>11. CASE CloseNext(t)
  <2>1. /\ pc' = pc /\ pc[t] = "closing" /\ UNCHANGED <<idle, holds>>
        /\ sockets' = sockets \ {Head(taken[t])}
        /\ taken' = [taken EXCEPT ![t] = Tail(taken[t])]
        /\ taken[t] # <<>> /\ taken[t] \in Seq(Conns) /\ Once(taken[t])
    BY <1>0, <1>11 DEF CloseNext, OwnedOnce
  <2>2. /\ Once(taken'[t]) /\ Lists(taken[t], Head(taken[t])) /\ Head(taken[t]) \in Conns
        /\ \A c : Lists(taken'[t], c) <=> Lists(taken[t], c) /\ c # Head(taken[t])
    BY <1>0, <2>1, ListsTail, HeadTailProperties
  <2>3. OwnedOnce'
    BY <1>0, <2>1, <2>2 DEF OwnedOnce
  <2>4. TakenByClosing'
    BY <1>0, <2>1 DEF TakenByClosing
  <2>5. OpenIsOwned'
    BY <1>0, <2>1, <2>2, ZenonT(60) DEF OpenIsOwned, OwnedOnce
  <2> QED
    BY <2>3, <2>4, <2>5
<1> QED
  BY <1>3, <1>4, <1>5, <1>6, <1>7, <1>8, <1>9, <1>10, <1>11 DEF Proceed, Environment

LEMMA OwnedInit == Init => Owned
BY ListsEmpty, PoolAssumption DEF Init, Owned, OwnedOnce, TakenByClosing, OpenIsOwned

-----------------------------------------------------------------------------
LEMMA InitInv == Init => IInv
<1> SUFFICES ASSUME Init PROVE IInv
  OBVIOUS
<1>1. TypeOK /\ HoldsOK /\ WithinSize /\ ClosedKeepsNothing
  <2>1. <<>> \in Seq(Conns) /\ Len(<<>>) = 0
    BY EmptySeq
  <2>2. TypeOK
    BY <2>1 DEF Init, TypeOK, Locations
  <2>3. HoldsOK
    BY DEF Init, HoldsOK
  <2>4. WithinSize
    BY <2>1, PoolAssumption DEF Init, WithinSize
  <2> QED
    BY <2>2, <2>3, <2>4 DEF Init, ClosedKeepsNothing
<1>2. Borrowers = {} /\ At("waiting") = {}
  BY DEF Init, Borrowers, At
<1>3. SlotAccounting
  BY <1>2, FS_EmptySet DEF Init, SlotAccounting
<1> QED
  BY <1>1, <1>2, <1>3, OwnedInit DEF IInv, NoLostWakeup

LEMMA StepInv == IInv /\ [Next]_vars => IInv'
<1> SUFFICES ASSUME IInv, [Next]_vars PROVE IInv'
  OBVIOUS
<1>1. Plain'
  BY PlainStep DEF IInv, Plain
<1>2. SlotAccounting'
  BY SlotStep DEF IInv
<1>3. NoLostWakeup'
  BY <1>1, WakeupStep DEF IInv, Plain
<1>4. Owned'
  BY <1>1, OwnedStep DEF IInv, Plain
<1> QED
  BY <1>1, <1>2, <1>3, <1>4 DEF IInv, Plain

\* The invariant holds of every behaviour of the pool.
THEOREM PoolInvariant == Spec => []IInv
BY InitInv, StepInv, PTL DEF Spec

\* Every variable keeps its type (pool.rs:44-49 and the threads around it).
THEOREM PoolTypes == Spec => []TypeOK
<1>1. IInv => TypeOK
  BY DEF IInv
<1> QED
  BY <1>1, PoolInvariant, PTL

\* Idle and lent connections together never exceed the size (pool.rs:163-166).
THEOREM PoolWithinSize == Spec => []WithinSize
<1>1. IInv => WithinSize
  BY DEF IInv
<1> QED
  BY <1>1, PoolInvariant, PTL

\* State.lent counts the threads that own a slot and the slots lost to panics
\* (pool.rs:160-171, 207-209).
THEOREM PoolSlotAccounting == Spec => []SlotAccounting
<1>1. IInv => SlotAccounting
  BY DEF IInv
<1> QED
  BY <1>1, PoolInvariant, PTL

\* A closed pool keeps nothing idle (pool.rs:207-232).
THEOREM PoolClosedKeepsNothing == Spec => []ClosedKeepsNothing
<1>1. IInv => ClosedKeepsNothing
  BY DEF IInv
<1> QED
  BY <1>1, PoolInvariant, PTL

\* While threads wait, every free slot has somebody coming for it
\* (pool.rs:171, 217, 231 against 174-203).
THEOREM PoolNoLostWakeup == Spec => []NoLostWakeup
<1>1. IInv => NoLostWakeup
  BY DEF IInv
<1> QED
  BY <1>1, PoolInvariant, PTL

\* The places of the pool, Client by Client.
LEMMA PlacesOfClients ==
    /\ \A c : c \in Places.idle <=> Lists(idle, c)
    /\ \A c : c \in Places.taken <=> \E t \in Threads : Lists(taken[t], c)
    /\ \A c : c \in Places.held <=> c # NoConn /\ \E t \in Threads : holds[t] = c
BY DEF Places, Lists

\* A Client has one owner: the idle stack, the thread it is lent to, or the
\* thread that closes it (pool.rs:160, 207-217, 227-231).
THEOREM PoolSingleOwner == Spec => []SingleOwner
<1>1. IInv => SingleOwner
  <2> SUFFICES ASSUME IInv PROVE SingleOwner
    OBVIOUS
  <2>1. /\ holds \in [Threads -> Conns \cup {NoConn}]
        /\ \A t \in Threads : taken[t] \in Seq(Conns)
        /\ idle \in Seq(Conns)
        /\ OwnedOnce
    BY DEF IInv, TypeOK, Owned
  <2>2. \A c : Lists(idle, c) => c \in Conns
    BY <2>1, ElementOfSeq, LenProperties DEF Lists
  <2>3. \A t \in Threads : \A c : Lists(taken[t], c) => c \in Conns
    BY <2>1, ElementOfSeq, LenProperties DEF Lists
  <2>4. \A t, u \in Threads : t # u /\ holds[t] # NoConn => holds[t] # holds[u]
    BY <2>1 DEF OwnedOnce
  <2>5. \A i, j \in DOMAIN idle : i # j => idle[i] # idle[j]
    BY <2>1 DEF OwnedOnce, Once
  <2>6. Places.idle \cap Places.held = {}
    BY <2>1, <2>2, PlacesOfClients DEF OwnedOnce
  <2>7. Places.taken \cap (Places.held \cup Places.idle) = {}
    BY <2>1, <2>3, PlacesOfClients DEF OwnedOnce
  <2> QED
    BY <2>4, <2>5, <2>6, <2>7 DEF SingleOwner
<1> QED
  BY <1>1, PoolInvariant, PTL

\* The open sockets are those of the Clients somebody owns: a slot that is
\* given back to a closed pool, a dial that ends after close() and a panic
\* neither lose a socket nor keep one (pool.rs:109-115, 207-217, 227-231).
THEOREM PoolSocketsOwned == Spec => []SocketsOwned
<1>1. IInv => SocketsOwned
  <2> SUFFICES ASSUME IInv PROVE SocketsOwned
    OBVIOUS
  <2>1. /\ holds \in [Threads -> Conns \cup {NoConn}] /\ sockets \subseteq Conns
        /\ \A t \in Threads : taken[t] \in Seq(Conns)
        /\ idle \in Seq(Conns)
        /\ OpenIsOwned
    BY DEF IInv, TypeOK, Owned
  <2>2. \A c : Lists(idle, c) => c \in Conns
    BY <2>1, ElementOfSeq, LenProperties DEF Lists
  <2>3. \A t \in Threads : \A c : Lists(taken[t], c) => c \in Conns
    BY <2>1, ElementOfSeq, LenProperties DEF Lists
  <2>4. \A c : c \in sockets <=>
            c \in Places.idle \/ c \in Places.taken \/ c \in Places.held
    BY <2>1, <2>2, <2>3, PlacesOfClients, PoolAssumption DEF OpenIsOwned
  <2> QED
    BY <2>4 DEF SocketsOwned
<1> QED
  BY <1>1, PoolInvariant, PTL

-----------------------------------------------------------------------------
\* Once close() has run nobody is given a connection or a slot: the only steps
\* that make a borrower are guarded by ~closed (pool.rs:156-158).
THEOREM PoolNoGrantAfterClose == Spec => NoGrantAfterClose
<1>1. ASSUME TypeOK, [Next]_vars, closed, NEW t \in Threads, t \in Borrowers'
      PROVE  t \in Borrowers
  <2>1. CASE UNCHANGED vars
    BY <1>1, <2>1 DEF vars, Borrowers, At
  <2>2. ASSUME NEW u \in Threads, Proceed(u) \/ Environment(u)
        PROVE  t \in Borrowers
    <3>1. ~TakeIdle(u) /\ ~TakeSlot(u)
      BY <1>1 DEF TakeIdle, TakeSlot
    <3>2. Borrowers' = Borrowers \/ Borrowers' = Borrowers \ {u}
      BY <1>1, <2>2, <3>1, BorrowersKept, BorrowerRemoved DEF Proceed, Environment
    <3> QED
      BY <1>1, <3>2
  <2> QED
    BY <1>1, <2>1, <2>2 DEF Next
<1>2. TypeOK /\ [Next]_vars =>
        [closed => \A t \in Threads : t \in Borrowers' => t \in Borrowers]_vars
  BY <1>1
<1> QED
  BY <1>2, PoolTypes, PTL DEF Spec, NoGrantAfterClose

-----------------------------------------------------------------------------
(* Refinement.                                                              *)

Asking == {t \in Threads : InAcquire(t)}

\* A free slot is one the borrowers do not fill: lent counts them all.
LEMMA RoomToGrant ==
    ASSUME TypeOK, WithinSize, SlotAccounting, lent < Size \/ idle # <<>>
    PROVE  Cardinality(Borrowers) < Size
<1>1. Cardinality(Borrowers) \in Nat
  <2>1. Borrowers \in SUBSET Threads /\ IsFiniteSet(Threads)
    BY PoolAssumption DEF Borrowers, At
  <2> QED
    BY <2>1, FS_Subset, FS_CardinalityType
<1>2. lent < Size
  <2>1. idle # <<>> => Len(idle) \in Nat \ {0}
    BY EmptySeq DEF TypeOK
  <2> QED
    BY <2>1, PoolAssumption DEF TypeOK, WithinSize
<1> QED
  BY <1>1, <1>2, PoolAssumption DEF TypeOK, SlotAccounting

\* Each step of the pool is one of bounded lending, or invisible there.
LEMMA LendingStep ==
    ASSUME IInv, NEW t \in Threads, Proceed(t) \/ Environment(t)
    PROVE  [Lend!Next]_Lend!vars
<1> USE DEF IInv, Lend!Next, Lend!vars
<1>0. TypeOK
  OBVIOUS
<1>1. CASE Call(t)
  <2>1. Lend!Ask(t)
    BY <1>1, BorrowersKept DEF Lend!Ask, Call, Go, TypeOK, InAcquire, Borrowers, At
  <2> QED
    BY <2>1
<1>2. CASE RefuseClosed(t) \/ GiveUp(t)
  <2>1. Borrowers' = Borrowers
    BY <1>2, BorrowersKept
  <2>2. Lend!Refuse(t)
    BY <1>2, <2>1 DEF Lend!Refuse, RefuseClosed, AtHead, GiveUp, Leave, TypeOK, InAcquire
  <2> QED
    BY <2>2
<1>3. CASE TakeIdle(t) \/ TakeSlot(t)
  <2>1. Cardinality(Borrowers) < Size
    BY <1>3, RoomToGrant DEF TakeIdle, TakeSlot
  <2>2. Borrowers' = Borrowers \cup {t}
    BY <1>3, BorrowerAdded
  <2>3. Lend!Cardinality(Borrowers) = Cardinality(Borrowers)
    BY DEF Lend!Cardinality, Cardinality
  <2>4. Lend!Grant(t)
    BY <1>3, <2>1, <2>2, <2>3 DEF Lend!Grant, TakeIdle, TakeSlot, AtHead, Leave, TypeOK, InAcquire
  <2> QED
    BY <2>4
<1>4. CASE DialFails(t) \/ (\E broken \in BOOLEAN : Release(t, broken)) \/ Panic(t)
  <2>1. t \in Borrowers /\ Borrowers' = Borrowers \ {t}
    BY <1>4, BorrowerRemoved
  <2>2. Asking' = Asking /\ closed' = closed
    <3>1. CASE DialFails(t)
      BY <3>1 DEF DialFails, NotifyOne, At, TypeOK, Asking, InAcquire
    <3>2. CASE (\E broken \in BOOLEAN : Release(t, broken)) \/ Panic(t)
      BY <3>2 DEF Release, Panic, Go, TypeOK, Asking, InAcquire
    <3> QED
      BY <1>4, <3>1, <3>2
  <2>3. Lend!Return(t)
    BY <2>1, <2>2 DEF Lend!Return, Asking
  <2> QED
    BY <2>3
<1>5. CASE Close(t)
  <2>1. Borrowers' = Borrowers /\ (~closed') = FALSE
    BY <1>5, BorrowersKept DEF Close
  <2>2. Asking' = Asking
    BY <1>5 DEF Close, Go, TypeOK, Asking, InAcquire
  <2>3. Lend!Shut
    BY <2>1, <2>2 DEF Lend!Shut, Asking
  <2> QED
    BY <2>3
<1>6. CASE \/ DeadlinePasses(t) \/ Wait(t) \/ Timeout(t) \/ SpuriousWake(t) \/ DialOk(t)
           \/ Retire(t) \/ NotifyFreed(t) \/ CloseNext(t) \/ NotifyAll(t)
  <2>1. Borrowers' = Borrowers
    BY <1>6, BorrowersKept
  <2>2. Asking' = Asking /\ closed' = closed
    <3> USE DEF TypeOK, Asking, InAcquire
    <3>1. CASE Timeout(t) \/ SpuriousWake(t) \/ DialOk(t) \/ Retire(t)
      BY <3>1 DEF Timeout, SpuriousWake, DialOk, Retire, Go
    <3>2. CASE DeadlinePasses(t) \/ Wait(t) \/ CloseNext(t)
      BY <3>2 DEF DeadlinePasses, Wait, Leave, CloseNext
    <3>3. CASE NotifyFreed(t) \/ NotifyAll(t)
      BY <3>3 DEF NotifyFreed, NotifyOne, NotifyAll, At
    <3> QED
      BY <1>6, <3>1, <3>2, <3>3
  <2> QED
    BY <2>1, <2>2 DEF Asking
<1> QED
  BY <1>0, <1>1, <1>2, <1>3, <1>4, <1>5, <1>6 DEF Proceed, Environment

\* The pool, whatever its threads do, is a bounded lender.
THEOREM PoolImplementsLending == Spec => ImplementsLending
<1>1. Init => Lend!Init
  BY DEF Init, Lend!Init, InAcquire, Borrowers, At
<1>2. IInv /\ [Next]_vars => [Lend!Next]_Lend!vars
  <2>1. CASE UNCHANGED vars
    BY <2>1 DEF vars, Lend!vars, InAcquire, Borrowers, At
  <2> QED
    BY <2>1, LendingStep DEF Next
<1> QED
  BY <1>1, <1>2, PoolInvariant, PTL DEF Spec, ImplementsLending, Lend!Spec
=============================================================================
