--------------------------- MODULE SessionTxnProofs ---------------------------
(****************************************************************************)
(* Safety of SessionTxn, for any number of borrowers, writes and blocks and *)
(* any bound on the pool's rollbacks.                                       *)
(****************************************************************************)
EXTENDS SessionTxn, FiniteSetTheorems, SequenceTheorems, TLAPS

Block == [by : Borrowers, writes : SUBSET Writes]

\* The client may think a transaction open that is not; the other way round only
\* after an answer that does not say, and then the closure is on its way out
\* with the error of a BEGIN, or misled.
ClientKnows == blocks # <<>> => txnOpen \/ outcome = "fatal" \/ borrower \in misled

\* A poisoned connection has no session, nor has one that is retired, or in
\* the pool unless its last borrower was misled.
NoSession ==
    /\ poisoned => ~txnOpen
    /\ poisoned \/ phase = "retired" => blocks = <<>>
    /\ phase = "pooled" => blocks = <<>> \/ borrower \in misled

\* run() has seen what the closure left open.
RunKnows == phase = "rolling" /\ txnOpen => leftOpen \/ poisoned \/ outcome = "fatal"

IInv ==
    /\ TypeOK
    /\ IsFiniteSet(made)
    /\ phase \in {"lent", "rolling"} => borrower \in Borrowers
    /\ ClientKnows
    /\ NoSession
    /\ RunKnows

-----------------------------------------------------------------------------
(* What a call does to the blocks.                                          *)

\* A sequence that is not empty has a last element, and one before it.
LEMMA LastOf ==
    ASSUME NEW S, NEW s \in Seq(S), s # <<>>
    PROVE  /\ Len(s) \in Nat /\ Len(s) >= 1
           /\ s[Len(s)] \in S
           /\ SubSeq(s, 1, Len(s) - 1) \in Seq(S)
           /\ Len(SubSeq(s, 1, Len(s) - 1)) = Len(s) - 1
<1>1. Len(s) \in Nat \ {0}
  BY EmptySeq
<1>2. \A i \in 1 .. Len(s) : s[i] \in S
  BY ElementOfSeq
<1> DEFINE n == Len(s) - 1
<1>3. n \in Nat /\ Len(s) = n + 1
  BY <1>1
<1>4. \A i \in 1 .. n : s[i] \in S
  BY <1>1, <1>2
<1> HIDE DEF n
<1>5. SubSeq(s, 1, n) \in Seq(S) /\ Len(SubSeq(s, 1, n)) = n
  BY <1>3, <1>4, SubSeqProperties
<1> QED
  BY <1>1, <1>2, <1>3, <1>5 DEF n

\* Closing a block takes one away and leaves blocks of the same kind.
LEMMA ClosedBlocks ==
    ASSUME NEW P, NEW W, NEW keyword,
           blocks \in Seq([by : P, writes : SUBSET W]), blocks # <<>>
    PROVE  /\ Closed(keyword) \in Seq([by : P, writes : SUBSET W])
           /\ Len(Closed(keyword)) = Len(blocks) - 1
<1> DEFINE n == Len(blocks)
           outer == SubSeq(blocks, 1, n - 1)
           B == [by : P, writes : SUBSET W]
<1>0. /\ n \in Nat /\ n >= 1 /\ blocks[n] \in B
      /\ outer \in Seq(B) /\ Len(outer) = n - 1
  <2> HIDE DEF B
  <2>1. blocks \in Seq(B)
    BY DEF B
  <2> QED
    BY <2>1, LastOf
<1>1. n \in Nat /\ n >= 1 /\ blocks[n] \in B
  BY <1>0
<1>2. outer \in Seq(B) /\ Len(outer) = n - 1
  BY <1>0
<1>3. CASE keyword = "COMMIT" /\ n > 1
  <2>1. n - 1 \in 1 .. Len(outer) /\ outer[n - 1] \in B
    BY <1>1, <1>2, <1>3
  <2> DEFINE merged == [outer[n - 1] EXCEPT !.writes = @ \cup blocks[n].writes]
  <2>2. merged \in B
    BY <1>1, <2>1
  <2> HIDE DEF merged
  <2>3. [outer EXCEPT ![n - 1] = merged] \in Seq(B)
    BY <1>2, <2>1, <2>2
  <2>4. Len([outer EXCEPT ![n - 1] = merged]) = n - 1
    BY <1>1, <1>2, <2>1
  <2>5. Closed(keyword) = [outer EXCEPT ![n - 1] = merged]
    BY <1>3 DEF Closed, merged
  <2> QED
    BY <2>3, <2>4, <2>5
<1>4. CASE ~(keyword = "COMMIT" /\ n > 1)
  BY <1>2, <1>4 DEF Closed
<1> QED
  BY <1>3, <1>4

\* The blocks hold writes of the kind their type says.
LEMMA HeldWrites ==
    ASSUME NEW P, NEW W, blocks \in Seq([by : P, writes : SUBSET W])
    PROVE  /\ Held \subseteq W
           /\ blocks # <<>> => blocks[Len(blocks)].writes \subseteq W
<1> DEFINE B == [by : P, writes : SUBSET W]
<1>0. \A i \in DOMAIN blocks : blocks[i] \in B
  <2> HIDE DEF B
  <2>1. blocks \in Seq(B)
    BY DEF B
  <2> QED
    BY <2>1, LenProperties, ElementOfSeq
<1>1. \A i \in DOMAIN blocks : blocks[i].writes \subseteq W
  BY <1>0
<1>2. blocks # <<>> => Len(blocks) \in DOMAIN blocks
  BY LastOf
<1> QED
  BY <1>1, <1>2 DEF Held

\* A new write is the current borrower's.
LEMMA NewWriteType ==
    ASSUME IsFiniteSet(made), borrower \in Borrowers, MaxWrites \in Nat, Cardinality(made) < MaxWrites
    PROVE  NewWrite \in [by : {borrower}, n : 1 .. MaxWrites] /\ NewWrite \in Writes
<1>1. Cardinality(made) \in Nat
  BY FS_CardinalityType
<1> QED
  BY <1>1 DEF NewWrite, Writes

-----------------------------------------------------------------------------
(* The invariant is inductive.                                              *)

\* BEGIN keeps the types, and opens nothing the client misses but on its way
\* out.
LEMMA BeginKeeps ==
    ASSUME IInv, borrower \in Borrowers, ~poisoned, NEW a \in BeginAnswers, BeginAnswered(a)
    PROVE  /\ blocks' \in Seq(Block)
           /\ {txnOpen', poisoned'} \subseteq BOOLEAN
           /\ outcome' \in {"none", "ok", "error", "fatal"}
           /\ undone' \subseteq Writes
           /\ misled \subseteq misled' /\ misled' \subseteq Borrowers
           /\ blocks' # <<>> => txnOpen' \/ outcome' = "fatal" \/ borrower \in misled'
           /\ poisoned' => blocks' = <<>> /\ ~txnOpen'
<1>1. Held \subseteq Writes
  BY HeldWrites DEF IInv, TypeOK
<1>2. <<>> \in Seq(Block) /\ blocks \in Seq(Block)
  BY EmptySeq DEF IInv, TypeOK, Block
<1>3. [by |-> borrower, writes |-> {}] \in Block
  BY DEF Block
<1>4. Append(blocks, [by |-> borrower, writes |-> {}]) \in Seq(Block)
  BY <1>2, <1>3, AppendProperties
<1> QED
  BY <1>1, <1>2, <1>4 DEF BeginAnswered, Drop, IInv, TypeOK, ClientKnows, Answers, BeginAnswers

\* What COMMIT or ROLLBACK does to the server's session, whoever is told, keeps
\* the types.
LEMMA ClosesKeeps ==
    ASSUME IInv, NEW keyword, NEW told \in BOOLEAN,
           ClosesBlock(keyword, told) \/ EndsAll(told) \/ UNCHANGED <<blocks, durable, undone>>
    PROVE  /\ blocks' \in Seq(Block)
           /\ durable' \subseteq Writes
           /\ undone' \subseteq Writes
<1>1. Held \subseteq Writes /\ (blocks # <<>> => blocks[Len(blocks)].writes \subseteq Writes)
  BY HeldWrites DEF IInv, TypeOK
<1>2. <<>> \in Seq(Block) /\ blocks \in Seq(Block)
  BY EmptySeq DEF IInv, TypeOK, Block
<1>3. Saved(keyword) \subseteq Writes /\ (blocks # <<>> => Discarded(keyword) \subseteq Writes)
  BY <1>1 DEF Saved, Discarded
<1>4. blocks # <<>> => Closed(keyword) \in Seq(Block)
  BY <1>2, ClosedBlocks DEF Block
<1>5. durable \subseteq Writes /\ undone \subseteq Writes
  BY DEF IInv, TypeOK
<1>6. CASE ClosesBlock(keyword, told)
  BY <1>3, <1>4, <1>5, <1>6 DEF ClosesBlock, Gone
<1>7. CASE EndsAll(told)
  BY <1>1, <1>2, <1>5, <1>7 DEF EndsAll, Gone
<1>8. CASE UNCHANGED <<blocks, durable, undone>>
  BY <1>2, <1>5, <1>8
<1> QED
  BY <1>6, <1>7, <1>8

\* COMMIT and ROLLBACK keep the types, and leave nothing open that the client
\* takes for closed, but where the answer does not say and the closure is misled.
LEMMA EndKeeps ==
    ASSUME IInv, borrower \in Borrowers, ~poisoned, NEW keyword, NEW a \in Answers,
           NEW told \in BOOLEAN, EndAnswered(keyword, a, told)
    PROVE  /\ blocks' \in Seq(Block)
           /\ {txnOpen', poisoned'} \subseteq BOOLEAN
           /\ durable' \subseteq Writes
           /\ undone' \subseteq Writes
           /\ misled \subseteq misled' /\ misled' \subseteq Borrowers
           /\ blocks' # <<>> => txnOpen' \/ outcome = "fatal" \/ borrower \in misled'
           /\ poisoned' => blocks' = <<>> /\ ~txnOpen'
<1>1. Held \subseteq Writes
  BY HeldWrites DEF IInv, TypeOK
<1>2. <<>> \in Seq(Block) /\ blocks \in Seq(Block)
  BY EmptySeq DEF IInv, TypeOK, Block
<1>3. /\ misled \subseteq misled' /\ misled' \subseteq Borrowers
      /\ {TRUE, FALSE, poisoned} \subseteq BOOLEAN
  BY DEF EndAnswered, IInv, TypeOK
<1>4. CASE a \in {"ok", "bad"}
  <2>1. /\ ClosesBlock(keyword, told) /\ poisoned' = poisoned
        /\ txnOpen' = IF a = "ok" THEN Len(blocks) > 1 ELSE txnOpen
    BY <1>4 DEF EndAnswered
  <2>2. blocks # <<>> /\ Len(blocks') = Len(blocks) - 1
    BY <2>1, <1>2, ClosedBlocks DEF Block, ClosesBlock
  <2>3. Len(blocks) \in Nat /\ Len(blocks) >= 1
    BY <1>2, <2>2, LastOf
  <2>4. blocks' \in Seq(Block) /\ durable' \subseteq Writes /\ undone' \subseteq Writes
    BY <2>1, ClosesKeeps
  <2>5. blocks' # <<>> => Len(blocks) > 1
    BY <2>2, <2>3, <2>4, EmptySeq, LastOf
  <2>6. {txnOpen', poisoned'} \subseteq BOOLEAN
    <3>1. txnOpen \in BOOLEAN /\ poisoned \in BOOLEAN /\ (Len(blocks) > 1) \in BOOLEAN
      BY DEF IInv, TypeOK
    <3>2. txnOpen' \in BOOLEAN
      BY <2>1, <3>1
    <3> QED
      BY <2>1, <3>1, <3>2
  <2>7. blocks' # <<>> => txnOpen' \/ outcome = "fatal" \/ borrower \in misled'
    <3>1. CASE a = "ok"
      BY <2>1, <2>5, <3>1
    <3>2. CASE a = "bad"
      <4>1. (txnOpen' <=> txnOpen) /\ (txnOpen \/ outcome = "fatal" \/ borrower \in misled)
        BY <2>1, <2>2, <3>2 DEF IInv, ClientKnows
      <4> QED
        BY <1>3, <4>1
    <3> QED
      BY <1>4, <3>1, <3>2
  <2> QED
    BY <1>3, <2>1, <2>4, <2>6, <2>7
<1>5. CASE a = "refused"
  <2>1. EndsAll(told) /\ txnOpen' = FALSE /\ poisoned' = poisoned
    BY <1>5 DEF EndAnswered
  <2>2. blocks' = <<>> /\ durable' \subseteq Writes /\ undone' \subseteq Writes
    BY <2>1, ClosesKeeps DEF EndsAll
  <2> QED
    BY <1>2, <1>3, <2>1, <2>2
<1>6. CASE a = "unclear"
  <2>1. /\ ClosesBlock(keyword, told) \/ EndsAll(told) \/ UNCHANGED <<blocks, durable, undone>>
        /\ txnOpen' = FALSE /\ poisoned' = poisoned
    BY <1>6 DEF EndAnswered
  <2>2. blocks' # <<>> => borrower \in misled'
    BY <1>6 DEF EndAnswered
  <2>3. blocks' \in Seq(Block) /\ durable' \subseteq Writes /\ undone' \subseteq Writes
    BY <2>1, ClosesKeeps
  <2> QED
    BY <1>3, <2>1, <2>2, <2>3
<1>7. CASE a = "lost"
  <2>1. Drop /\ \E saved \in {{}, Saved(keyword)} :
            /\ durable' = durable \cup saved
            /\ undone' = IF told THEN undone \cup (Held \ saved) ELSE undone
    BY <1>7 DEF EndAnswered, Gone
  <2>2. Saved(keyword) \subseteq Writes
    BY <1>1 DEF Saved
  <2> QED
    BY <1>1, <1>2, <1>3, <2>1, <2>2 DEF Drop, IInv, TypeOK
<1> QED
  BY <1>4, <1>5, <1>6, <1>7 DEF Answers

LEMMA InitInv == Init => IInv
<1> SUFFICES ASSUME Init PROVE IInv
  OBVIOUS
<1>0. 0 \in 0 .. MaxBorrowers /\ 0 \in 0 .. MaxOpenBlocks
  BY SessionTxnAssumption
<1>1. TypeOK
  BY <1>0, EmptySeq DEF Init, TypeOK
<1>2. IsFiniteSet(made)
  BY FS_EmptySet DEF Init
<1> QED
  BY <1>1, <1>2 DEF Init, IInv, ClientKnows, NoSession, RunKnows

LEMMA NextInv == IInv /\ [Next]_vars => IInv'
<1> SUFFICES ASSUME IInv, [Next]_vars PROVE IInv'
  OBVIOUS
<1> USE SessionTxnAssumption
<1>0. /\ MaxBorrowers \in Nat
      /\ 0 \in 0 .. MaxBorrowers /\ 0 \in 0 .. MaxOpenBlocks
  OBVIOUS
<1>t. TypeOK /\ blocks \in Seq(Block) /\ Held \subseteq Writes /\ <<>> \in Seq(Block)
  BY HeldWrites, EmptySeq DEF IInv, TypeOK, Block
<1>1. CASE SqlWrite
  <2>1. borrower \in Borrowers /\ NewWrite \in Writes
    BY <1>1, NewWriteType DEF SqlWrite, Calling, IInv
  <2>2. IsFiniteSet(made') /\ made' \subseteq Writes
    BY <1>1, <1>t, <2>1, FS_AddElement DEF SqlWrite, IInv, TypeOK
  <2>3. blocks' \in Seq(Block) /\ (blocks = <<>> => blocks' = <<>>)
    <3>1. CASE blocks = <<>>
      BY <1>1, <1>t, <3>1 DEF SqlWrite
    <3>2. CASE blocks # <<>>
      <4> DEFINE n == Len(blocks)
                 e == [blocks[n] EXCEPT !.writes = @ \cup {NewWrite}]
      <4>1. n \in 1 .. Len(blocks) /\ blocks[n] \in Block
        BY <1>t, <3>2, LastOf
      <4>2. e \in Block
        BY <4>1, <2>1 DEF Block
      <4>3. blocks' = [blocks EXCEPT ![n] = e]
        BY <1>1, <3>2 DEF SqlWrite
      <4> HIDE DEF e
      <4> QED
        BY <1>t, <3>2, <4>1, <4>2, <4>3, ExceptSeq
    <3> QED
      BY <3>1, <3>2
  <2>4. durable' \subseteq Writes
    BY <1>1, <1>t, <2>1 DEF SqlWrite, TypeOK
  <2>5. TypeOK'
    BY <1>1, <1>t, <2>2, <2>3, <2>4 DEF SqlWrite, TypeOK, run, Block
  <2> QED
    BY <1>1, <2>2, <2>3, <2>5 DEF SqlWrite, run, Calling, IInv, ClientKnows, NoSession, RunKnows
<1>2. CASE LostCall
  <2>1. TypeOK'
    BY <1>2, <1>t DEF LostCall, Drop, TypeOK, run, Block
  <2> QED
    BY <1>2, <2>1 DEF LostCall, Drop, Calling, run, IInv, ClientKnows, NoSession, RunKnows
<1>3. CASE Begin \/ WithBegin
  <2>1. PICK a \in BeginAnswers : BeginAnswered(a)
    BY <1>3 DEF Begin, WithBegin
  <2>2. phase = "lent" /\ ~poisoned /\ borrower \in Borrowers
    BY <1>3 DEF Begin, WithBegin, MayBegin, Calling, IInv
  <2>3. /\ UNCHANGED <<phase, borrower, named, leftOpen, rolls, rollErr, result, docs, durable,
                       made, promised, disowned>>
        /\ with' \in {"no", "outer", "inner"}
    BY <1>3, <1>t DEF Begin, WithBegin, TypeOK
  <2>4. TypeOK'
    BY <1>t, <2>1, <2>2, <2>3, BeginKeeps DEF TypeOK, Block
  <2>5. /\ blocks' # <<>> => txnOpen' \/ outcome' = "fatal" \/ borrower \in misled'
        /\ poisoned' => blocks' = <<>> /\ ~txnOpen'
    BY <2>1, <2>2, BeginKeeps
  <2> QED
    BY <2>2, <2>3, <2>4, <2>5 DEF IInv, ClientKnows, NoSession, RunKnows
<1>4. CASE End("COMMIT") \/ End("ROLLBACK")
  <2>1. PICK keyword \in {"COMMIT", "ROLLBACK"}, a \in Answers : EndAnswered(keyword, a, TRUE)
    BY <1>4 DEF End
  <2>2. phase = "lent" /\ ~poisoned /\ borrower \in Borrowers
    BY <1>4 DEF End, Calling, IInv
  <2>3. UNCHANGED <<phase, borrower, named, with, run, docs, made, promised, disowned>>
    BY <1>4 DEF End
  <2>4. TypeOK'
    BY <1>t, <2>1, <2>2, <2>3, EndKeeps DEF TypeOK, Block, run
  <2> QED
    BY <2>1, <2>2, <2>3, <2>4, EndKeeps DEF IInv, ClientKnows, NoSession, RunKnows, run
<1>5. CASE WithOk
  <2>1. /\ phase = "lent" /\ with' = "no" /\ borrower \in Borrowers
        /\ UNCHANGED <<phase, borrower, named, run, docs, made, disowned>>
    BY <1>5 DEF WithOk, IInv
  <2>2. CASE poisoned
    <3>1. UNCHANGED <<txnOpen, poisoned, blocks, durable, undone, promised, misled>>
      BY <1>5, <2>2 DEF WithOk
    <3>2. TypeOK'
      BY <1>t, <2>1, <3>1 DEF TypeOK, run
    <3> QED
      BY <2>1, <3>1, <3>2 DEF run, IInv, ClientKnows, NoSession, RunKnows
  <2>3. CASE ~poisoned
    <3>1. PICK a \in Answers : EndAnswered("COMMIT", a, TRUE)
      BY <1>5, <2>3 DEF WithOk
    <3>2. promised' \subseteq Writes
      BY <1>5, <1>t, <2>3 DEF WithOk, TypeOK
    <3>3. TypeOK'
      BY <1>t, <2>1, <2>3, <3>1, <3>2, EndKeeps DEF TypeOK, Block, run
    <3> QED
      BY <2>1, <2>3, <3>1, <3>3, EndKeeps DEF IInv, ClientKnows, NoSession, RunKnows, run
  <2> QED
    BY <2>2, <2>3
<1>6. CASE WithErr
  <2>1. /\ phase = "lent" /\ with' = "no" /\ disowned' \subseteq Writes /\ borrower \in Borrowers
        /\ UNCHANGED <<phase, borrower, named, run, docs, made, promised>>
    BY <1>6, <1>t DEF WithErr, TypeOK, IInv
  <2>2. CASE ~txnOpen
    <3>1. UNCHANGED <<txnOpen, poisoned, blocks, durable, undone, misled>>
      BY <1>6, <2>2 DEF WithErr
    <3>2. TypeOK'
      BY <1>t, <2>1, <3>1 DEF TypeOK, run
    <3> QED
      BY <2>1, <3>1, <3>2 DEF run, IInv, ClientKnows, NoSession, RunKnows
  <2>3. CASE txnOpen
    <3>1. PICK a \in Answers : EndAnswered("ROLLBACK", a, TRUE)
      BY <1>6, <2>3 DEF WithErr
    <3>2. ~poisoned
      BY <2>3 DEF IInv, NoSession
    <3>3. TypeOK'
      BY <1>t, <2>1, <3>1, <3>2, EndKeeps DEF TypeOK, Block, run
    <3> QED
      BY <2>1, <3>1, <3>2, <3>3, EndKeeps DEF IInv, ClientKnows, NoSession, RunKnows, run
  <2> QED
    BY <2>2, <2>3
<1>7. CASE NamedCall
  <2>0. borrower \in Borrowers
    BY <1>7 DEF NamedCall, NamedBegin, NamedWrite, NamedEnd, SetRequestTxn
  <2>1. CASE NamedBegin
    <3>1. TypeOK'
      BY <2>0, <2>1, <1>t DEF NamedBegin, history, run, TypeOK
    <3> QED
      BY <2>1, <3>1 DEF NamedBegin, history, run, IInv, ClientKnows, NoSession, RunKnows
  <2>2. CASE NamedWrite
    <3>1. NewWrite \in Writes
      BY <2>0, <2>2, NewWriteType DEF NamedWrite, IInv
    <3>2. IsFiniteSet(made') /\ made' \subseteq Writes
      BY <2>2, <1>t, <3>1, FS_AddElement DEF NamedWrite, IInv, TypeOK
    <3>3. docs' \in [Borrowers -> [state : {"none", "open", "over"}, writes : SUBSET Writes]]
      <4>1. named # 0 => named \in Borrowers
        BY <1>0, <1>t DEF TypeOK, Borrowers
      <4>2. CASE named = 0
        BY <2>2, <1>t, <4>2 DEF NamedWrite, TypeOK
      <4>3. CASE named # 0
        BY <2>2, <1>t, <3>1, <4>1, <4>3 DEF NamedWrite, TypeOK
      <4> QED
        BY <4>2, <4>3
    <3>4. TypeOK'
      BY <2>2, <1>t, <3>1, <3>2, <3>3 DEF NamedWrite, TypeOK, run
    <3> QED
      BY <2>2, <3>2, <3>4 DEF NamedWrite, run, IInv, ClientKnows, NoSession, RunKnows
  <2>3. CASE NamedEnd("COMMIT") \/ NamedEnd("ROLLBACK")
    <3>0. docs[borrower].writes \subseteq Writes
      BY <2>0, <1>t DEF TypeOK
    <3>1. durable' \subseteq Writes /\ undone' \subseteq Writes
      BY <2>3, <1>t, <3>0 DEF NamedEnd, TypeOK
    <3>2. docs' \in [Borrowers -> [state : {"none", "open", "over"}, writes : SUBSET Writes]]
      BY <2>0, <2>3, <1>t DEF NamedEnd, TypeOK
    <3>3. \/ Drop
          \/ UNCHANGED <<poisoned, txnOpen, blocks>>
      BY <2>3 DEF NamedEnd
    <3>4. TypeOK'
      BY <1>0, <2>3, <1>t, <3>1, <3>2, <3>3, ZenonT(60) DEF NamedEnd, TypeOK, run, Drop, Block
    <3> QED
      BY <2>3, <3>3, <3>4 DEF NamedEnd, Drop, Calling, run, IInv, ClientKnows, NoSession, RunKnows
  <2>4. CASE \E txn \in {0, borrower} : SetRequestTxn(txn)
    <3>1. TypeOK'
      BY <2>0, <2>4, <1>t DEF SetRequestTxn, server, history, run, TypeOK, Borrowers
    <3> QED
      BY <2>4, <3>1 DEF SetRequestTxn, server, history, run, IInv, ClientKnows, NoSession, RunKnows
  <2> QED
    BY <1>7, <2>1, <2>2, <2>3, <2>4 DEF NamedCall
<1>8. CASE Lend
  <2>0. borrower' \in Borrowers /\ borrower' \in 0 .. MaxBorrowers
    BY <1>0, <1>8, <1>t DEF Lend, TypeOK, Borrowers
  <2>1. TypeOK'
    BY <1>0, <1>8, <1>t, <2>0 DEF Lend, TypeOK, server
  <2>2. blocks' # <<>> => borrower' \in misled'
    BY <1>8 DEF Lend, server, IInv, NoSession
  <2> QED
    BY <1>8, <2>0, <2>1, <2>2 DEF Lend, server, IInv, ClientKnows, NoSession, RunKnows
<1>9. CASE \E o \in {"ok", "error", "fatal"} : Return(o)
  <2>1. TypeOK'
    BY <1>9, <1>t DEF Return, TypeOK, server, history
  <2> QED
    BY <1>9, <2>1 DEF Return, server, history, IInv, TypeOK, ClientKnows, NoSession, RunKnows
<1>10. CASE RollBack
  <2>1. PICK a \in Answers : EndAnswered("ROLLBACK", a, FALSE) /\ rollErr' = (a # "ok")
    BY <1>10 DEF RollBack
  <2>2. ~poisoned /\ borrower \in Borrowers
    BY <1>10 DEF RollBack, IInv, NoSession
  <2>3. /\ rolls' \in 0 .. MaxOpenBlocks
        /\ UNCHANGED <<phase, borrower, named, with, outcome, leftOpen, result, docs, made, promised, disowned>>
    BY <1>10, <1>t DEF RollBack, TypeOK
  <2>4. TypeOK'
    BY <1>t, <2>1, <2>2, <2>3, EndKeeps DEF TypeOK, Block
  <2>5. /\ blocks' # <<>> => txnOpen' \/ outcome = "fatal" \/ borrower \in misled'
        /\ poisoned' => blocks' = <<>> /\ ~txnOpen'
    BY <2>1, <2>2, EndKeeps
  <2>6. phase = "rolling" /\ leftOpen
    BY <1>10 DEF RollBack
  <2> QED
    BY <2>3, <2>4, <2>5, <2>6 DEF IInv, ClientKnows, NoSession, RunKnows
<1>11. CASE GiveBack
  <2>1. TypeOK'
    BY <1>11, <1>t DEF GiveBack, ResultOf, TypeOK, history, Block
  <2> QED
    BY <1>11, <2>1 DEF GiveBack, Broken, history, IInv, TypeOK, ClientKnows, NoSession, RunKnows
<1>12. CASE Redial
  <2>1. TypeOK'
    BY <1>0, <1>12, <1>t DEF Redial, TypeOK, server, history, run
  <2> QED
    BY <1>12, <2>1 DEF Redial, server, history, run, IInv, ClientKnows, NoSession, RunKnows
<1>13. CASE UNCHANGED vars
  <2>1. TypeOK'
    BY <1>13, <1>t DEF vars, TypeOK, server, history, run
  <2> QED
    BY <1>13, <2>1 DEF vars, server, history, run, IInv, ClientKnows, NoSession, RunKnows
<1> QED
  BY <1>1, <1>2, <1>3, <1>4, <1>5, <1>6, <1>7, <1>8, <1>9, <1>10, <1>11, <1>12, <1>13
     DEF Next, SessionCall, WithTransactionStep, PoolStep

LEMMA Invariance == Spec => []IInv
  BY InitInv, NextInv, PTL DEF Spec

\* Every variable keeps its type.
THEOREM SessionTypes == Spec => []TypeOK
<1>1. IInv => TypeOK
  BY DEF IInv
<1> QED
  BY <1>1, Invariance, PTL

\* A connection never goes back to the pool with a session transaction open, as
\* long as each BEGIN, COMMIT and ROLLBACK on it was answered ok, refused, with
\* a success that does not decode, or not at all (pool.rs:122-140).  Where an
\* answer that does not say left a block open, its closure is misled and the
\* theorem says nothing: RolledBackOrRetired, which a run refutes, is that case.
THEOREM SessionNeverReturnedOpen == Spec => []NeverReturnedOpen
<1>1. IInv => NeverReturnedOpen
  BY DEF IInv, NoSession, NeverReturnedOpen
<1> QED
  BY <1>1, Invariance, PTL
-----------------------------------------------------------------------------
(* The blocks are the current borrower's, and so is what they hold.         *)

\* Whose writes a block may hold: the borrower's, or those of all the misled
\* once it is one of them.
Authors == IF borrower \in misled THEN misled ELSE {borrower}

Own == [by : Authors, writes : SUBSET [by : Authors, n : 1 .. MaxWrites]]

OwnBlocks == blocks \in Seq(Own)

\* Blocks that were some authors' are also those of more.
LEMMA AuthorsGrow ==
    ASSUME Authors \subseteq Authors', NEW s \in Seq(Own)
    PROVE  s \in Seq(Own')
<1>1. Own \subseteq Own'
  BY DEF Own
<1> QED
  BY <1>1, SeqMonotonic

\* What COMMIT or ROLLBACK leaves is the same authors', and the borrower's who
\* joins the misled.
LEMMA EndOwn ==
    ASSUME OwnBlocks, NEW keyword, NEW a, NEW told, EndAnswered(keyword, a, told), borrower' = borrower
    PROVE  OwnBlocks'
<1>1. blocks' \in Seq(Own)
  <2>1. CASE blocks' = Closed(keyword) /\ blocks # <<>>
    <3> DEFINE P == Authors
               W == [by : Authors, n : 1 .. MaxWrites]
    <3>1. blocks \in Seq([by : P, writes : SUBSET W])
      BY DEF OwnBlocks, Own
    <3> HIDE DEF P, W
    <3>2. Closed(keyword) \in Seq([by : P, writes : SUBSET W])
      BY <2>1, <3>1, ClosedBlocks
    <3> QED
      BY <2>1, <3>2 DEF Own, P, W
  <2>2. CASE blocks' = <<>>
    BY <2>2, EmptySeq
  <2>3. CASE blocks' = blocks
    BY <2>3 DEF OwnBlocks
  <2> QED
    BY <2>1, <2>2, <2>3 DEF EndAnswered, ClosesBlock, EndsAll, Drop
<1>2. Authors \subseteq Authors'
  BY DEF EndAnswered, Authors
<1> QED
  BY <1>1, <1>2, AuthorsGrow DEF OwnBlocks

\* A closure that goes on unaware joins the misled, with its blocks.
LEMMA BeginOwn ==
    ASSUME OwnBlocks, NEW a \in BeginAnswers, BeginAnswered(a), borrower' = borrower
    PROVE  OwnBlocks'
<1>1. Authors \subseteq Authors' /\ borrower \in Authors
  BY DEF BeginAnswered, Authors
<1>2. blocks' \in Seq(Own)
  <2>1. CASE blocks' = Append(blocks, [by |-> borrower, writes |-> {}])
    <3>1. [by |-> borrower, writes |-> {}] \in Own
      BY <1>1 DEF Own
    <3> QED
      BY <2>1, <3>1, AppendProperties DEF OwnBlocks
  <2>2. CASE blocks' = <<>>
    BY <2>2, EmptySeq
  <2>3. CASE blocks' = blocks
    BY <2>3 DEF OwnBlocks
  <2> QED
    BY <2>1, <2>2, <2>3 DEF BeginAnswered, Drop, BeginAnswers, Answers
<1> QED
  BY <1>1, <1>2, AuthorsGrow DEF OwnBlocks

\* A statement joins the innermost block with a write of the borrower's.
LEMMA WriteOwn ==
    ASSUME IInv, OwnBlocks, SqlWrite
    PROVE  blocks' \in Seq(Own)
<1>1. CASE blocks = <<>>
  BY <1>1 DEF SqlWrite, OwnBlocks
<1>2. CASE blocks # <<>>
  <2> DEFINE n == Len(blocks)
             e == [blocks[n] EXCEPT !.writes = @ \cup {NewWrite}]
  <2>1. n \in 1 .. Len(blocks) /\ blocks[n] \in Own
    BY <1>2, LastOf DEF OwnBlocks
  <2>2. NewWrite \in [by : Authors, n : 1 .. MaxWrites]
    BY SessionTxnAssumption, NewWriteType DEF SqlWrite, Calling, IInv, Authors
  <2>3. e \in Own
    BY <2>1, <2>2 DEF Own
  <2>4. blocks' = [blocks EXCEPT ![n] = e]
    BY <1>2 DEF SqlWrite
  <2> HIDE DEF e
  <2> QED
    BY <2>1, <2>3, <2>4, ExceptSeq DEF OwnBlocks
<1> QED
  BY <1>1, <1>2

LEMMA NextOwn ==
    ASSUME IInv, OwnBlocks, [Next]_vars
    PROVE  OwnBlocks'
<1>1. CASE Begin \/ WithBegin
  BY <1>1, BeginOwn DEF Begin, WithBegin
<1>2. CASE Lend
  <2>1. blocks' = blocks
    BY <1>2 DEF Lend, server
  <2>2. CASE blocks = <<>>
    BY <2>1, <2>2, EmptySeq DEF OwnBlocks
  <2>3. CASE blocks # <<>>
    <3>1. borrower \in misled /\ misled \subseteq misled' /\ borrower' \in misled'
      BY <1>2, <2>3 DEF Lend, IInv, NoSession
    <3>2. Authors \subseteq Authors'
      BY <3>1 DEF Authors
    <3> QED
      BY <2>1, <3>2, AuthorsGrow DEF OwnBlocks
  <2> QED
    BY <2>2, <2>3
<1>3. ASSUME UNCHANGED <<borrower, misled>>, blocks' \in Seq(Own)
      PROVE  OwnBlocks'
  BY <1>3 DEF OwnBlocks, Own, Authors
<1>4. CASE SqlWrite
  BY <1>3, <1>4, WriteOwn DEF SqlWrite
<1>5. CASE LostCall
  BY <1>3, <1>5, EmptySeq DEF LostCall, Drop
<1>6. CASE End("COMMIT") \/ End("ROLLBACK")
  BY <1>6, EndOwn DEF End
<1>7. CASE WithOk
  <2>1. CASE poisoned
    BY <1>3, <1>7, <2>1 DEF WithOk, OwnBlocks
  <2>2. CASE ~poisoned
    BY <1>7, <2>2, EndOwn DEF WithOk
  <2> QED
    BY <2>1, <2>2
<1>8. CASE WithErr
  <2>1. CASE txnOpen
    BY <1>8, <2>1, EndOwn DEF WithErr
  <2>2. CASE ~txnOpen
    BY <1>3, <1>8, <2>2 DEF WithErr, OwnBlocks
  <2> QED
    BY <2>1, <2>2
<1>9. CASE NamedCall
  <2>1. UNCHANGED <<borrower, misled>> /\ (blocks' = blocks \/ blocks' = <<>>)
    BY <1>9 DEF NamedCall, NamedBegin, NamedWrite, NamedEnd, SetRequestTxn, server, history, Drop
  <2> QED
    BY <1>3, <2>1, EmptySeq DEF OwnBlocks
<1>10. CASE \E o \in {"ok", "error", "fatal"} : Return(o)
  BY <1>3, <1>10 DEF Return, server, history, OwnBlocks
<1>11. CASE RollBack
  BY <1>11, EndOwn DEF RollBack
<1>12. CASE GiveBack
  BY <1>3, <1>12, EmptySeq DEF GiveBack, history, OwnBlocks
<1>13. CASE Redial
  BY <1>3, <1>13 DEF Redial, server, history, OwnBlocks
<1>14. CASE UNCHANGED vars
  BY <1>3, <1>14 DEF vars, server, history, OwnBlocks
<1> QED
  BY <1>1, <1>2, <1>4, <1>5, <1>6, <1>7, <1>8, <1>9, <1>10, <1>11, <1>12, <1>13, <1>14
     DEF Next, SessionCall, WithTransactionStep, PoolStep

LEMMA OwnInvariance == Spec => []OwnBlocks
<1>1. Init => OwnBlocks
  BY EmptySeq DEF Init, OwnBlocks
<1>2. IInv /\ OwnBlocks /\ [Next]_vars => OwnBlocks'
  BY NextOwn
<1> QED
  BY <1>1, <1>2, Invariance, PTL DEF Spec

NoNamed == \A b \in Borrowers : docs[b].writes = {}

LEMMA NextNoNamed ==
    ASSUME NamedUsers = {}, NoNamed, [Next]_vars
    PROVE  NoNamed'
<1>1. ~NamedCall
  BY DEF NamedCall, NamedBegin, NamedWrite, NamedEnd, SetRequestTxn
<1>2. docs' = docs
  BY <1>1 DEF Next, SessionCall, SqlWrite, LostCall, Begin, End, WithTransactionStep, WithBegin,
              WithOk, WithErr, PoolStep, Lend, Return, RollBack, GiveBack, Redial, vars, server
<1> QED
  BY <1>2 DEF NoNamed

\* Where no closure uses document or graph transactions, a transaction holds
\* the writes of the closure that opened it and of no other, whatever the
\* closures do; but a closure misled by an answer that did not say what became
\* of its transaction, and those lent the connection after it, write into the
\* block it left.  The named transactions break it without any such answer
\* (Pool::run does not look at request_txn).
THEOREM SessionOwnTransaction ==
    ASSUME NamedUsers = {}
    PROVE  Spec => []OwnTransaction
<1>1. Init => NoNamed
  BY DEF Init, NoNamed
<1>2. NoNamed /\ [Next]_vars => NoNamed'
  BY NextNoNamed
<1>3. OwnBlocks /\ NoNamed => OwnTransaction
  <2> SUFFICES ASSUME OwnBlocks, NoNamed PROVE OwnTransaction
    OBVIOUS
  <2>1. \A i \in DOMAIN blocks : blocks[i] \in Own
    BY LenProperties, ElementOfSeq DEF OwnBlocks
  <2> QED
    BY <2>1 DEF OwnTransaction, Own, Authors, NoNamed
<1> QED
  BY <1>1, <1>2, <1>3, OwnInvariance, PTL DEF Spec
-----------------------------------------------------------------------------
(* Where a write is: in a block, in a named transaction, durable, undone.   *)

InDocs == UNION {docs[b].writes : b \in Borrowers}

\* A write that is pending in a block is nowhere else yet.
HeldIsPending == Held \cap (durable \cup InDocs) = {}

\* Writes are counted, and closures too.
MadeIsNumbered == \A w \in made : w.n <= Cardinality(made) /\ w.by <= borrower

AllMade == Held \cup durable \cup InDocs \cup disowned \subseteq made

\* Only a nester has a block inside a block.
FlatBlocks == Len(blocks) > 1 => borrower \in Nesters \cup misled

\* A closure that opens no blocks of its own has nothing in a block the client
\* takes for closed: its one block is gone, or new and empty.
FlatHolds == phase = "lent" /\ ~txnOpen /\ borrower \notin Nesters \cup misled => Held = {}

PromisedIsDurable == \A w \in promised : w.by \notin Nesters \cup misled => w \in durable

\* What with_transaction disowned is nowhere it could still become durable from.
DisownedIsGone ==
    \A w \in disowned : w.by \notin Nesters \cup misled => w \notin durable \cup InDocs \cup Held

\* run() has a result only when it is done.
ResultIsLast == result # "none" => phase \in {"pooled", "retired"}

\* While a closure runs, and after it left nothing open, each of its writes is
\* in one of four places.
Accounted ==
    \/ phase = "lent"
    \/ phase = "rolling" /\ ~leftOpen
    \/ result = "ok"
    => \A w \in made : w.by = borrower => w \in Held \cup durable \cup undone \cup InDocs

Ledger ==
    /\ HeldIsPending /\ MadeIsNumbered /\ AllMade
    /\ FlatBlocks /\ FlatHolds
    /\ PromisedIsDurable /\ DisownedIsGone
    /\ ResultIsLast /\ Accounted

LEMMA OwnHeld ==
    ASSUME OwnBlocks
    PROVE  \A w \in Held : w.by = borrower \/ w.by \in misled
<1>1. \A i \in DOMAIN blocks : blocks[i] \in Own
  BY LenProperties, ElementOfSeq DEF OwnBlocks
<1> QED
  BY <1>1 DEF Own, Authors, Held

LEMMA NothingHeld ==
    /\ blocks = <<>> => Held = {}
    /\ blocks' = <<>> => Held' = {}
BY DEF Held

\* COMMIT and ROLLBACK of one block: what it held is in the block outside it,
\* saved, or thrown away.
LEMMA ClosedHeld ==
    ASSUME blocks \in Seq(Block), blocks # <<>>, NEW keyword \in {"COMMIT", "ROLLBACK"},
           blocks' = Closed(keyword)
    PROVE  /\ Held' \subseteq Held
           /\ Saved(keyword) \subseteq Held /\ Discarded(keyword) \subseteq Held
           /\ Held \subseteq Held' \cup Saved(keyword) \cup Discarded(keyword)
           /\ Saved(keyword) = {} \/ Held' = {}
           /\ Len(blocks') = Len(blocks) - 1
           /\ Len(blocks) <= 1 => Held' = {}
<1> DEFINE n == Len(blocks)
           outer == SubSeq(blocks, 1, n - 1)
<1>1. /\ n \in Nat /\ n >= 1 /\ DOMAIN blocks = 1 .. n
      /\ outer \in Seq(Block) /\ Len(outer) = n - 1
  BY LastOf, LenProperties
<1>2. \A i \in 1 .. n - 1 : outer[i] = blocks[i]
  BY <1>1, SubSeqProperties
<1>3. blocks' \in Seq(Block) /\ Len(blocks') = n - 1
  BY ClosedBlocks DEF Block
<1>4. DOMAIN blocks' = 1 .. n - 1
  BY <1>3, LenProperties
<1>5. \A i \in 1 .. n - 1 :
        blocks'[i].writes = blocks[i].writes
                            \cup (IF keyword = "COMMIT" /\ i = n - 1 THEN blocks[n].writes ELSE {})
  <2>1. CASE keyword = "COMMIT" /\ n > 1
    <3>1. n - 1 \in 1 .. Len(outer) /\ outer[n - 1] \in Block
      BY <1>1, <2>1, ElementOfSeq
    <3>2. blocks' = [outer EXCEPT ![n - 1].writes = @ \cup blocks[n].writes]
      BY <2>1 DEF Closed
    <3>3. DOMAIN outer = 1 .. n - 1
      BY <1>1, LenProperties
    <3>4. blocks'[n - 1].writes = outer[n - 1].writes \cup blocks[n].writes
      BY <3>1, <3>2, <3>3, <1>1 DEF Block
    <3>5. \A i \in 1 .. n - 1 : i # n - 1 => blocks'[i] = outer[i]
      BY <3>2, <3>3
    <3> QED
      BY <1>1, <1>2, <2>1, <3>1, <3>4, <3>5
  <2>2. CASE ~(keyword = "COMMIT" /\ n > 1)
    <3>1. blocks' = outer
      BY <2>2 DEF Closed
    <3>2. \A i \in 1 .. n - 1 : ~(keyword = "COMMIT" /\ i = n - 1)
      <4> HIDE DEF n
      <4>1. \A i \in 1 .. n - 1 : i = n - 1 => n > 1
        BY <1>1
      <4> QED
        BY <2>2, <4>1
    <3> QED
      BY <1>2, <3>1, <3>2
  <2> QED
    BY <2>1, <2>2
<1>6. Held = UNION {blocks[i].writes : i \in 1 .. n}
  BY <1>1 DEF Held
<1>7. Held' = UNION {blocks'[i].writes : i \in 1 .. n - 1}
  BY <1>4 DEF Held
<1> HIDE DEF n
<1>8. n \in 1 .. n /\ blocks[n].writes \subseteq Held
  BY <1>1, <1>6
<1>9. Held' \subseteq Held
  <2> SUFFICES ASSUME NEW i \in 1 .. n - 1 PROVE blocks'[i].writes \subseteq Held
    BY <1>7
  <2>1. i \in 1 .. n
    BY <1>1
  <2> QED
    BY <1>5, <1>6, <1>8, <2>1
<1>10. \A i \in 1 .. n - 1 : blocks[i].writes \subseteq Held'
  BY <1>5, <1>7
<1>11. blocks[n].writes \subseteq Held' \cup Saved(keyword) \cup Discarded(keyword)
  <2>1. CASE keyword = "ROLLBACK"
    BY <2>1 DEF Discarded, n
  <2>2. CASE keyword = "COMMIT" /\ n = 1
    BY <1>8, <2>2 DEF Saved, n
  <2>3. CASE keyword = "COMMIT" /\ n > 1
    <3>1. n - 1 \in 1 .. n - 1
      BY <1>1, <2>3
    <3> QED
      BY <1>5, <1>7, <2>3, <3>1
  <2> QED
    BY <1>1, <2>1, <2>2, <2>3
<1>12. Held \subseteq Held' \cup Saved(keyword) \cup Discarded(keyword)
  <2> SUFFICES ASSUME NEW i \in 1 .. n
               PROVE  blocks[i].writes \subseteq Held' \cup Saved(keyword) \cup Discarded(keyword)
    BY <1>6
  <2>1. i = n \/ i \in 1 .. n - 1
    BY <1>1
  <2> QED
    BY <1>10, <1>11, <2>1
<1>13. n <= 1 => Held' = {}
  BY <1>1, <1>7
<1>14. /\ Saved(keyword) \subseteq Held /\ Discarded(keyword) \subseteq Held
       /\ Saved(keyword) = {} \/ n = 1
  BY <1>8 DEF Saved, Discarded, n
<1>15. Len(blocks') = Len(blocks) - 1 /\ (Len(blocks) <= 1 => Held' = {})
  BY <1>3, <1>13 DEF n
<1>16. n = 1 => Held' = {}
  BY <1>13
<1> QED
  BY <1>9, <1>12, <1>14, <1>15, <1>16

\* An answer to COMMIT or ROLLBACK makes durable only what the blocks held, and
\* then leaves no block; what the closure is told of is accounted for; and if a
\* single block is left as it was, the closure is misled.
LEMMA EndMoves ==
    ASSUME IInv, NEW keyword \in {"COMMIT", "ROLLBACK"}, NEW a \in Answers, NEW told \in BOOLEAN,
           EndAnswered(keyword, a, told)
    PROVE  /\ Held' \subseteq Held
           /\ durable \subseteq durable' /\ durable' \subseteq durable \cup Held
           /\ durable' = durable \/ Held' = {}
           /\ undone \subseteq undone' /\ misled \subseteq misled'
           /\ told => Held \subseteq Held' \cup durable' \cup undone'
           /\ Len(blocks') > 1 => Len(blocks) > 1
           /\ ~(Len(blocks) > 1) => Held' = {} \/ borrower \in misled'
           /\ keyword = "COMMIT" /\ a = "ok" /\ ~(Len(blocks) > 1) => Held \subseteq durable'
<1>0. blocks \in Seq(Block) /\ Len(blocks) \in Nat
  BY LenProperties DEF IInv, TypeOK, Block
<1>m. misled \subseteq misled'
  BY DEF EndAnswered
<1>1. CASE ClosesBlock(keyword, told)
  <2>1. /\ blocks # <<>> /\ blocks' = Closed(keyword)
        /\ durable' = durable \cup Saved(keyword)
        /\ undone' = IF told THEN undone \cup Discarded(keyword) ELSE undone
    BY <1>1 DEF ClosesBlock, Gone
  <2>2. Len(blocks) >= 1
    BY <1>0, <2>1, LastOf
  <2>3. /\ Held' \subseteq Held
        /\ Saved(keyword) \subseteq Held /\ Discarded(keyword) \subseteq Held
        /\ Held \subseteq Held' \cup Saved(keyword) \cup Discarded(keyword)
        /\ Saved(keyword) = {} \/ Held' = {}
        /\ Len(blocks') = Len(blocks) - 1
        /\ Len(blocks) <= 1 => Held' = {}
    BY <1>0, <2>1, ClosedHeld
  <2>4. ~(Len(blocks) > 1) => Len(blocks) = 1
    <3> DEFINE n == Len(blocks)
    <3>1. n \in Nat /\ n >= 1
      BY <1>0, <2>2
    <3> HIDE DEF n
    <3>2. ~(n > 1) => n = 1
      BY <3>1
    <3> QED
      BY <3>2 DEF n
  <2>5. (Len(blocks') > 1 => Len(blocks) > 1) /\ (~(Len(blocks) > 1) => Held' = {})
    BY <1>0, <2>2, <2>3
  <2>6. keyword = "COMMIT" /\ ~(Len(blocks) > 1) => Saved(keyword) = Held
    BY <2>4 DEF Saved
  <2> QED
    BY <1>m, <2>1, <2>3, <2>5, <2>6
<1>2. CASE EndsAll(told) /\ a # "ok"
  <2>1. /\ blocks' = <<>> /\ durable' = durable
        /\ undone' = IF told THEN undone \cup Held ELSE undone
    BY <1>2 DEF EndsAll, Gone
  <2>2. Held' = {} /\ Len(blocks') = 0
    BY <2>1, NothingHeld
  <2> QED
    BY <1>2, <1>m, <2>1, <2>2
<1>4. CASE a = "unclear" /\ UNCHANGED <<blocks, durable, undone>>
  <2>1. Held' = Held
    BY <1>4 DEF Held
  <2>2. Held' = {} \/ borrower \in misled'
    BY <1>4, NothingHeld DEF EndAnswered
  <2> QED
    BY <1>4, <1>m, <2>1, <2>2
<1>3. CASE a = "lost"
  <2>1. PICK saved \in {{}, Saved(keyword)} :
            /\ blocks' = <<>> /\ durable' = durable \cup saved
            /\ undone' = IF told THEN undone \cup (Held \ saved) ELSE undone
    BY <1>3 DEF EndAnswered, Drop, Gone
  <2>2. Held' = {} /\ Len(blocks') = 0
    BY <2>1, NothingHeld
  <2>3. saved \subseteq Held
    BY DEF Saved
  <2> QED
    BY <1>3, <1>m, <2>1, <2>2, <2>3
<1> QED
  BY <1>1, <1>2, <1>3, <1>4 DEF Answers, EndAnswered

\* BEGIN opens an empty block, or loses what there was and says so.
LEMMA BeginMoves ==
    ASSUME IInv, borrower \in Borrowers, NEW a \in BeginAnswers, BeginAnswered(a)
    PROVE  /\ Held' \subseteq Held
           /\ undone \subseteq undone' /\ Held \subseteq Held' \cup undone'
           /\ Len(blocks') > 1 => blocks # <<>>
<1>1. CASE a = "lost"
  <2>1. blocks' = <<>> /\ undone' = undone \cup Held
    BY <1>1 DEF BeginAnswered, Drop
  <2>2. Len(blocks') = 0
    BY <2>1
  <2> QED
    BY <2>1, <2>2, NothingHeld
<1>2. CASE blocks' = blocks /\ a # "lost"
  <2>1. blocks' = blocks /\ undone' = undone
    BY <1>2 DEF BeginAnswered
  <2>2. Held' = Held
    BY <2>1 DEF Held
  <2>3. Len(blocks') > 1 => blocks # <<>>
    BY <2>1
  <2> QED
    BY <2>1, <2>2, <2>3
<1>3. CASE blocks' = Append(blocks, [by |-> borrower, writes |-> {}]) /\ a # "lost"
  <2> DEFINE new == [by |-> borrower, writes |-> {}]
             n == Len(blocks)
  <2>1. blocks' = Append(blocks, new) /\ undone' = undone
    BY <1>3 DEF BeginAnswered
  <2>2. blocks \in Seq(Block) /\ new \in Block
    BY DEF IInv, TypeOK, Block
  <2>3. n \in Nat /\ DOMAIN blocks = 1 .. n
    BY <2>2, LenProperties
  <2>4. /\ Len(blocks') = n + 1 /\ DOMAIN blocks' = 1 .. n + 1
        /\ \A i \in 1 .. n : blocks'[i] = blocks[i]
        /\ blocks'[n + 1] = new
    <3> HIDE DEF new
    <3>1. Append(blocks, new) \in Seq(Block) /\ Len(Append(blocks, new)) = n + 1
      BY <2>2, AppendProperties
    <3>2. DOMAIN Append(blocks, new) = 1 .. n + 1
      BY <3>1, LenProperties
    <3>3. (\A i \in 1 .. n : Append(blocks, new)[i] = blocks[i]) /\ Append(blocks, new)[n + 1] = new
      BY <2>2, <2>3, AppendProperties
    <3> QED
      BY <2>1, <3>1, <3>2, <3>3
  <2>5. Held' = Held
    <3>1. Held = UNION {blocks[i].writes : i \in 1 .. n}
      BY <2>3 DEF Held
    <3>2. Held' = UNION {blocks'[i].writes : i \in 1 .. n + 1}
      BY <2>4 DEF Held
    <3>3. new.writes = {}
      OBVIOUS
    <3> HIDE DEF n, new
    <3>4. 1 .. n + 1 = 1 .. n \cup {n + 1}
      BY <2>3
    <3> QED
      BY <2>4, <3>1, <3>2, <3>3, <3>4
  <2>6. Len(blocks') > 1 => blocks # <<>>
    <3>1. blocks = <<>> => Len(blocks) = 0
      OBVIOUS
    <3> QED
      BY <2>3, <2>4, <3>1
  <2> QED
    BY <2>1, <2>5, <2>6
<1> QED
  BY <1>1, <1>2, <1>3 DEF Answers, BeginAnswers, BeginAnswered

\* A statement's write is held by the innermost block, if there is one.
LEMMA WriteHeld ==
    ASSUME IInv, SqlWrite, blocks # <<>>
    PROVE  Held' = Held \cup {NewWrite} /\ Len(blocks') = Len(blocks)
<1> DEFINE n == Len(blocks)
           e == [blocks[n] EXCEPT !.writes = @ \cup {NewWrite}]
<1>1. blocks \in Seq(Block)
  BY DEF IInv, TypeOK, Block
<1>2. /\ n \in Nat /\ n >= 1 /\ DOMAIN blocks = 1 .. n
      /\ n \in 1 .. n /\ blocks[n] \in Block
  BY <1>1, LastOf, LenProperties
<1>3. e.writes = blocks[n].writes \cup {NewWrite}
  BY <1>2 DEF Block
<1>4. blocks' = [blocks EXCEPT ![n] = e]
  BY DEF SqlWrite
<1> HIDE DEF e
<1>5. /\ DOMAIN blocks' = 1 .. n /\ blocks'[n] = e
      /\ \A i \in 1 .. n : i # n => blocks'[i] = blocks[i]
  BY <1>2, <1>4
<1>6. Len(blocks') = n
  BY <1>1, <1>2, <1>4
<1>7. Held = UNION {blocks[i].writes : i \in 1 .. n}
  BY <1>2 DEF Held
<1>8. Held' = UNION {blocks'[i].writes : i \in 1 .. n}
  BY <1>5 DEF Held
<1> HIDE DEF n
<1>9. Held' \subseteq Held \cup {NewWrite}
  <2> SUFFICES ASSUME NEW i \in 1 .. n PROVE blocks'[i].writes \subseteq Held \cup {NewWrite}
    BY <1>8
  <2> QED
    BY <1>3, <1>5, <1>7
<1>10. Held \cup {NewWrite} \subseteq Held'
  <2>1. \A i \in 1 .. n : blocks[i].writes \subseteq Held'
    BY <1>3, <1>5, <1>8
  <2>2. NewWrite \in Held'
    BY <1>2, <1>3, <1>5, <1>8
  <2> QED
    BY <1>7, <2>1, <2>2
<1> QED
  BY <1>6, <1>9, <1>10 DEF n

\* A new write has a new number.
LEMMA NewNumber ==
    ASSUME IInv, MadeIsNumbered, borrower \in Borrowers, made' = made \cup {NewWrite},
           borrower' = borrower
    PROVE  NewWrite \notin made /\ MadeIsNumbered'
<1>1. Cardinality(made) \in Nat
  BY FS_CardinalityType DEF IInv
<1>2. NewWrite.n = Cardinality(made) + 1 /\ NewWrite.by = borrower
  BY DEF NewWrite
<1>3. NewWrite \notin made
  BY <1>1, <1>2 DEF MadeIsNumbered
<1>4. Cardinality(made') = Cardinality(made) + 1
  BY <1>3, FS_AddElement DEF IInv
<1>5. \A w \in made : w.n \in Nat
  BY SessionTxnAssumption DEF IInv, TypeOK, Writes
<1>6. borrower \in Nat
  BY SessionTxnAssumption DEF Borrowers
<1>7. \A w \in made' : w.n <= Cardinality(made') /\ w.by <= borrower
  <2> SUFFICES ASSUME NEW w \in made' PROVE w.n <= Cardinality(made') /\ w.by <= borrower
    OBVIOUS
  <2>1. CASE w = NewWrite
    BY <1>1, <1>2, <1>4, <1>6, <2>1
  <2>2. CASE w \in made
    BY <1>1, <1>4, <1>5, <2>2 DEF MadeIsNumbered
  <2> QED
    BY <2>1, <2>2
<1> QED
  BY <1>3, <1>7 DEF MadeIsNumbered

\* No step finds a write elsewhere than where it was, or has made it.
Moves(new) ==
    /\ new \cap made = {} /\ made' = made \cup new
    /\ Held' \cup durable' \cup InDocs' \subseteq Held \cup durable \cup InDocs \cup new
    /\ Held' \cap (durable' \cup InDocs') = {}
    /\ durable \subseteq durable'
    /\ misled \subseteq misled'
    /\ \A w \in promised' : w \in promised \cup durable' \/ w.by \in Nesters \cup misled'

LEMMA MovesKeep ==
    ASSUME AllMade, DisownedIsGone, PromisedIsDurable, NEW new, Moves(new), disowned' = disowned
    PROVE  AllMade' /\ DisownedIsGone' /\ PromisedIsDurable' /\ HeldIsPending'
<1>1. AllMade'
  BY DEF AllMade, Moves
<1>2. DisownedIsGone'
  BY DEF AllMade, DisownedIsGone, Moves
<1>3. PromisedIsDurable'
  BY DEF PromisedIsDurable, Moves
<1>4. HeldIsPending'
  BY DEF HeldIsPending, Moves
<1> QED
  BY <1>1, <1>2, <1>3, <1>4

\* While the closure runs a write is only told from one place to another.
LEMMA LentKeeps ==
    ASSUME Ledger, phase = "lent", phase' = "lent", borrower' = borrower, result' = result,
           NEW new, Moves(new), disowned' = disowned,
           Held \cup durable \cup undone \cup InDocs \cup new
               \subseteq Held' \cup durable' \cup undone' \cup InDocs',
           MadeIsNumbered', FlatBlocks', FlatHolds'
    PROVE  Ledger'
<1>1. AllMade' /\ DisownedIsGone' /\ PromisedIsDurable' /\ HeldIsPending'
  BY MovesKeep DEF Ledger
<1>2. Accounted'
  BY DEF Ledger, Accounted, Moves
<1>3. ResultIsLast'
  BY DEF Ledger, ResultIsLast
<1> QED
  BY <1>1, <1>2, <1>3 DEF Ledger

\* A step that makes no write but may close blocks, told to the closure.
LEMMA EndLedger ==
    ASSUME IInv, Ledger, phase = "lent", phase' = "lent", borrower' = borrower, result' = result,
           made' = made, disowned' = disowned, docs' = docs,
           NEW keyword \in {"COMMIT", "ROLLBACK"}, NEW a \in Answers, EndAnswered(keyword, a, TRUE),
           \A w \in promised' : w \in promised \cup durable' \/ w.by \in Nesters \cup misled'
    PROVE  Ledger'
<1>1. /\ Held' \subseteq Held
      /\ durable \subseteq durable' /\ durable' \subseteq durable \cup Held
      /\ durable' = durable \/ Held' = {}
      /\ undone \subseteq undone' /\ misled \subseteq misled'
      /\ Held \subseteq Held' \cup durable' \cup undone'
      /\ Len(blocks') > 1 => Len(blocks) > 1
      /\ ~(Len(blocks) > 1) => Held' = {} \/ borrower \in misled'
  BY EndMoves
<1>2. InDocs' = InDocs
  BY DEF InDocs
<1>3. Moves({})
  BY <1>1, <1>2 DEF Moves, Ledger, HeldIsPending
<1>4. MadeIsNumbered' /\ FlatBlocks' /\ FlatHolds'
  BY <1>1 DEF Ledger, MadeIsNumbered, FlatBlocks, FlatHolds
<1> QED
  BY <1>1, <1>2, <1>3, <1>4, LentKeeps

LEMMA NextLedger ==
    ASSUME IInv, OwnBlocks, Ledger, [Next]_vars
    PROVE  Ledger'
<1> USE SessionTxnAssumption
<1>1. CASE SqlWrite
  <2>1. /\ phase = "lent" /\ outcome = "none" /\ borrower \in Borrowers
        /\ made' = made \cup {NewWrite}
        /\ UNCHANGED <<phase, borrower, txnOpen, run, docs, undone, promised, disowned, misled>>
    BY <1>1 DEF SqlWrite, Calling, IInv
  <2>2. NewWrite \notin made /\ MadeIsNumbered'
    BY <2>1, NewNumber DEF Ledger
  <2>3. InDocs' = InDocs
    BY <2>1 DEF InDocs
  <2>4. CASE blocks = <<>>
    <3>1. blocks' = blocks /\ durable' = durable \cup {NewWrite}
      BY <1>1, <2>4 DEF SqlWrite
    <3>2. Held = {} /\ Held' = {}
      BY <2>4, <3>1, NothingHeld
    <3>3. Moves({NewWrite})
      BY <2>1, <2>2, <2>3, <3>1, <3>2 DEF Moves
    <3>4. FlatBlocks' /\ FlatHolds'
      BY <2>1, <3>1, <3>2 DEF Ledger, FlatBlocks, FlatHolds
    <3> QED
      BY <2>1, <2>2, <2>3, <3>1, <3>2, <3>3, <3>4, LentKeeps DEF run
  <2>5. CASE blocks # <<>>
    <3>1. durable' = durable
      BY <1>1, <2>5 DEF SqlWrite
    <3>2. Held' = Held \cup {NewWrite} /\ Len(blocks') = Len(blocks)
      BY <1>1, <2>5, WriteHeld
    <3>3. NewWrite \notin durable \cup InDocs
      BY <2>2 DEF Ledger, AllMade
    <3>4. Moves({NewWrite})
      BY <2>1, <2>2, <2>3, <3>1, <3>2, <3>3 DEF Moves, Ledger, HeldIsPending
    <3>5. txnOpen \/ borrower \in misled
      BY <2>1, <2>5 DEF IInv, ClientKnows
    <3>6. FlatBlocks' /\ FlatHolds'
      BY <2>1, <3>2, <3>5 DEF Ledger, FlatBlocks, FlatHolds
    <3> QED
      BY <2>1, <2>2, <2>3, <3>1, <3>2, <3>4, <3>6, LentKeeps DEF run
  <2> QED
    BY <2>4, <2>5
<1>2. CASE LostCall
  <2>1. /\ phase = "lent" /\ blocks' = <<>> /\ undone' = undone \cup Held
        /\ UNCHANGED <<phase, borrower, run, docs, durable, made, promised, disowned, misled>>
    BY <1>2 DEF LostCall, Calling, Drop
  <2>2. Held' = {} /\ Len(blocks') = 0 /\ InDocs' = InDocs
    BY <2>1, NothingHeld DEF InDocs
  <2>3. Moves({})
    BY <2>1, <2>2 DEF Moves
  <2>4. MadeIsNumbered' /\ FlatBlocks' /\ FlatHolds'
    BY <2>1, <2>2 DEF Ledger, MadeIsNumbered, FlatBlocks, FlatHolds
  <2> QED
    BY <2>1, <2>2, <2>3, <2>4, LentKeeps DEF run
<1>3. CASE Begin \/ WithBegin
  <2>1. PICK a \in BeginAnswers : BeginAnswered(a)
    BY <1>3 DEF Begin, WithBegin
  <2>2. /\ phase = "lent" /\ borrower \in Borrowers
        /\ borrower \in Nesters \cup misled \/ blocks = <<>>
        /\ UNCHANGED <<phase, borrower, result, docs, durable, made, promised, disowned>>
    BY <1>3 DEF Begin, WithBegin, MayBegin, Calling, IInv, ClientKnows
  <2>3. /\ Held' \subseteq Held
        /\ undone \subseteq undone' /\ Held \subseteq Held' \cup undone'
        /\ Len(blocks') > 1 => blocks # <<>>
    BY <2>1, <2>2, BeginMoves
  <2>4. InDocs' = InDocs /\ misled \subseteq misled'
    BY <2>1, <2>2 DEF InDocs, BeginAnswered
  <2>5. Moves({})
    BY <2>2, <2>3, <2>4 DEF Moves, Ledger, HeldIsPending
  <2>6. FlatBlocks'
    BY <2>2, <2>3, <2>4 DEF FlatBlocks
  <2>7. FlatHolds'
    <3>1. borrower \notin Nesters \cup misled => Held' = {}
      BY <2>2, <2>3, NothingHeld
    <3> QED
      BY <2>2, <2>4, <3>1 DEF FlatHolds
  <2>8. MadeIsNumbered'
    BY <2>2 DEF Ledger, MadeIsNumbered
  <2> QED
    BY <2>2, <2>3, <2>4, <2>5, <2>6, <2>7, <2>8, LentKeeps
<1>4. CASE End("COMMIT") \/ End("ROLLBACK")
  <2>1. PICK keyword \in {"COMMIT", "ROLLBACK"}, a \in Answers : EndAnswered(keyword, a, TRUE)
    BY <1>4 DEF End
  <2>2. phase = "lent" /\ UNCHANGED <<phase, borrower, run, docs, made, promised, disowned>>
    BY <1>4 DEF End, Calling
  <2> QED
    BY <2>1, <2>2, EndLedger DEF run
<1>5. CASE WithOk
  <2>1. phase = "lent" /\ UNCHANGED <<phase, borrower, run, docs, made, disowned>>
    BY <1>5 DEF WithOk
  <2>2. CASE poisoned
    <3>1. UNCHANGED <<txnOpen, blocks, durable, undone, promised, misled>>
      BY <1>5, <2>2 DEF WithOk
    <3>2. Held' = Held /\ InDocs' = InDocs
      BY <2>1, <3>1 DEF Held, InDocs
    <3>3. Moves({})
      BY <2>1, <3>1, <3>2 DEF Moves, Ledger, HeldIsPending
    <3>4. MadeIsNumbered' /\ FlatBlocks' /\ FlatHolds'
      BY <2>1, <3>1, <3>2 DEF Ledger, MadeIsNumbered, FlatBlocks, FlatHolds
    <3> QED
      BY <2>1, <3>1, <3>2, <3>3, <3>4, LentKeeps DEF run
  <2>3. CASE ~poisoned
    <3>1. PICK a \in Answers :
            /\ EndAnswered("COMMIT", a, TRUE)
            /\ promised' = promised \cup (IF with = "outer" /\ a = "ok" THEN Held ELSE {})
      BY <1>5, <2>3 DEF WithOk
    <3>2. /\ ~(Len(blocks) > 1) /\ a = "ok" => Held \subseteq durable'
          /\ Len(blocks) > 1 => borrower \in Nesters \cup misled
          /\ \A w \in Held : w.by = borrower \/ w.by \in misled
          /\ misled \subseteq misled'
      BY <3>1, EndMoves, OwnHeld DEF Ledger, FlatBlocks
    <3>3. \A w \in promised' : w \in promised \cup durable' \/ w.by \in Nesters \cup misled'
      BY <3>1, <3>2
    <3> QED
      BY <2>1, <3>1, <3>3, EndLedger DEF run
  <2> QED
    BY <2>2, <2>3
<1>6. CASE WithErr
  <2>1. /\ phase = "lent" /\ UNCHANGED <<phase, borrower, run, docs, made, promised>>
        /\ disowned \subseteq disowned' /\ disowned' \subseteq disowned \cup Held
        /\ InDocs' = InDocs
    BY <1>6 DEF WithErr, InDocs
  <2>2. /\ Held' \subseteq Held
        /\ durable \subseteq durable' /\ durable' \subseteq durable \cup Held
        /\ durable' = durable \/ Held' = {}
        /\ Held \subseteq Held' \cup durable' \cup undone' /\ undone \subseteq undone'
        /\ Len(blocks') > 1 => Len(blocks) > 1
        /\ misled \subseteq misled'
        /\ borrower \notin Nesters \cup misled' => Held' = {} /\ durable' = durable
    <3>1. CASE txnOpen
      <4>1. PICK a \in Answers : EndAnswered("ROLLBACK", a, TRUE)
        BY <1>6, <3>1 DEF WithErr
      <4>2. durable' = durable
        <5>1. Saved("ROLLBACK") = {}
          BY DEF Saved
        <5> QED
          BY <4>1, <5>1 DEF EndAnswered, ClosesBlock, EndsAll
      <4>3. borrower \notin Nesters \cup misled => ~(Len(blocks) > 1)
        BY DEF Ledger, FlatBlocks
      <4> QED
        BY <4>1, <4>2, <4>3, EndMoves
    <3>2. CASE ~txnOpen
      <4>1. UNCHANGED <<blocks, durable, undone, misled>>
        BY <1>6, <3>2 DEF WithErr
      <4>2. Held' = Held
        BY <4>1 DEF Held
      <4>3. borrower \notin Nesters \cup misled => Held = {}
        BY <2>1, <3>2 DEF Ledger, FlatHolds
      <4> QED
        BY <4>1, <4>2, <4>3
    <3> QED
      BY <3>1, <3>2
  <2>3. \A w \in Held : w.by = borrower \/ w.by \in misled
    BY OwnHeld
  <2>4. AllMade'
    BY <2>1, <2>2 DEF Ledger, AllMade
  <2>5. DisownedIsGone'
    <3> SUFFICES ASSUME NEW w \in disowned', w.by \notin Nesters \cup misled'
                 PROVE  w \notin durable' \cup InDocs' \cup Held'
      BY DEF DisownedIsGone
    <3>1. CASE w \in Held
      <4>1. Held' = {} /\ durable' = durable
        BY <2>2, <2>3, <3>1
      <4> QED
        BY <2>1, <3>1, <4>1 DEF Ledger, HeldIsPending
    <3>2. CASE w \notin Held
      BY <2>1, <2>2, <3>2 DEF Ledger, DisownedIsGone
    <3> QED
      BY <3>1, <3>2
  <2>6. HeldIsPending' /\ PromisedIsDurable'
    BY <2>1, <2>2 DEF Ledger, HeldIsPending, PromisedIsDurable
  <2>7. FlatBlocks' /\ FlatHolds' /\ MadeIsNumbered'
    BY <2>1, <2>2 DEF Ledger, FlatBlocks, FlatHolds, MadeIsNumbered
  <2>8. Accounted'
    BY <2>1, <2>2 DEF Ledger, Accounted
  <2>9. ResultIsLast'
    BY <2>1 DEF Ledger, ResultIsLast, run
  <2> QED
    BY <2>4, <2>5, <2>6, <2>7, <2>8, <2>9 DEF Ledger

<1>7. CASE NamedBegin
  <2>1. /\ phase = "lent" /\ borrower \in Borrowers
        /\ docs' = [docs EXCEPT ![borrower].state = "open"]
        /\ UNCHANGED <<phase, borrower, txnOpen, run, blocks, durable, history>>
    BY <1>7 DEF NamedBegin, Calling, IInv
  <2>2. \A b \in Borrowers : docs'[b].writes = docs[b].writes
    BY <2>1 DEF IInv, TypeOK
  <2>3. Held' = Held /\ InDocs' = InDocs
    BY <2>1, <2>2 DEF Held, InDocs
  <2>4. Moves({})
    BY <2>1, <2>3 DEF Moves, Ledger, HeldIsPending, history
  <2>5. MadeIsNumbered' /\ FlatBlocks' /\ FlatHolds'
    BY <2>1, <2>3 DEF Ledger, MadeIsNumbered, FlatBlocks, FlatHolds, history
  <2> QED
    BY <2>1, <2>3, <2>4, <2>5, LentKeeps DEF run, history
<1>8. CASE NamedWrite
  <2>1. /\ phase = "lent" /\ borrower \in Borrowers
        /\ made' = made \cup {NewWrite}
        /\ UNCHANGED <<phase, borrower, txnOpen, run, blocks, undone, promised, disowned, misled>>
    BY <1>8 DEF NamedWrite, Calling, IInv
  <2>2. NewWrite \notin made /\ MadeIsNumbered'
    BY <2>1, NewNumber DEF Ledger
  <2>3. Held' = Held /\ NewWrite \notin Held
    BY <2>1, <2>2 DEF Held, Ledger, AllMade
  <2>4. durable' \cup InDocs' = durable \cup InDocs \cup {NewWrite} /\ durable \subseteq durable'
    <3>1. CASE named = 0
      BY <1>8, <3>1 DEF NamedWrite, InDocs
    <3>2. CASE named # 0
      <4>1. /\ named \in Borrowers
            /\ docs' = [docs EXCEPT ![named].writes = @ \cup {NewWrite}] /\ durable' = durable
        BY <1>8, <3>2 DEF NamedWrite, IInv, TypeOK, Borrowers
      <4>2. /\ docs'[named].writes = docs[named].writes \cup {NewWrite}
            /\ \A b \in Borrowers : b # named => docs'[b].writes = docs[b].writes
        BY <4>1 DEF IInv, TypeOK
      <4>3. InDocs' \subseteq InDocs \cup {NewWrite}
        BY <4>1, <4>2 DEF InDocs
      <4>4. InDocs \cup {NewWrite} \subseteq InDocs'
        <5>1. \A b \in Borrowers : docs[b].writes \subseteq InDocs'
          BY <4>1, <4>2 DEF InDocs
        <5>2. NewWrite \in InDocs'
          BY <4>1, <4>2 DEF InDocs
        <5> QED
          BY <5>1, <5>2 DEF InDocs
      <4> QED
        BY <4>1, <4>3, <4>4
    <3> QED
      BY <3>1, <3>2
  <2>5. Moves({NewWrite})
    BY <2>1, <2>2, <2>3, <2>4 DEF Moves, Ledger, HeldIsPending
  <2>6. FlatBlocks' /\ FlatHolds'
    BY <2>1, <2>3 DEF Ledger, FlatBlocks, FlatHolds
  <2> QED
    BY <2>1, <2>2, <2>3, <2>4, <2>5, <2>6, LentKeeps DEF run
<1>9. CASE NamedEnd("COMMIT") \/ NamedEnd("ROLLBACK")
  <2> DEFINE mine == docs[borrower].writes
  <2>1. PICK saved \in {{}, mine}, lost \in BOOLEAN :
           /\ durable' = durable \cup saved
           /\ undone' = undone \cup (mine \ saved) \cup (IF lost THEN Held ELSE {})
           /\ IF lost THEN Drop ELSE UNCHANGED <<poisoned, txnOpen, blocks>>
    BY <1>9 DEF NamedEnd
  <2>2. /\ phase = "lent" /\ borrower \in Borrowers
        /\ docs' = [docs EXCEPT ![borrower] = [state |-> "over", writes |-> {}]]
        /\ UNCHANGED <<phase, borrower, run, made, promised, disowned, misled>>
    BY <1>9 DEF NamedEnd, Calling, IInv
  <2>3. /\ docs'[borrower].writes = {}
        /\ \A b \in Borrowers : b # borrower => docs'[b].writes = docs[b].writes
    BY <2>2 DEF IInv, TypeOK
  <2>4. InDocs' \subseteq InDocs /\ mine \subseteq InDocs /\ InDocs \subseteq InDocs' \cup mine
    <3>1. mine \subseteq InDocs
      BY <2>2 DEF InDocs
    <3>2. \A b \in Borrowers : docs'[b].writes \subseteq InDocs
      BY <2>2, <2>3 DEF InDocs
    <3>3. \A b \in Borrowers : docs[b].writes \subseteq InDocs' \cup mine
      BY <2>2, <2>3 DEF InDocs
    <3>4. InDocs' \subseteq InDocs
      BY <3>2 DEF InDocs
    <3>5. InDocs \subseteq InDocs' \cup mine
      BY <3>3 DEF InDocs
    <3> QED
      BY <3>1, <3>4, <3>5
  <2>5. saved \subseteq mine
    OBVIOUS
  <2>6. /\ Held' \subseteq Held /\ (Len(blocks') > 1 => Len(blocks) > 1)
        /\ Held \subseteq Held' \cup undone'
        /\ Held' = {} \/ txnOpen' = txnOpen
    <3>1. CASE lost
      <4>1. blocks' = <<>>
        BY <2>1, <3>1 DEF Drop
      <4>2. Held' = {} /\ Len(blocks') = 0
        BY <4>1, NothingHeld
      <4> QED
        BY <2>1, <3>1, <4>2
    <3>2. CASE ~lost
      <4>1. UNCHANGED <<txnOpen, blocks>>
        BY <2>1, <3>2
      <4> QED
        BY <4>1 DEF Held
    <3> QED
      BY <3>1, <3>2
  <2> HIDE DEF mine
  <2>7. Moves({})
    BY <2>1, <2>2, <2>4, <2>5, <2>6 DEF Moves, Ledger, HeldIsPending
  <2>8. MadeIsNumbered' /\ FlatBlocks' /\ FlatHolds'
    BY <2>2, <2>6 DEF Ledger, MadeIsNumbered, FlatBlocks, FlatHolds
  <2>9. durable \cup undone \cup InDocs \subseteq durable' \cup undone' \cup InDocs'
    BY <2>1, <2>4
  <2> QED
    BY <2>2, <2>6, <2>7, <2>8, <2>9, LentKeeps DEF run
<1>10. CASE \E txn \in {0, borrower} : SetRequestTxn(txn)
  <2>1. phase = "lent" /\ UNCHANGED <<phase, borrower, txnOpen, run, blocks, docs, durable, history>>
    BY <1>10 DEF SetRequestTxn, server
  <2>2. Held' = Held /\ InDocs' = InDocs
    BY <2>1 DEF Held, InDocs
  <2>3. Moves({})
    BY <2>1, <2>2 DEF Moves, Ledger, HeldIsPending, history
  <2>4. MadeIsNumbered' /\ FlatBlocks' /\ FlatHolds'
    BY <2>1, <2>2 DEF Ledger, MadeIsNumbered, FlatBlocks, FlatHolds, history
  <2> QED
    BY <2>1, <2>2, <2>3, <2>4, LentKeeps DEF run, history
<1>11. CASE Lend
  <2>1. /\ borrower \in Nat /\ borrower' = borrower + 1 /\ phase' = "lent" /\ result' = "none"
        /\ blocks = <<>> \/ borrower' \in misled'
        /\ misled \subseteq misled'
        /\ UNCHANGED <<blocks, docs, durable, made, undone, promised, disowned>>
    BY <1>11 DEF Lend, server, IInv, TypeOK, NoSession
  <2>2. Held' = Held /\ InDocs' = InDocs
    BY <2>1 DEF Held, InDocs
  <2>3. Moves({})
    BY <2>1, <2>2 DEF Moves, Ledger, HeldIsPending
  <2>4. AllMade' /\ DisownedIsGone' /\ PromisedIsDurable' /\ HeldIsPending'
    BY <2>1, <2>3, MovesKeep DEF Ledger
  <2>5. \A w \in made : w.by \in Nat
    BY DEF IInv, TypeOK, Writes, Borrowers
  <2>6. MadeIsNumbered' /\ Accounted'
    BY <2>1, <2>5 DEF Ledger, MadeIsNumbered, Accounted
  <2>7. FlatBlocks' /\ FlatHolds' /\ ResultIsLast'
    <3>1. blocks = <<>> => Len(blocks) = 0 /\ Held = {}
      BY NothingHeld
    <3> QED
      BY <2>1, <2>2, <3>1 DEF FlatBlocks, FlatHolds, ResultIsLast
  <2> QED
    BY <2>4, <2>6, <2>7 DEF Ledger
<1>12. CASE \E o \in {"ok", "error", "fatal"} : Return(o)
  <2>1. /\ phase = "lent" /\ phase' = "rolling"
        /\ UNCHANGED <<borrower, result, blocks, docs, durable, history>>
    BY <1>12 DEF Return, server
  <2>2. Held' = Held /\ InDocs' = InDocs
    BY <2>1 DEF Held, InDocs
  <2>3. Moves({})
    BY <2>1, <2>2 DEF Moves, Ledger, HeldIsPending, history
  <2>4. AllMade' /\ DisownedIsGone' /\ PromisedIsDurable' /\ HeldIsPending'
    BY <2>1, <2>3, MovesKeep DEF Ledger, history
  <2>5. MadeIsNumbered' /\ Accounted'
    BY <2>1, <2>2 DEF Ledger, MadeIsNumbered, Accounted, history
  <2>6. FlatBlocks' /\ FlatHolds' /\ ResultIsLast'
    BY <2>1 DEF Ledger, FlatBlocks, FlatHolds, ResultIsLast, history
  <2> QED
    BY <2>4, <2>5, <2>6 DEF Ledger
<1>13. CASE RollBack
  <2>1. PICK a \in Answers : EndAnswered("ROLLBACK", a, FALSE)
    BY <1>13 DEF RollBack
  <2>2. /\ phase = "rolling" /\ leftOpen
        /\ UNCHANGED <<phase, borrower, leftOpen, result, docs, made, promised, disowned>>
    BY <1>13 DEF RollBack
  <2>3. /\ Held' \subseteq Held
        /\ durable \subseteq durable' /\ durable' \subseteq durable \cup Held
        /\ durable' = durable \/ Held' = {}
        /\ Len(blocks') > 1 => Len(blocks) > 1
        /\ misled \subseteq misled'
    BY <2>1, EndMoves
  <2>4. InDocs' = InDocs
    BY <2>2 DEF InDocs
  <2>5. Moves({})
    BY <2>2, <2>3, <2>4 DEF Moves, Ledger, HeldIsPending
  <2>6. AllMade' /\ DisownedIsGone' /\ PromisedIsDurable' /\ HeldIsPending'
    BY <2>2, <2>5, MovesKeep DEF Ledger
  <2>7. MadeIsNumbered' /\ Accounted'
    BY <2>2 DEF Ledger, MadeIsNumbered, Accounted, ResultIsLast
  <2>8. FlatBlocks' /\ FlatHolds' /\ ResultIsLast'
    BY <2>2, <2>3 DEF Ledger, FlatBlocks, FlatHolds, ResultIsLast
  <2> QED
    BY <2>6, <2>7, <2>8 DEF Ledger
<1>14. CASE GiveBack
  <2>1. /\ phase = "rolling" /\ phase' \in {"pooled", "retired"} /\ result' = ResultOf
        /\ blocks' = blocks \/ (Broken /\ blocks' = <<>>)
        /\ UNCHANGED <<borrower, docs, durable, history>>
    BY <1>14 DEF GiveBack
  <2>2. Held' \subseteq Held /\ (Len(blocks') > 1 => Len(blocks) > 1) /\ InDocs' = InDocs
    <3>1. InDocs' = InDocs
      BY <2>1 DEF InDocs
    <3>2. CASE blocks' = blocks
      BY <3>1, <3>2 DEF Held
    <3>3. CASE blocks' = <<>>
      <4>1. Len(blocks') = 0
        BY <3>3
      <4> QED
        BY <3>1, <3>3, <4>1, NothingHeld
    <3> QED
      BY <2>1, <3>2, <3>3
  <2>3. Moves({})
    BY <2>1, <2>2 DEF Moves, Ledger, HeldIsPending, history
  <2>4. AllMade' /\ DisownedIsGone' /\ PromisedIsDurable' /\ HeldIsPending'
    BY <2>1, <2>3, MovesKeep DEF Ledger, history
  <2>5. MadeIsNumbered'
    BY <2>1 DEF Ledger, MadeIsNumbered, history
  <2>6. Accounted'
    <3>1. SUFFICES ASSUME result' = "ok" PROVE Accounted'
      BY <2>1 DEF Accounted
    <3>2. outcome = "ok" /\ ~leftOpen
      BY <2>1, <3>1 DEF ResultOf, IInv, TypeOK
    <3>3. blocks' = blocks
      BY <2>1, <3>2 DEF Broken, IInv, NoSession
    <3>4. Held' = Held
      BY <3>3 DEF Held
    <3> QED
      BY <2>1, <2>2, <3>2, <3>4 DEF Ledger, Accounted, history
  <2>7. FlatBlocks' /\ FlatHolds' /\ ResultIsLast'
    BY <2>1, <2>2 DEF Ledger, FlatBlocks, FlatHolds, ResultIsLast, history
  <2> QED
    BY <2>4, <2>5, <2>6, <2>7 DEF Ledger
<1>15. CASE Redial
  <2>1. phase' = "pooled" /\ UNCHANGED <<borrower, run, blocks, docs, durable, history>>
    BY <1>15 DEF Redial, server
  <2>2. Held' = Held /\ InDocs' = InDocs
    BY <2>1 DEF Held, InDocs
  <2> QED
    BY <2>1, <2>2 DEF Ledger, HeldIsPending, MadeIsNumbered, AllMade, FlatBlocks, FlatHolds, run,
                      PromisedIsDurable, DisownedIsGone, ResultIsLast, Accounted, history
<1>16. CASE UNCHANGED vars
  <2>1. UNCHANGED <<phase, borrower, txnOpen, run, blocks, docs, durable, history>>
    BY <1>16 DEF vars, server
  <2>2. Held' = Held /\ InDocs' = InDocs
    BY <2>1 DEF Held, InDocs
  <2> QED
    BY <2>1, <2>2 DEF Ledger, HeldIsPending, MadeIsNumbered, AllMade, FlatBlocks, FlatHolds, run,
                      PromisedIsDurable, DisownedIsGone, ResultIsLast, Accounted, history
<1> QED
  BY <1>1, <1>2, <1>3, <1>4, <1>5, <1>6, <1>7, <1>8, <1>9, <1>10, <1>11, <1>12, <1>13, <1>14, <1>15,
     <1>16
     DEF Next, SessionCall, WithTransactionStep, NamedCall, PoolStep

LEMMA InitLedger == Init => Ledger
<1> SUFFICES ASSUME Init PROVE Ledger
  OBVIOUS
<1>1. Held = {} /\ InDocs = {} /\ Len(blocks) = 0
  BY NothingHeld DEF Init, InDocs
<1> QED
  BY <1>1 DEF Init, Ledger, HeldIsPending, MadeIsNumbered, AllMade, FlatBlocks, FlatHolds,
              PromisedIsDurable, DisownedIsGone, ResultIsLast, Accounted

LEMMA LedgerInvariance == Spec => []Ledger
<1>1. IInv /\ OwnBlocks /\ Ledger /\ [Next]_vars => Ledger'
  BY NextLedger
<1> QED
  BY <1>1, InitLedger, Invariance, OwnInvariance, PTL DEF Spec

\* When with_connection returns Ok, every write of its closure that ran is
\* durable, undone with the closure's knowledge, or left to a named transaction;
\* unless an answer to a BEGIN, COMMIT or ROLLBACK on that connection did not
\* say what became of it and left a block open (client.rs:496).
THEOREM SessionOkMeansDurable == Spec => []OkMeansDurable
<1>1. IInv /\ Ledger => OkMeansDurable
  <2> SUFFICES ASSUME IInv, Ledger, result = "ok", borrower \notin misled
               PROVE  \A w \in made : w.by = borrower => w \in durable \cup undone \cup InDocs
    BY DEF OkMeansDurable, InDocs
  <2>1. Held = {}
    BY NothingHeld DEF Ledger, ResultIsLast, IInv, NoSession
  <2> QED
    BY <2>1 DEF Ledger, Accounted
<1> QED
  BY <1>1, Invariance, LedgerInvariance, PTL

\* with_transaction is all or nothing for the closures that open no blocks of
\* their own, whatever the others leave behind, as long as none of the answers
\* to BEGIN, COMMIT and ROLLBACK on their connection that do not say what became
\* of it left a block open: the closures that one misled are left out.
THEOREM SessionFlatAllOrNothing == Spec => []FlatAllOrNothing
<1>1. Ledger => FlatAllOrNothing
  BY DEF Ledger, PromisedIsDurable, DisownedIsGone, FlatAllOrNothing
<1> QED
  BY <1>1, LedgerInvariance, PTL
=============================================================================
