------------------------------ MODULE SessionTxn ------------------------------
(****************************************************************************)
(* What borrowers of one pooled connection leave behind for each other: the *)
(* session transaction with its nested blocks (src/sql.rs: begin, commit,   *)
(* rollback, with_transaction, transaction_control), the document or graph  *)
(* transaction named on every request (src/client.rs: set_request_txn;      *)
(* src/document.rs, src/graph.rs), and what Pool::run (src/pool.rs) does    *)
(* before it gives the connection back.  The slots of the pool are in Pool. *)
(*                                                                          *)
(* A call is one step: the client blocks in it, and the session belongs to  *)
(* its socket.  A closure is any sequence of calls, and may swallow their   *)
(* errors.  A reply may fail to say what became of a BEGIN, COMMIT or       *)
(* ROLLBACK and leave the connection in use (client.rs:485-527, sql.rs:305) *)
(* and the client may then take blocks for closed that are open: the        *)
(* closures this misled, and those lent what it left, are told apart.       *)
(****************************************************************************)
EXTENDS Integers, Sequences, FiniteSets

CONSTANTS
    MaxOpenBlocks,  \* MAX_OPEN_BLOCKS
    MaxBorrowers,   \* bound on the closures of a run
    MaxWrites,      \* bound on the writes of a run
    MaxDepth,       \* bound on the blocks a session has open
    MayIgnoreEnd,   \* whether the server may answer a COMMIT or ROLLBACK in a way
                    \* that cannot be read and leave the session as it was
    Nesters,        \* the closures that open blocks inside blocks
    NamedUsers      \* the closures that use document or graph transactions

Borrowers == 1 .. MaxBorrowers

ASSUME SessionTxnAssumption ==
    /\ {MaxOpenBlocks, MaxBorrowers, MaxWrites, MaxDepth} \subseteq Nat
    /\ MayIgnoreEnd \in BOOLEAN
    /\ Nesters \subseteq Borrowers
    /\ NamedUsers \subseteq Borrowers

VARIABLES
    phase,      \* the connection: pooled, lent, rolling back, or retired
    borrower,   \* the current or last closure
    \* the Client
    txnOpen,    \* Client.txn_open
    poisoned,   \* Client.fault is set
    named,      \* Client.request_txn, 0 when unset
    \* the closure, with_transaction and run
    with,       \* in with_transaction: "no", "outer" or "inner"
    outcome,    \* what the closure returned, or is passing on
    leftOpen, rolls, rollErr,   \* locals of run, and whether a rollback failed
    result,     \* what with_connection returned
    \* the server
    blocks,     \* the session's open blocks: who opened it, what it holds
    docs,       \* each borrower's named transaction: its state, what it holds
    durable,
    \* histories
    made,       \* writes the server ran
    undone,     \* writes whose closure asked for, or was told of, their end
    promised,   \* writes with_transaction said it committed
    disowned,   \* writes with_transaction said it did not
    misled      \* closures on whose connection an answer left blocks open that
                \* the client takes for closed, and those lent such a connection

server == <<blocks, docs, durable>>
run == <<outcome, leftOpen, rolls, rollErr, result>>
history == <<made, undone, promised, disowned, misled>>
vars == <<phase, borrower, txnOpen, poisoned, named, with, run, server, history>>

Writes == [by : Borrowers, n : 1 .. MaxWrites]

TypeOK ==
    /\ phase \in {"pooled", "lent", "rolling", "retired"}
    /\ borrower \in 0 .. MaxBorrowers
    /\ {txnOpen, poisoned, leftOpen, rollErr} \subseteq BOOLEAN
    /\ named \in 0 .. MaxBorrowers
    /\ with \in {"no", "outer", "inner"}
    /\ outcome \in {"none", "ok", "error", "fatal"}
    /\ rolls \in 0 .. MaxOpenBlocks
    /\ result \in {"none", "ok", "error", "InvalidArgument"}
    /\ blocks \in Seq([by : Borrowers, writes : SUBSET Writes])
    /\ docs \in [Borrowers -> [state : {"none", "open", "over"}, writes : SUBSET Writes]]
    /\ \A ws \in {durable, made, undone, promised, disowned} : ws \subseteq Writes
    /\ misled \subseteq Borrowers

Init ==
    /\ phase = "pooled"
    /\ borrower = 0
    /\ txnOpen = FALSE /\ poisoned = FALSE /\ named = 0
    /\ with = "no"
    /\ outcome = "none" /\ leftOpen = FALSE /\ rolls = 0 /\ rollErr = FALSE /\ result = "none"
    /\ blocks = <<>>
    /\ docs = [b \in Borrowers |-> [state |-> "none", writes |-> {}]]
    /\ durable = {} /\ made = {} /\ undone = {} /\ promised = {} /\ disowned = {}
    /\ misled = {}

Held == UNION {blocks[i].writes : i \in DOMAIN blocks}

-----------------------------------------------------------------------------
(* The session's calls.  The server answers ok, refuses, or answers with a  *)
(* success that does not decode ("bad"); or its answer does not say what    *)
(* became of the request ("unclear": a RESPONSE that does not parse, an     *)
(* ERROR frame, outcome_unknown); or it is lost with the connection.        *)

Answers == {"ok", "refused", "bad", "unclear", "lost"}

Calling == phase = "lent" /\ ~poisoned /\ outcome = "none"

\* poison(); the server rolls back the session whose socket went.
Drop ==
    /\ poisoned' = TRUE
    /\ txnOpen' = FALSE
    /\ blocks' = <<>>

NewWrite == [by |-> borrower, n |-> Cardinality(made) + 1]

\* A statement joins the innermost block, or commits by itself.
SqlWrite ==
    /\ Calling
    /\ Cardinality(made) < MaxWrites
    /\ made' = made \cup {NewWrite}
    /\ IF blocks = <<>>
         THEN durable' = durable \cup {NewWrite} /\ blocks' = blocks
         ELSE blocks' = [blocks EXCEPT ![Len(blocks)].writes = @ \cup {NewWrite}] /\ durable' = durable
    /\ UNCHANGED <<phase, borrower, txnOpen, poisoned, named, with, run, docs, undone, promised, disowned, misled>>

LostCall ==
    /\ Calling
    /\ Drop
    /\ undone' = undone \cup Held
    /\ UNCHANGED <<phase, borrower, named, with, run, docs, durable, made, promised, disowned, misled>>

\* transaction_control("BEGIN").  A success that does not decode is one of the
\* answers that do not say what became of it: each leaves txn_open as it was, and
\* the error is passed on or swallowed.
BeginAnswers == Answers \ {"bad"}

BeginAnswered(a) ==
    LET opened == Append(blocks, [by |-> borrower, writes |-> {}])
    IN  /\ outcome' \in (IF a = "unclear" THEN {"fatal", outcome} ELSE {outcome})
        /\ IF a = "lost"
             THEN Drop /\ undone' = undone \cup Held
             ELSE /\ blocks' \in CASE a = "ok"      -> {opened}
                                   [] a = "refused" -> {blocks}
                                   [] a = "unclear" -> {opened, blocks}
                  /\ txnOpen' = (txnOpen \/ a = "ok")
                  /\ UNCHANGED <<poisoned, undone>>
        /\ misled' = IF a = "unclear" /\ outcome' # "fatal" /\ blocks' # <<>> /\ ~txnOpen
                       THEN misled \cup {borrower} ELSE misled

\* A closure that does not nest begins where it takes no transaction for open.
MayBegin ==
    /\ Calling
    /\ Len(blocks) < MaxDepth
    /\ borrower \in Nesters \/ blocks = <<>> \/ ~txnOpen

Begin ==
    /\ MayBegin
    /\ \E a \in BeginAnswers : BeginAnswered(a)
    /\ UNCHANGED <<phase, borrower, named, with, leftOpen, rolls, rollErr, result, docs, durable,
                   made, promised, disowned>>

\* What COMMIT or ROLLBACK leaves of the blocks, makes durable, throws away.
Closed(keyword) ==
    LET n == Len(blocks)
        outer == SubSeq(blocks, 1, n - 1)
    IN  IF keyword = "COMMIT" /\ n > 1
          THEN [outer EXCEPT ![n - 1].writes = @ \cup blocks[n].writes]
          ELSE outer

Saved(keyword) == IF keyword = "COMMIT" /\ Len(blocks) = 1 THEN Held ELSE {}

Discarded(keyword) == IF keyword = "ROLLBACK" THEN blocks[Len(blocks)].writes ELSE {}

\* What is gone, unless a closure asked for it or was told, it does not know of.
Gone(ws, told) == undone' = IF told THEN undone \cup ws ELSE undone

ClosesBlock(keyword, told) ==
    /\ blocks # <<>>
    /\ blocks' = Closed(keyword)
    /\ durable' = durable \cup Saved(keyword)
    /\ Gone(Discarded(keyword), told)

EndsAll(told) == blocks' = <<>> /\ durable' = durable /\ Gone(Held, told)

\* transaction_control("COMMIT" or "ROLLBACK"): a refusal ends the transaction
\* on both sides, and so does a lost answer.  A success that does not decode
\* leaves txn_open as it was; an answer that does not say ends it for the
\* client, when the server may have closed the innermost block only.  The
\* closure that called is told of what was discarded.
EndAnswered(keyword, a, told) ==
    /\ \/ /\ a \in {"ok", "bad"}
          /\ ClosesBlock(keyword, told)
          /\ txnOpen' = IF a = "ok" THEN Len(blocks) > 1 ELSE txnOpen
          /\ poisoned' = poisoned
       \/ /\ a = "refused"
          /\ EndsAll(told)
          /\ txnOpen' = FALSE
          /\ poisoned' = poisoned
       \/ /\ a = "unclear"
          /\ \/ ClosesBlock(keyword, told)
             \/ EndsAll(told)
             \/ MayIgnoreEnd /\ UNCHANGED <<blocks, durable, undone>>
          /\ txnOpen' = FALSE
          /\ poisoned' = poisoned
       \/ /\ a = "lost"
          /\ Drop
          /\ \E saved \in {{}, Saved(keyword)} :
                durable' = durable \cup saved /\ Gone(Held \ saved, told)
    /\ misled' = IF a = "unclear" /\ blocks' # <<>> THEN misled \cup {borrower} ELSE misled

End(keyword) ==
    /\ Calling
    /\ \E a \in Answers : EndAnswered(keyword, a, TRUE)
    /\ UNCHANGED <<phase, borrower, named, with, run, docs, made, promised, disowned>>

-----------------------------------------------------------------------------
(* with_transaction.                                                        *)

WithBegin ==
    /\ with = "no"
    /\ MayBegin
    /\ \E a \in BeginAnswers :
          /\ BeginAnswered(a)
          /\ with' = CASE a # "ok" -> "no"
                       [] a = "ok" /\ (blocks = <<>> \/ ~txnOpen) -> "outer"
                       [] OTHER -> "inner"
    /\ UNCHANGED <<phase, borrower, named, leftOpen, rolls, rollErr, result, docs, durable,
                   made, promised, disowned>>

\* Mutant: an error of the commit is swallowed.
WithOk_IgnoresError ==
    /\ phase = "lent" /\ outcome = "none"
    /\ with # "no"
    /\ with' = "no"
    /\ IF poisoned
         THEN UNCHANGED <<txnOpen, poisoned, blocks, durable, undone, promised, misled>>
         ELSE /\ \E a \in Answers : EndAnswered("COMMIT", a, TRUE)
              /\ promised' = promised \cup (IF with = "outer" THEN Held ELSE {})
    /\ UNCHANGED <<phase, borrower, named, run, docs, made, disowned>>

\* The work returned Ok: commit, and say so if that went well.
WithOk ==
    /\ phase = "lent" /\ outcome = "none"
    /\ with # "no"
    /\ with' = "no"
    /\ IF poisoned
         THEN UNCHANGED <<txnOpen, poisoned, blocks, durable, undone, promised, misled>>
         ELSE \E a \in Answers :
                /\ EndAnswered("COMMIT", a, TRUE)
                /\ promised' = promised \cup (IF with = "outer" /\ a = "ok" THEN Held ELSE {})
    /\ UNCHANGED <<phase, borrower, named, run, docs, made, disowned>>

\* The work returned Err: roll back if a transaction is open, whatever comes
\* of it, and say that it failed.
WithErr ==
    /\ phase = "lent"
    /\ with # "no"
    /\ with' = "no"
    /\ IF txnOpen
         THEN \E a \in Answers : EndAnswered("ROLLBACK", a, TRUE)
         ELSE UNCHANGED <<txnOpen, poisoned, blocks, durable, undone, misled>>
    /\ disowned' = disowned \cup (IF with = "outer" THEN Held ELSE {})
    /\ UNCHANGED <<phase, borrower, named, run, docs, made, promised>>

-----------------------------------------------------------------------------
(* Document and graph transactions: a borrower's transaction has the        *)
(* borrower's number for an id.                                             *)

NamedBegin ==
    /\ borrower \in NamedUsers
    /\ Calling
    /\ docs[borrower].state = "none"
    /\ docs' = [docs EXCEPT ![borrower].state = "open"]
    /\ UNCHANGED <<phase, borrower, txnOpen, poisoned, named, with, run, blocks, durable, history>>

\* set_request_txn of an id the closure knows, or None.
SetRequestTxn(txn) ==
    /\ borrower \in NamedUsers
    /\ phase = "lent" /\ outcome = "none"
    /\ txn # 0 => docs[txn].state # "none"
    /\ named' = txn
    /\ UNCHANGED <<phase, borrower, txnOpen, poisoned, with, run, server, history>>

\* A request that names a transaction joins it.
NamedWrite ==
    /\ borrower \in NamedUsers
    /\ Calling
    /\ Cardinality(made) < MaxWrites
    /\ IF named = 0
         THEN durable' = durable \cup {NewWrite} /\ docs' = docs
         ELSE /\ docs[named].state = "open"
              /\ docs' = [docs EXCEPT ![named].writes = @ \cup {NewWrite}]
              /\ durable' = durable
    /\ made' = made \cup {NewWrite}
    /\ UNCHANGED <<phase, borrower, txnOpen, poisoned, named, with, run, blocks, undone, promised, disowned, misled>>

\* document_commit_transaction and its like: whatever the outcome the
\* transaction is over, and the id is forgotten where it was named.
NamedEnd(keyword) ==
    /\ borrower \in NamedUsers
    /\ Calling
    /\ docs[borrower].state = "open"
    /\ named' = IF named = borrower THEN 0 ELSE named
    /\ docs' = [docs EXCEPT ![borrower] = [state |-> "over", writes |-> {}]]
    /\ \E saved \in {{}} \cup (IF keyword = "COMMIT" THEN {docs[borrower].writes} ELSE {}), lost \in BOOLEAN :
          /\ durable' = durable \cup saved
          /\ undone' = undone \cup (docs[borrower].writes \ saved) \cup (IF lost THEN Held ELSE {})
          /\ IF lost THEN Drop ELSE UNCHANGED <<poisoned, txnOpen, blocks>>
    /\ UNCHANGED <<phase, borrower, with, run, made, promised, disowned, misled>>

-----------------------------------------------------------------------------
(* Pool::run.                                                               *)

Lend ==
    /\ phase = "pooled"
    /\ borrower < MaxBorrowers
    /\ phase' = "lent"
    /\ borrower' = borrower + 1
    /\ outcome' = "none" /\ leftOpen' = FALSE /\ rolls' = 0 /\ rollErr' = FALSE /\ result' = "none"
    /\ misled' = IF blocks # <<>> /\ borrower \in misled THEN misled \cup {borrower + 1} ELSE misled
    /\ UNCHANGED <<txnOpen, poisoned, named, with, server, made, undone, promised, disowned>>

\* The closure returns Ok, an error, or one that is_connection_fatal() names.
Return(o) ==
    /\ phase = "lent"
    /\ with = "no"
    /\ phase' = "rolling"
    /\ outcome \in {"none", o}
    /\ outcome' = o
    /\ leftOpen' = (txnOpen /\ ~poisoned /\ o # "fatal")
    /\ UNCHANGED <<borrower, txnOpen, poisoned, named, with, rolls, rollErr, result, server, history>>

\* Mutant: one rollback too many.
RollBack_OffByOne ==
    /\ phase = "rolling" /\ leftOpen /\ txnOpen /\ ~rollErr
    /\ rolls <= MaxOpenBlocks
    /\ rolls' = rolls + 1
    /\ \E a \in Answers : EndAnswered("ROLLBACK", a, FALSE) /\ rollErr' = (a # "ok")
    /\ UNCHANGED <<phase, borrower, named, with, outcome, leftOpen, result, docs, made, promised, disowned>>

RollBack ==
    /\ phase = "rolling" /\ leftOpen /\ txnOpen /\ ~rollErr
    /\ rolls < MaxOpenBlocks
    /\ rolls' = rolls + 1
    /\ \E a \in Answers : EndAnswered("ROLLBACK", a, FALSE) /\ rollErr' = (a # "ok")
    /\ UNCHANGED <<phase, borrower, named, with, outcome, leftOpen, result, docs, made, promised, disowned>>

\* Mutant: what is still open after the rollbacks is not looked at.
Broken_TrustsRollback == poisoned \/ outcome = "fatal"

Broken == poisoned \/ outcome = "fatal" \/ (leftOpen /\ txnOpen)

\* Mutant: a transaction left open is not reported.
ResultOf_Silent == IF outcome # "ok" THEN "error" ELSE "ok"

ResultOf ==
    CASE outcome # "ok"                -> "error"
      [] outcome = "ok" /\ leftOpen    -> "InvalidArgument"
      [] outcome = "ok" /\ ~leftOpen   -> "ok"

\* release(): back to the pool, or closed, and the server drops its session.
GiveBack ==
    /\ phase = "rolling"
    /\ leftOpen /\ txnOpen => rolls = MaxOpenBlocks \/ rollErr
    /\ result' = ResultOf
    /\ IF Broken
         THEN phase' = "retired" /\ blocks' = <<>>
         ELSE phase' = "pooled" /\ blocks' = blocks
    /\ UNCHANGED <<borrower, txnOpen, poisoned, named, with, outcome, leftOpen, rolls, rollErr,
                   docs, durable, history>>

\* The pool dials another in its place.
Redial ==
    /\ phase = "retired"
    /\ phase' = "pooled"
    /\ txnOpen' = FALSE /\ poisoned' = FALSE /\ named' = 0
    /\ UNCHANGED <<borrower, with, run, server, history>>

-----------------------------------------------------------------------------
SessionCall == SqlWrite \/ LostCall \/ Begin \/ End("COMMIT") \/ End("ROLLBACK")
WithTransactionStep == WithBegin \/ WithOk \/ WithErr
NamedCall ==
    \/ NamedBegin \/ NamedWrite \/ NamedEnd("COMMIT") \/ NamedEnd("ROLLBACK")
    \/ \E txn \in {0, borrower} : SetRequestTxn(txn)
PoolStep == Lend \/ (\E o \in {"ok", "error", "fatal"} : Return(o)) \/ RollBack \/ GiveBack \/ Redial

Next == SessionCall \/ WithTransactionStep \/ NamedCall \/ PoolStep

Spec == Init /\ [][Next]_vars

-----------------------------------------------------------------------------
\* A connection is never in the pool with a session transaction open, however
\* many blocks the closure left and whether the rollbacks were answered,
\* refused, undecodable or lost (README.md:268-269); but after an answer that
\* did not say what became of a BEGIN, COMMIT or ROLLBACK and left blocks open.
NeverReturnedOpen == phase = "pooled" /\ borrower \notin misled => blocks = <<>>

\* A connection whose closure left a transaction open is rolled back first, and
\* retired if that rollback fails (README.md:268-269).
RolledBackOrRetired == phase = "pooled" /\ leftOpen => blocks = <<>>

\* with_connection returns Ok only if every write that ran is durable, or its
\* closure undid it, was told so, or left it to a named transaction; unless the
\* closure was misled.
OkMeansDurable ==
    result = "ok" /\ borrower \notin misled =>
        \A w \in made : w.by = borrower =>
            w \in durable \cup undone \cup UNION {docs[b].writes : b \in Borrowers}

\* A transaction holds the writes of the closure that opened it and of no
\* other (README.md:268-269, pool.rs:120-121), but for the closures that did
\* not know that there was one.
OwnTransaction ==
    /\ \A i \in DOMAIN blocks : \A w \in blocks[i].writes : w.by = blocks[i].by \/ w.by \in misled
    /\ \A b \in Borrowers : \A w \in docs[b].writes : w.by = b

\* with_transaction commits when it returns Ok and rolls back when its work
\* returned Err (sql.rs:255-256), for a closure that was not misled.
WithTransactionAllOrNothing ==
    /\ \A w \in promised : w.by \notin misled => w \in durable
    /\ \A w \in disowned : w.by \notin misled => w \notin durable

\* It does so for the closures that open no blocks of their own, whatever
\* other closures left behind.
FlatAllOrNothing ==
    /\ \A w \in promised : w.by \notin Nesters \cup misled => w \in durable
    /\ \A w \in disowned : w.by \notin Nesters \cup misled => w \notin durable
=============================================================================
