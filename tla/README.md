# Verification of the TricoreDB Rust SDK

TLA+ models of the blocking client library in `src/`, the TLC configurations
that check them on small instances, and proofs, checked by TLAPS, of what holds
on all of them. Files of the crate are named without their directory
(`pool.rs:163` is line 163 of `src/src/pool.rs`; the crate's own README is
`src/README.md`).

The library has no runtime of its own: a `Client` is one socket and one request
at a time, and a `Pool` shares a bounded number of them between threads. What is
hard is therefore in few places: threads around the pool's mutex and condvar,
the state a connection carries from one call or one borrower to the next, what a
failed exchange says about a request, and a connection that is replaced under
the caller when a cluster changes its leader. Most of the source, by lines, is
typed calls over one `send`: what is hard about those is what they share, and a
few whose meaning hangs on time.

## Inventory

| Component | State it keeps | Operations | Talks to | What makes it correct | Here |
|---|---|---|---|---|---|
| Connection pool (`pool.rs`) | under a mutex: `idle` (a stack), `lent`, `closed`; a condvar `free` | `new`, `with_connection`, `with_connection_timeout`, `close`, `stats`; inside: `acquire`, `run`, `release` | dials and closes `Client`s outside the lock; runs the caller's closure | never more than `size`; one owner for a Client; every slot comes back; no lost wakeup; a closed pool lends and keeps nothing | `Pool`, `Lending`, `PoolProofs` |
| Connection (`client.rs`) | `transport`, `fault`, `closed`, session id, request ids, granted features | `connect` (dial, TLS, HELLO, AUTH), `send`, `ping`, `cancel`, `close`, `poison` | the frame codec; every typed call goes through it | a call gets its own answer or an error; one that lost its place in the stream is never used again | `Connection`, `ConnectionProofs` |
| Leader following (`client.rs`) | `address`, `read_timeout`, locals of the retry loop | `send_in`, `move_to`, `set_read_timeout` | dials another node and swaps the transports | nothing is executed twice; the caller is told the truth; a transaction does not move; retries run out | `LeaderFollow`, `Delivery`, `LeaderFollowProofs` |
| Frame codec and transport (`frame.rs`, `transport.rs`) | none between calls | `encode`, `write_frame`, `read_frame`, `Read`/`Write` of a stream with or without TLS | the socket | what is read is what was written; no declared length is trusted | `Framing`, `FramingProofs` |
| Session transactions (`sql.rs`, `pool.rs`) | `txn_open`; the server's open blocks | `begin`, `commit`, `rollback`, `with_transaction`, `in_transaction`; the pool's rollback loop | `send`; `Pool::run` looks at it before giving back | nobody inherits a transaction; Ok means durable | `SessionTxn`, `SessionTxnProofs`, `LeaderFollow` |
| Document and graph transactions (`document.rs`, `graph.rs`, `client.rs`) | `request_txn`, named on every request | begin, commit, rollback, `set_request_txn`, `forget_txn` | every later request of the Client | a write goes into the transaction it was meant for; an ended one is never named again; a closure's writes join its own transaction | `Calls`, `CallsProofs`, `SessionTxn` |
| SQL requests and rows (`sql.rs`) | none | `execute`, `query`, `transaction`, `Rows` | `send` | statements and parameters stay in step; a script is one transaction | `QueryCalls`, `Arguments` and `ArgumentsProofs` (script); the calls inside a transaction in `SessionTxn`; cells of `Rows` not modelled |
| Parameters (`params.rs`) | none | conversions to JSON scalars | SQL requests | widths and decimals are not altered | `Arguments` (decimals), `ArgumentsProofs` |
| Cache operations (`cache.rs`, `wire.rs`) | none on the client; locks and waits at the server | 94 calls | `send` | what is refused before sending was not executed, what is answered was; a pop loses nothing; a lease is held | `CacheCalls`, `Replies`, `Calls`, `Arguments`, `CacheClients`, `FencingLock`, `CacheClientsProofs` |
| Document, graph and vector operations (`document.rs`, `graph.rs`, `vector.rs`) | none but the named transaction | requests and decoders | `send` | what is refused before sending was not executed, what is answered was | `DocumentCalls`, `GraphCalls`, `VectorCalls`, `Replies`, `Calls` |
| LLM export and admin (`llm.rs`) | none | four read-only requests | `send` | same | `QueryCalls`, `Calls` |
| Responses and errors (`response.rs`, `error.rs`, `serde_null.rs`) | none | `decode`, `is_redirect`, `is_connection_fatal`, `was_refused_locally` | everything | the kind says what may be done next | `Replies` (which bodies are taken), `Connection`, `LeaderFollow` (the kinds) |
| TLS (`tls.rs`) | none | configuration of rustls | `connect` | out of scope: certificates and keys | a step of `Connection` that takes time or fails |
| Options and crate root (`options.rs`, `lib.rs`) | none | builders | `connect` | defaults | constants of the modules |

How they meet: a thread enters `Pool::with_connection`, is lent a `Client`
(dialled through `connect` if none is idle), and runs its closure on it. The
closure's typed calls all end in `Client::send` → `send_in` (leader following) →
`send_once` → `exchange` (the connection) → `frame::write_frame` and
`read_frame`. When the closure returns, `run` reads three things off the Client,
`is_poisoned`, the error's `is_connection_fatal` and `in_transaction`, and decides
whether the connection is given back. There are no callbacks, no background
threads and no asynchronous messages: the only shared state is the pool's.

### What is hard

* **Interleavings** exist in `Pool` only. `acquire` unlocks to dial with the slot
  counted already; `release` gives the slot back under the lock and closes the
  socket and notifies after it; `close` takes the idle stack and says goodbye to
  each connection, up to two seconds for each, before it wakes anybody; the
  condvar wakes one thread of its choice, perhaps for a slot that is gone when it
  gets the mutex, perhaps for nothing.
* **A reply nobody waits for.** No request id is compared, so a reply that comes
  after its call gave up would be taken for the answer to the next call. Nothing
  but poisoning prevents it.
* **An answer that is lost.** The request may run later or have run. Only a
  `not_leader` refusal proves that it was applied nowhere.
* **An answer that does not say.** A RESPONSE whose body does not parse
  (`client.rs:496`), an ERROR frame (`client.rs:485`) and `outcome_unknown`
  (`error.rs:9-12`) leave the connection in use and the caller without the outcome;
  a success that does not decode (`response.rs`, `sql.rs:305`) is told as an error.
  `transaction_control` takes most of them for the end of a transaction.
* **State that outlives its owner.** `txn_open`, `request_txn` and the read
  timeout belong to the Client and not to the call or the closure; `move_to`
  replaces the transport below them.
* **A name carried from call to call.** A document or graph transaction is an id
  on every request: it must go along on a redirect, be forgotten with the end
  that was asked for, however that ended, and never be the empty text, which
  names nothing.
* **Waits and leases.** A blocking pop waits at the server while the client's read
  timeout runs; a lock is held for a lease that the server counts from one moment
  and the caller from another; a request whose call gave up may be executed late.
* **Positions in a text.** A script is put together from statements, and its
  parameters are one list: blanks, semicolons and placeholders decide what goes
  where.
* **Crash recovery** there is none of: nothing is persisted.

`PROJECT.json` lists each hazard at its line with the properties that would see
it go wrong, or the reason why none does yet.

## Modules

| Module | Lines of the crate | Its place |
|---|---|---|
| `Lending` | none: abstract | what a bounded pool promises: ask, grant while fewer than `Size` are lent and it is open, refuse, return, shut |
| `Pool` | `pool.rs` | implements `Lending` through a refinement mapping |
| `PoolProofs` | | nine theorems about `Pool` |
| `Connection` | `client.rs`: `connect`, `hello`, `auth`, `ping`, `cancel`, `send_once`, `exchange`, `poison`, `close` | one Client and the server at the other end |
| `ConnectionProofs` | | four theorems about `Connection` |
| `Framing` | `frame.rs`, `transport.rs` | one direction of a socket, byte by byte |
| `FramingProofs` | | three theorems about `Framing` |
| `Delivery` | none: abstract | what a caller is promised of its requests: run once at the most, yes of what ran, no of what never will |
| `LeaderFollow` | `client.rs`: `send_in`, `move_to`, `set_read_timeout`; control statements of `sql.rs` | one Client and a cluster; implements `Delivery` |
| `LeaderFollowProofs` | | six theorems about `LeaderFollow` and a corollary |
| `SessionTxn` | `sql.rs`, `pool.rs` (`run`), `client.rs`, `document.rs`, `graph.rs` | the successive borrowers of one connection and the server's session |
| `SessionTxnProofs` | | five theorems about `SessionTxn` |
| `Replies` | `response.rs`; the decoders of `cache.rs` | which replies each way of reading takes; what a row of the tables is |
| `CacheCalls`, `DocumentCalls`, `GraphCalls`, `VectorCalls`, `QueryCalls` | `cache.rs`, `document.rs`, `graph.rs`, `vector.rs`, `sql.rs` and `llm.rs` | the operations, one row each |
| `Calls` | `client.rs`: `send`, `send_in`, `set_request_txn`, `forget_txn`; begin, commit and rollback of `document.rs` and `graph.rs` | one Client making any of the operations, in and out of transactions |
| `CallsProofs` | | four theorems about `Calls` |
| `Arguments` | `cache.rs` (`ttl_value`, `millis`), `params.rs` (decimals), `sql.rs` (`build_transaction_script`) | what becomes of an argument before it is sent |
| `ArgumentsProofs` | | three theorems about `Arguments` |
| `FencingLock` | none: abstract | what the lock of a cache promises: rising tokens, and who counts on the lock has it |
| `CacheClients` | `cache.rs`: blocking pops and locks | several clients of one cache, in time; implements `FencingLock` |
| `CacheClientsProofs` | | five theorems about `CacheClients` |
| `MC*` | | instances for TLC |

The modules meet at narrow interfaces, which is why they can be checked apart:
`Pool` takes any verdict `broken` from the closure, which `SessionTxn` (`Broken`)
computes; `SessionTxn` and `LeaderFollow` take "the exchange failed" as one step
after which the Client is poisoned, which is what `Connection` establishes;
`Connection` takes a frame as one message, which is what `Framing` establishes;
`Calls` and `CacheClients` take a call as answered, refused or lost, which is
what `LeaderFollow` and `Connection` make of it.

### Pool

Every critical section under `Inner.state`'s mutex is one action. `pc[t]` is
where a thread is; the condvar is the set of threads at `"waiting"`. The loop of
`acquire` is `RefuseClosed`, `TakeIdle`, `TakeSlot`, `Wait` and `GiveUp`, guarded
in the order of the code; a thread comes back to its head by a notification
(`NotifyOne` picks any waiter), by `SpuriousWake`, or by `Timeout`, after which
the code looks once more whether the pool is still full before it gives up.
Dialling (`DialOk`, `DialFails`), closing a broken connection (`Retire`) and
notifying (`NotifyFreed`) happen outside the lock and are actions of their own.
`Panic` is a closure that unwinds through `run`: the Client is dropped and no
line after the call of `work` runs. `leaked`, a history variable, counts the
slots that went that way. `close` is `Close` (under the lock), one `CloseNext`
for each idle connection, and `NotifyAll`.

The mapping to `Lending` calls a thread *asking* while it is in `acquire`,
*borrowing* while a slot is counted for it (dialling included), and maps a dial
that fails, a release and a panic to `Return`.

### Connection

A call is an exchange: `Write` (or one of the three ways to fail before or while
writing), then one of `ReadReply`, `ReadFails`, `ReadTimesOut`. What a reply
means depends on the call: `Breaks` and `ErrorOf` are the matches of `hello`,
`auth`, `ping`, `cancel` and `send_once` on the tag and body of a frame, and say
which poison the connection and which leave it in use. `stage` is the handshake,
whose failure drops the Client. Frames carry the number of their exchange, as a
history: the client never looks at it. The server answers when it likes, with
anything; the network may cut the socket at any time and lose what is in it.

### Framing

Two ends of one direction of a socket: `WriteFrame` encodes (or refuses, before a
byte is written), `Push` moves one byte, `Read` takes one, and both may fail
between any two bytes, after which that end is not used again, as `exchange` sees
to. `Headed` is the head of `read_frame`, checks in order. A second kind of peer
speaks no frames at all and sends any bytes. `ToBytes` and `FromBytes` are the
big-endian conversions of the length, from and to digits of any base: `Place` is
what a digit counts.

### LeaderFollow

`send_in`'s loop: `Finish`, `Redirected`, `MoveOk`, `MoveFails`, `PauseEnds`, with
`retried`, `pause` and the hint as its locals; `Begin` and `Submit` start a
request; `TimesOut` and `Breaks` end one without an answer. `MoveOk` is `move_to`:
the new connection comes from the options, with the features of the new node.
The cluster is outside the repository and does what the client relies on and no
more: a leader executes, a follower refuses with `not_leader` and applies
nothing, hints may be absent or wrong, an abandoned request may be executed later,
leaders change. An answer that does not tell the outcome (`Untold`) is either a
success that does not decode (`"bad"`) or says nothing of what was done
(`"unclear"`: a RESPONSE that does not parse, an ERROR frame, `outcome_unknown`), and
comes from a request that was executed or not (`RanAnd`, `LeavesUnclear`). `TxnAfter`
is `transaction_control`: the first leaves `txn_open` as it was (`sql.rs:305`), the
second clears it unless the request was BEGIN (`sql.rs:311`). `executed`, `sends` and
`outcome` are histories of each request, and `Heard` what the caller is left with;
`unsure` is one of the connection: the last answer to a BEGIN, COMMIT or ROLLBACK on
it did not tell, so that client and server may disagree on whether a transaction is
open, until one that does tell arrives or the connection is replaced.

The mapping to `Delivery` takes `executed` for the runs of a request and what the
caller knows of it (`Known`: nothing yet, an answer that succeeded, a refusal, or
neither) for what it was told. Nodes, hints, retries, moves and sockets are gone
from it: every send but the first is a stutter.

### SessionTxn

The lives of one pooled connection: a closure makes any sequence of calls
(`SqlWrite`, `Begin`, `End`, `LostCall`, the steps of `with_transaction`, the calls
of document and graph transactions), returns (`Return`), `run` rolls back what it
left open (`RollBack`, at most `MAX_OPEN_BLOCKS` times) and `GiveBack` parks or
retires the connection and computes what `with_connection` returns. The server
keeps the stack of open blocks with the writes in each. Closures may swallow any
error.

Every control statement may be answered well, be refused, be lost with the
connection, or get an answer that leaves the connection in use without telling what
became of it, and then the server may have done it or not. There are two of these in
the code. A success that does not decode leaves `txn_open` as it was (`sql.rs:305`):
after a BEGIN the server has a transaction the client does not know of; after COMMIT or
ROLLBACK (`"bad"`) the client takes for open what may be closed. And `send_once` may fail
without poisoning (`"unclear"`: a RESPONSE that does not parse, `client.rs:496`, an ERROR
frame, `outcome_unknown`), which `transaction_control` takes for the end of the
transaction (`sql.rs:311`): after COMMIT or ROLLBACK of an inner block the outer one is
still open, and no one knows. `EndAnswered` lets the server close the innermost block,
end all of them, or, where `MayIgnoreEnd` is set, do nothing; the comment at
`sql.rs:296-298` says that it ends the transaction either way, and the run checks
the properties without relying on that.

`misled` are the closures on whose connection such an answer left blocks open that
the client takes for closed, the one Pool::run got for its own rollback included, and
those after them that were lent the connection with blocks still open. The
properties of `session` are about the closures that are not misled; the promise made
without that exception is `RolledBackOrRetired`, which the code does not keep
(`session_unread`).

### The tables, Replies and Calls

A typed call builds a request, hands it to `send` and decodes the reply. A row of
a table says the three things in which calls differ as far as the rest of the
system can tell: `effect`, what the operation does at the server (reads, writes
at once, writes in the transaction the request names, begins or ends one);
`refuses`, the faults of its arguments for which it returns an error before
sending; and `reads`, how it decodes. The effects are the server's, taken from
what the operations are documented to do; the other two are read off each
method. `Replies` lists, for each way of decoding, the bodies it makes an answer
of (`Takes`); with the rest the caller gets an error of kind `Protocol`. The
definitions of a table are the sections of its file.

`Calls` is a Client making them. `requestTxn` is `Client.request_txn`; `Ask` is
`send` with the envelope of `send_in`, `RefuseHere` an argument at fault, `AskEnd`
a commit or a rollback, which names the transaction it is given and not the one
the Client names, and `Return` the end of a call, where `forget_txn` comes first
whatever the outcome. `SetRequestTxn` filters the empty id. `Redirected` sends
the same envelope to another node. There are three ways to fail: `Refused`, a
Server error other than `outcome_unknown`, after which nothing was executed;
`AnsweredUnclear`, whether or not the request was executed (a RESPONSE that does
not parse whatever its status, an ERROR frame, `outcome_unknown`, or a request over
the frame limit, of which nothing is sent); and `Lost`, likewise, which poisons the
Client. A reply that parses and does not decode (`Executed` with a body its reader
does not take) is told in the second way too: the kind is `Protocol`, and a caller
who gets that cannot tell it from the others. The nodes are external: one runs a
request that joins or ends a transaction only while it holds that open, and may
give one up at any time. `given` and `inside` are what the caller knows, `writes`
and `ends` histories: where each write was meant to go, where it went, and what
the caller was told.

### Arguments

One behaviour is one argument: a lifetime (`TtlValue`), a wait (`Millis`), the text
of a decimal (`ValidDecimal`) or the statements of a script (`Accepts`, `Script`,
`Parameters`). Texts are sequences of the kinds of character or word that the
code tells apart. How the server takes a script apart at its semicolons (`Cuts`,
`PieceAt`, `Starts`) and binds the parameters (`RunAs`) is external, as the comment
at `sql.rs:325-330` describes it. The module has a variable and no steps; `MCCalls`
puts it beside `Calls`.

### CacheClients

Clients with a connection each, and time in ticks of a millisecond. A request is
`going`, `parked` at the server (a pop that waits) or `coming` back; `PopBody` and
`LockOp` are what the request says. `TimesOut` and `Cut` end a call, poison its
Client and leave the request on its way, where the server may execute it late
(`Pops`, `Acquires`, `Renews`, `Releases`) or never (`Drops`); `Reconnect` is a new
Client of the same caller. `lease` is what a caller may count on: the time it
asked for, from the moment it asked. The server is external: a lock has an owner,
a lease and a token that rises with each acquisition, an owner that acquires
again refreshes its lease, a release or a renewal by anybody else does nothing.
On a sound connection a request and a reply take at most `Transit`; a late
request has no bound.

The mapping to `FencingLock` keeps the lock's owner and the tokens: granted when
the server answers, told when the caller reads it, counted on while the caller's
own clock says that its lease lasts. An acquisition by the owner, a renewal, a
tick with which no lease ends, and whatever becomes of requests are stutters.

## Runs

| Run | Instance | What it shows |
|---|---|---|
| `pool` | 3 threads, size 2, 3 connections, panics | type; `SlotAccounting`, `SingleOwner`, `SocketsOwned`, `NoLostWakeup`, `ImplementsLending`, `ServedWhileASlotIsLeft`, `DeadlineHonoured`, `CloseDrains` |
| `pool_panic` | 2 threads, size 1 | violation of `NeverWedged` |
| `connection` | 4 exchanges, authentication, both timeouts | type; `Aligned`, `PoisonIsFinal`, `CallReturns` |
| `framing` | base 4, two digits of length, ceilings 4 and 1, payloads of 0, 1, 4 and 5, 3 frames, 6 foreign bytes | type, with the ceiling on what is allocated for a payload; `InStep`, `NeverRefused`, `Arrives` |
| `follow` | 2 nodes, 3 requests, 1 election, 2 retries, blocks 2 deep | type, with the bound on the times one request is sent; `OutcomeIsTrue`, `TxnAgrees`, `TxnPinned`, `ImplementsDelivery`, `CallReturns` |
| `follow_timeout` | options without a read timeout | violation of `TimeoutInForce` |
| `session` | 3 closures, blocks 3 deep against 2 rollbacks, 2 writes; an unreadable COMMIT or ROLLBACK may have done nothing | type; `NeverReturnedOpen`, `OkMeansDurable`, `OwnTransaction`, `FlatAllOrNothing`, each but for closures that were misled |
| `session_unread` | 2 closures, an unreadable COMMIT or ROLLBACK closes a block at least | violation of `RolledBackOrRetired` |
| `session_nested` | both closures nest | violation of `WithTransactionAllOrNothing` |
| `session_named` | both closures name document transactions | violation of `OwnTransaction` |
| `calls` | all operations, 2 nodes, 2 transactions, 2 writes; every small argument | type; `WriteGoesWhereMeant`, `ToldTruth`, `EndIsTrue`; `TtlKept`, `DecimalsArePlain`, `ScriptIsOne` |
| `cache_clients` | 2 clients, read timeout 4, waits of 0 to 2, leases of 3, ways of at most 1, 1 cut | type; `NothingLost`, `TokensFence`, `LeaseIsHeld`, `ImplementsFencing` |

What the last two say, in words:

* `WriteGoesWhereMeant`: a write goes into the transaction its caller was in, or
  into none when there was none, or nowhere; through redirects, ends and begins.
* `ToldTruth`: a write whose caller was told that it was refused went nowhere, one
  whose caller was answered went somewhere, and whoever lost the answer lost the
  connection. Of every other error (`Protocol`, `Refused`, `outcome_unknown`) it says
  nothing, because a caller can conclude nothing; that none of those passes for a
  refusal is what its mutant breaks.
* `EndIsTrue`: an answered commit committed, and every write answered inside the
  transaction went into it; a transaction is committed by its own commit only; no
  request names one whose end was asked for.
* `TtlKept`: a lifetime that was asked for is never sent as none, nor longer than
  it is. `DecimalsArePlain` compares the code with a definition that looks at the
  text as a whole.
* `ScriptIsOne`: taken apart again, a script is its BEGIN, each statement once, in
  order and with its own parameters, its COMMIT, and nothing else; what is empty,
  or would break out of that by a word of control, is refused.
* `NothingLost`: a blocking pop whose wait and both ways fit into the read timeout
  never costs an element. With a wait that does not fit it does, in this very
  instance (wait 2, ways of 1, timeout 4), which is why the property needs its
  condition and the documentation of `cache_blpop` its advice.
* `TokensFence`: whoever is told a token after another owner was told its own is
  told a higher one. `ImplementsFencing`: the tokens told were granted, in order,
  to who was told them. `LeaseIsHeld`: a lease a caller counts on is the lock's, with
  its token, so that no two callers count on one; but for a caller that gave up
  waiting for a release of its own (see *What the runs found*).

Each property of a passing run has a mutant in `PROJECT.json`, a plausible slip
in one definition with which the same run fails: a peeked instead of popped
connection, a notification forgotten, a timeout that keeps the socket, a rollback
loop one too long.

### Bounds, and why they are enough

* `Pool`: one thread more than slots makes a waiter meet two threads that give
  back, dial, panic or close at once; with fewer connections than threads plus
  slots a closed one is dialled anew, as three here for three threads and two
  slots. What the theorems below prove holds for every number of threads and
  every size; the instance is what the liveness properties rest on. The run has no symmetry, which would be unsound for
  liveness.
* `Connection`: two exchanges of handshake and two calls: one to go wrong, one to
  suffer for it. Proved for any number.
* `Framing`: the base and the digits are the smallest at which a length takes
  more than one digit and the ceiling of a data frame is not that of a control
  frame. Three frames are one before and one after a damaged one; six foreign
  bytes are a whole head and two bytes more. Proved for any base, width, ceilings
  and numbers.
* `LeaderFollow`: two nodes are enough to be sent to and fro; three requests are
  BEGIN, one inside and COMMIT; two retries let both a move and a pause happen
  in one call; one election changes the leader between any two steps. Proved
  for any cluster and any numbers; `TxnAgrees` with a hypothesis (see *Proofs*).
* `SessionTxn`: `MAX_OPEN_BLOCKS` is 64 in the code; 2 against a depth of 3 is the
  same relation, so that the pool's loop can run out. Three closures are one that
  opens blocks in blocks and leaves something behind, one that finds it and leaves
  it again, and one more that names document transactions as well. Two writes are one
  in the outer block and one in the inner, or one each of two closures. Proved for
  any numbers, but for `OwnTransaction` (see *Proofs*).
* `Calls`: operations with the same row are one (`Shapes`). Two nodes are one that
  holds the transaction and one that does not; two transactions, one to end while
  the other is named; two writes, one before and one after any step. Proved for
  any numbers and any table.
* `Arguments`: two units to a millisecond are a duration below one and one
  between two, up to five milliseconds against a ceiling of three; decimals of up
  to five characters and none, one or two statements of up to four words have a
  sign, a point, a blank or a semicolon in every place. Proved for any unit, any
  ceiling, any length and any number of statements.
* `CacheClients`: a read timeout of four against waits of up to two and ways of
  one puts the sum on both sides of it. A lease of three lapses while requests
  are on their way; four calls let a caller take the lock, lose an answer, take it
  again and be overtaken by the other. Three pops and two elements are one caller
  that is served, one that waits and one that gave up. Proved for any numbers.

`CHECK_DEADLOCK FALSE` is set where a bound on requests, exchanges, frames or
borrowers, writes or calls ends a run; the runs of `Pool` check for deadlock.

### Fairness

* `Pool`: weak fairness of each thread's own steps. Threads are scheduled, a dial
  ends (the system's or `connect_timeout`), a closure returns. Calls, `close`,
  the clock and spurious wakeups are never owed. Neither the mutex nor the
  condvar is fair: a thread may be overtaken for ever, so the property says that
  one waits for ever only while others are served over and over.
* `Connection`: a blocked read returns when there is a reply, an end of the
  stream, or a timeout that is set. The server owes nothing.
* `LeaderFollow`: the client's thread runs, dials and sleeps end. The cluster owes
  nothing, not even a leader.
* `Framing`: the stream moves the bytes it has and `read_exact` goes on while
  there are some. Failures are never owed.
* `SessionTxn`, `Calls` and `CacheClients` have no liveness property and no
  fairness. In `CacheClients` the bounds on ways and waits are guards of `Tick`: time
  does not pass a moment at which something is due.

## Proofs

All eight proof modules are checked to their last leaf. They assume only the
named assumptions on the constants, which TLC evaluates on every run:

* `PoolAssumption`: finitely many threads, a positive size, `NoConn` is no
  connection;
* `ConnectionAssumption`, `SessionTxnAssumption`, `LeaderFollowAssumption`,
  `CacheClientsAssumption`, `ArgumentsAssumption`: the types of the parameters, that
  nobody and no node are told from the others, and a longest pause of at least one;
* `FramingAssumption`: the same, at least one digit of length, and no ceiling
  above what the length field can write (`frame.rs:131` takes it for granted);
* `CallsAssumption`: the rows are operations, and the empty id, no transaction and
  the places a write can go are told apart.

Each component's proof is one inductive invariant, checked by TLC before it was
proved; below are its parts and why each of them is there.

**Pool**, for every finite set of threads, every set of connections and every
size. The inductive invariant is

    TypeOK /\ HoldsOK /\ WithinSize /\ SlotAccounting /\ ClosedKeepsNothing /\ NoLostWakeup /\ Owned

`SlotAccounting` is needed for the types: `lent - 1` is natural because the
thread that lowers it is counted. `HoldsOK` (a thread holds a Client exactly
while it works or retires one) is needed to park a connection and not its
absence. `NoLostWakeup` is inductive beside them by counting: a step that frees
a slot brings a thread on its way to notify, and a step that takes a thread off
its way takes the slot too, or has just notified somebody (`WakeupStep`, with
`NotifyMoves` for what a notification does). From the invariant: `PoolTypes`,
`PoolWithinSize`, `PoolSlotAccounting`, `PoolClosedKeepsNothing`,
`PoolNoLostWakeup`, the action property `PoolNoGrantAfterClose`, and
`PoolImplementsLending`: every step of `Pool` is a step or a stutter of
`Lending`, where `RoomToGrant` turns `lent < Size` into fewer than `Size`
borrowers. `Owned` says where the Clients are: no Client is in two places or
twice in one (`OwnedOnce`), what `close` took is with the thread that closes it
(`TakenByClosing`), and an open socket belongs to a Client somebody owns
(`OpenIsOwned`). Every move takes a Client from its owner before it gives it to
another, which gives `PoolSingleOwner` and `PoolSocketsOwned`. `PoolWithinSize`,
`PoolClosedKeepsNothing` and `PoolNoGrantAfterClose` are proved and not run:
`ImplementsLending` has most of what they say.

**Connection**, for any number of exchanges and any timeouts. The inductive
invariant is `TypeOK /\ ReadsSound /\ OneInFlight /\ Aligned`. `Aligned` alone
says nothing of frames in flight; `OneInFlight` says that on a sound connection
they are the current exchange's, and `ReadsSound` that a reply is awaited on no
other. From it: `ConnectionTypes`, `ConnectionAligned`, `ConnectionOneInFlight`
and `ConnectionPoisonIsFinal`. `OneInFlight` is proved and not run: it is what
`Aligned` rests on.

**SessionTxn**, for any number of closures, writes and blocks and any bound on
the rollbacks. The inductive invariant is `TypeOK`, the writes made are finitely
many, a connection that is lent or rolled back has a borrower, and

* `ClientKnows`: an open transaction on the server implies `txn_open`, except
  after an answer that did not tell what became of a BEGIN, COMMIT or ROLLBACK:
  then the closure passes on the error of a BEGIN, with which `run` retires the
  connection, or it is one of the `misled`;
* `NoSession`: a poisoned connection has no transaction on either side, a pooled
  one none on the server, unless its last borrower was misled;
* `RunKnows`: while `run` rolls back, `left_open` is set if the client has one open.

The second and third are what make the last look at `in_transaction` in `run`
enough. From it: `SessionTypes`, `SessionNeverReturnedOpen`, and
`SessionOwnTransaction` for closures that use no document or graph transaction,
with two more conjuncts (`OwnBlocks`, which holds in any case, and `NoNamed`). The
hypothesis is needed: `session_named` shows what happens without it. Nothing is
assumed of errors that closures swallow, nor of what the server does with a control
statement whose answer cannot be read: what that costs is in the properties, which
except the misled, and goes no further. The theorems do not say that nobody is ever
misled: `session_unread` shows how the pool's own rollback comes to mislead. `OwnBlocks` says so for blocks: those on the
server, and the writes in them, are the borrower's own, or, if it was misled, are
all of such closures (`Authors`).

What became of the writes is a second invariant, `Ledger`. Its centre is
`Accounted`: while a closure runs, and after it left nothing open, each write it
made is held by an open block, durable, undone or with a named transaction; one
that is held is not durable yet (`HeldIsPending`), and one that
`with_transaction` disowned is nowhere it could still become durable from
(`DisownedIsGone`). A new write is none of the old ones (`MadeIsNumbered`,
`AllMade`); `FlatBlocks` and `FlatHolds` are why a closure that opens no blocks
of its own has no writes left once the client takes its block for closed;
`PromisedIsDurable` keeps what a commit promised, and `ResultIsLast` ties the
result of `with_connection` to the end of the rollbacks. From it, with no
hypothesis: `SessionOkMeansDurable` and `SessionFlatAllOrNothing`.

**LeaderFollow**, for any set of nodes, any hints, any number of requests, redirects,
elections and blocks. The invariant is `TypeOK` and

* `LoopOK`: where `send_in` is in its loop, and what its locals are there;
* `SendsCounted`: the request in flight was sent once and once more for each retry,
  which bounds the type of `sends`;
* `CurrentTold`: the request in flight was told nothing, has nothing on an abandoned
  socket, and was executed exactly as often as the answer that waits says; no later
  request was touched;
* `OrphansLost`: what waits on an abandoned socket was told lost, was not executed,
  and is there once, so that executing it late is its first execution;
* `OutcomeIsTrue` itself.

From it: `FollowTypes`, `FollowAtMostOnce`, `FollowOutcomeIsTrue`; and with
`OpenIsKnown` (a block the server has open is one the client knows of once it has
taken in the answer that waits, `Believes`, if that tells it, `Sure`; and a redirect
is followed with `txn_open` FALSE) the action property `FollowTxnPinned`. Both are
about connections that are not `unsure`: beyond those they do not hold of the code
(see *What the runs found*).
`FollowTxnAgrees` needs the other direction too (`KnownIsOpen`), and one hypothesis:
no redirect takes a BEGIN to a node that grants no session transactions
(`BeginMovesToGranted`, about the steps of `move_to` and nothing else). It is what
the code does not see to: `sql.rs:235` looks at the node it is connected to, and
`send_in` takes the BEGIN to another (see *What the runs found*). Under it a BEGIN
is only ever sent to nodes that grant one (`BeginIsGranted`). Where all nodes do, as
in the run, the hypothesis holds by itself: `FollowTxnAgreesEverywhere`.

`FollowImplementsDelivery` maps every step to a step or a stutter of `Delivery`:
`DeliveryStep` is the lemma for each kind of step, with `CurrentTold` for why a yes
is said of what ran and a no of what will not, and `OrphansLost` for why a late
execution is the first and of a request told lost. It says more than `AtMostOnce`
and takes its place in the run; `FollowAtMostOnce` is proved and not run.

**Framing**, for digits of any base, a length of any width, any ceilings it can
write, any frames and any foreign bytes. The invariant's centre is `InPipe`: as long
as only frames were written and the reader is up, there is what a failed write
lost, so that what the reader took of the current frame, what is in the socket,
what is still to be handed over and what was lost are, end to end, the encoding of
the frames that were written and not returned (`Streams`, `Continues`). `Returned`
says that those that were returned are the first of them, `Fits` that each is below
its ceiling, `Filling` that the buffer is not full yet. When a head is complete the
two ends of that equation are cut at the same place, and the length that is read is
the length that was written: `LengthSurvives` proves `FromBytes(ToBytes(n)) = n` for
every `n` below `Place[LenDigits]`. From it: `FramingTypes`, with the ceiling on what
is allocated, `FramingInStep` and the action property `FramingNeverRefused`.

The functions `Place` and `FromBytes` are defined by recursion, and induction is not
at hand; that they exist and what they compute is proved from the least-number
principle instead (`Least`, from `WFMin` and `NatLessThanWellFounded` of the
library): there is no least length at which they fail (`SumsExist`, `Places`,
`Values`).

**CacheClients**, for any set of clients, any timeouts, leases and ways. The
invariant is `TypeOK` and

* `BodyAsAsked`, `ToldAsAnswered`: a request says what was asked and an answer is
  told as it was given;
* `WaitedAtMost`, `TimesOutLate`: how long a caller has waited at most, by where its
  request is, so that a pop times out only where its wait and both ways reach the
  timeout. `CacheNothingLost` follows;
* `TokensCounted`, `TokensBelow`, `TokensFenced`: the server gave no more tokens than
  it served requests, which is why the bounded type does not stop it, nobody saw a
  later token than the lock's, and each was given to one owner. `CacheTokensFence`
  follows, with `Least` to justify the choice in `HighestTold`;
* `ComingIsHeld`, `ReleasingHasNone`: a lease on its way to its caller is the lock's
  already, and who asked for a release counts on none. `CacheLeaseIsHeld` follows,
  with the clocks of `WaitedAtMost`.

`CacheImplementsFencing` maps every step to a step or a stutter of `FencingLock`. It
needs one thing more: every token a caller was told, in the answer to a renewal
too, was granted to it (`TokensGranted`); and `LeaseIsHeld`, before and after, for
why nobody counts on a lock that is free or another's.

**Arguments**, for durations and texts of any length and scripts of any number
of statements (`MaxUnits`, `MaxDecimal`, `MaxText` and `MaxScript` are any
numbers). `ArgumentsTtlKept` is arithmetic of the quotient, its order and the
ceiling. `ArgumentsDecimalsArePlain` compares the check on both sides of the
first point with the definition over the whole text: `AroundPlace` for the two
sides of a place, `BodyShifts` for the sign that is taken off,
`AtMostOneElement` for counting points.

`ArgumentsScriptIsOne` goes statement by statement. A text of one statement has a
core with nothing but blanks before it and nothing but blanks and semicolons
behind it (`OneStatement`, `OneCore`), which is the one piece the server finds in it
(`OnePiece`) and all that is left of it after the trimming of
`build_transaction_script`, but for what is behind it (`StrippedIs`, `Behind`); so
what is put into the script has the same piece, the same placeholders and the same
first word as what was given (`StatementIs`). A text that goes on with a semicolon
and one more statement has the cuts, pieces and placeholders it had, and those of
the statement behind them (`OneMore`), and runs as it did, and then the statement
with its own parameters (`RunsOneMore`, from `Ready`: as many parameters as
placeholders, and every piece finds its own). From the BEGIN on, and with the COMMIT
as one more statement, that is the script (`RunsAll`). The sequence operators of the
community modules are taken by their definitions; what they compute by recursion
(`FlattenSeq`) is, as in `Framing`, known from the least step at which it would
fail (`Flattened`).

All three are about every argument, in one state: the module has no steps.

**Calls**, for every table of operations and any numbers of nodes, transaction ids
and writes. The inductive invariant is `TypeOK`, the three properties, and

* `WriteTied`: the write of the call in flight is pending, and was meant for what
  the request names, which is why a redirect may send it anywhere;
* `NamesInside`: the Client names what its caller takes itself to be in, once the
  end in flight is over: what `set_request_txn` and `forget_txn` keep up together;
* `EndTied`: the end in flight is the one that was asked for;
* `Once`: a transaction that was given or whose end was asked for was begun, and
  is ended once.

`ReturnSafe` has what the three ways of returning have in common: the write goes
where it belongs or nowhere, and only the transaction of the call may end. From
it: `CallsTypes`, `CallsWriteGoesWhereMeant`, `CallsToldTruth` and `CallsEndIsTrue`.

**Only model-checked:** everything temporal with fairness (`NeverWedged`,
`ServedWhileASlotIsLeft`, `DeadlineHonoured`, `CloseDrains`, the two
`CallReturns`, `Arrives`), which is out of the prover's reach. Every invariant,
action property and refinement that a passing run checks is proved; two of them
under a hypothesis on what the code leaves to others: `OwnTransaction` on closures
that name no transaction, `TxnAgrees` on where a BEGIN is redirected.

## What the runs found

Five statements of the repository are not what the code does; each is a run that
is expected to fail, and a row under "findings".

1. **A panic takes a slot with it** (`pool_panic`; `pool.rs:118`). The comment at
   `pool.rs:235-236` says that the counts stay intact and the pool usable: `lent`
   stays raised for ever, nobody is notified, and after `size` panics every
   borrower without a deadline waits for ever.
2. **The caller's read timeout is lost by a redirect** (`follow_timeout`;
   `client.rs:471`).
3. **`with_transaction` returns Ok with nothing committed** when its closure left
   a nested block open (`session_nested`; `sql.rs:279`).
4. **A named document or graph transaction goes to the next borrower**
   (`session_named`; `pool.rs:127`).
5. **A connection is parked with a transaction open** (`session_unread`;
   `pool.rs:138`): a closure leaves two blocks, the RESPONSE to the pool's ROLLBACK of
   the inner one does not parse, `send_once` returns that without poisoning
   (`client.rs:496`), `txn_open` is cleared (`sql.rs:311`), and nothing is left for `broken` to
   see, although the rollback failed. `src/README.md:268-269` says that such a
   connection is retired. The error is `Protocol`, one that `is_connection_fatal` names,
   but `run` asks that of the closure's error and not of its own rollback's.

Seen while modelling, with no run of their own:

* BEGIN can reach a node that did not grant session transactions: `sql.rs:235`
  looks at the node the client is connected to, and a redirect goes to another,
  although `sql.rs:225-226` says that it fails before writing anything.
* A closure that swallows the error of a BEGIN that did not decode (`sql.rs:305`), or of
  a COMMIT or ROLLBACK of an inner block whose RESPONSE did not parse (`client.rs:496`),
  hands the pool a connection with a transaction open that nothing sees, and what the
  next borrowers write goes into it: the `misled` of `SessionTxn` that no property of
  that run is about.
* After such an answer `send_in` takes no transaction for open and follows the next
  `not_leader` away from the one there is, although `options.rs:160-161` says that it
  never happens inside a session transaction: without `~unsure` `TxnPinned` fails.
* Errors that `is_connection_fatal` names need not end the connection: after an ERROR
  frame (`client.rs:485`), a reply body that does not parse (`client.rs:496`) and a request
  over the frame limit (`client.rs:552`) the next call is sent and answered, while
  `error.rs:158` says "Whether the connection that produced this error can no longer be
  used." and `src/README.md:561-565` that it is dropped. `Connection` has all three;
  finding 5 is what it costs.
* The comment at `client.rs:511-512` says that anything but `ok` means the operation did
  not happen; `error.rs:9-12` says of `outcome_unknown` that it may have.
* `Protocol` is the kind of a reply that says nothing of the request, of one that was
  executed and did not decode, and of a request that was never sent because it is
  over the frame limit (`client.rs:552`).
* A refused ROLLBACK ends the transaction for the client, so `run` gives the
  connection back, while the comment at `pool.rs:131-132` speaks of a rollback
  that could not be completed as one after which nothing can be assumed.
* A transaction left open is reported as `InvalidArgument` (`pool.rs:144`), and
  `ErrorKind::TransactionLeftOpen` (`error.rs:48-49`) is never constructed.
* The first pause between retries is slept as given, above
  `MAX_LEADER_RETRY_DELAY` too (`client.rs:445`).
* A timeout set inside a closure stays on the pooled connection.
* A closure that borrows from its own pool can wait for itself (`pool.rs:177`).
* After the handshake no write is bounded (`client.rs:169`), and the read timeout
  bounds each `read()` of the socket and not a reply that trickles in.
* A release whose call was given up may be executed after its caller took the
  lock again, and frees it: the request has the owner and no token (`cache.rs:697`).
* A commit refused with `not_leader` is forgotten by the Client like any other,
  while the transaction may still be open where it was begun (`document.rs:1154`).
* Many fields of a reply default when they are missing: an answer of `{}` to a
  write reads as "nothing changed", and the id of `cache_xadd` and of
  `cache_publish` as "" and 0 (`cache.rs:1150`, `cache.rs:2038`).
* A lifetime below a millisecond is sent as 0 and not as none (`cache.rs:633`).
* The first word of a statement ends at a blank, so that `COMMIT;` with more
  after it passes, and so does `BEGIN; ;`, which is one statement and is run
  inside the script (`sql.rs:345`): `ScriptIsOne` says which words of control are
  refused, and that what passes is run like any other. Nothing compares the
  number of parameters with the placeholders, so that one too many shifts all
  later ones (`sql.rs:359`).
* `5.` and `.5` pass for decimals (`params.rs:77`).
* `InvalidArgument` is also what the pool returns after requests were sent
  (`pool.rs:144`), while `error.rs:113` takes it to say that none was.

## Not modelled, and why

* *Writes that block.* A write is one step: how much fits into the buffers of a
  socket is outside the model.
* *Time*, but in `CacheClients`: a deadline or a timeout is ahead or passed. The
  pauses between retries are kept only for what happens to the number.
* *TLS, certificates, DNS, the file system.* A dial takes time, succeeds or fails.
* *The server.* It is nondeterministic, within what the client relies on.
* *Formats.* Requests are not JSON, errors have a kind and no message; `Display`,
  `Debug` and the rendering of `llm.rs` are left out.
* *What a request and an answer say.* The tables have no field names and no
  values: a slip in the name of a field, or a default read as an answer, is not
  seen. Filters, pipelines, patterns and statements are the server's languages.
* *Cells of `Rows`, integers and bytes of `params.rs`, numbers of vectors*:
  conversions of one value with nothing to get wrong between steps.
* *Statements of the caller that are several, or hold a comment or a quoted
  semicolon*: `ScriptIsOne` is about texts of one statement.
* *Waits of a reconnecting caller.* In `CacheClients` a new connection is one step.

## Plan

Done, in this order: `Pool` with `Lending` (the only concurrency), `Connection`,
`LeaderFollow`, `SessionTxn`, `Framing`; proofs of `Pool`, `Connection`,
`SessionTxn`; the tables with `Replies`, `Calls`, `Arguments`, `CacheClients`; proofs
of `Calls`, of `LeaderFollow`, of the owners in `Pool`, of `CacheClients`, of the
writes in `SessionTxn`, of `Framing` and of `Arguments`; the closures that swallow
errors in `SessionTxn`, with its proofs; `Delivery` and `FencingLock`, and that
`LeaderFollow` and `CacheClients` implement them; scripts of any number of statements;
answers that do not tell the outcome in `Calls`, `LeaderFollow` and `SessionTxn`.

What could come next:

1. `Pool` with a closure that borrows again: the wait for oneself, and the bound
   on nesting under which there is none.
2. `Connection` with a write that blocks and a reply that trickles in, for what a
   timeout bounds.
3. An abstract specification of a transaction (its writes all or none, durable once
   told), implemented by `SessionTxn` for closures that are not misled and by `Calls`.

The runs are twelve, one for each question: a new question joins a run of the
same module.
