------------------------------ MODULE Connection ------------------------------
(****************************************************************************)
(* One Client and the server at the other end of its socket: connect with   *)
(* its handshake, the exchange every call goes through, what each answer    *)
(* means to each call, and when the connection is poisoned (src/client.rs:  *)
(* connect, hello, auth, ping, cancel, send_once, exchange, poison,         *)
(* close_inner).  Leader following is in LeaderFollow.                      *)
(*                                                                          *)
(* A frame is the number of the exchange it belongs to and, for a reply,    *)
(* the kind of answer it is.  No frame names the exchange on the wire       *)
(* (Response.request_id is decoded and never compared), so the number is    *)
(* what the checks look at and the client never does.                       *)
(****************************************************************************)
EXTENDS Integers, Sequences

CONSTANTS
    MaxExchanges,   \* bound on the exchanges of one connection
    HasUser,        \* Options.user is set, so connect authenticates
    ConnectTimeout, \* Options.connect_timeout is set
    ReadTimeout     \* a read timeout is set once connected

ASSUME ConnectionAssumption ==
    /\ MaxExchanges \in Nat
    /\ {HasUser, ConnectTimeout, ReadTimeout} \subseteq BOOLEAN

VARIABLES
    stage,      \* what the client is for now: hello, auth, ready, or gone
    op,         \* the call being made
    reading,    \* its frame is written and its reply awaited
    sent,       \* exchanges started
    fault,      \* Client.fault: the kind of the first fatal error
    toServer,   \* frames on their way to the server
    toClient,   \* replies on their way back
    linked,     \* neither end, nor the network, has cut the socket
    last        \* how the last call ended: op, exchange, error, reply used

vars == <<stage, op, reading, sent, fault, toServer, toClient, linked, last>>

Calls == {"request", "ping", "cancel"}
Ops == {"hello", "auth"} \cup Calls
Kinds == {"ok", "refused", "malformed", "error", "other", "garbled"}
Errors == {"none", "Io", "Timeout", "Protocol", "Handshake", "Auth", "Server",
           "Refused", "Closed"}


TypeOK ==
    /\ stage \in {"hello", "auth", "ready", "gone"}
    /\ op \in Ops
    /\ reading \in BOOLEAN
    /\ sent \in Nat
    /\ fault \in Errors
    /\ toServer \in Seq(Nat)
    /\ toClient \in Seq([for : Nat, kind : Kinds])
    /\ linked \in BOOLEAN
    /\ last \in [op : Ops, exchange : Nat, error : Errors, from : Nat]

\* The socket is dialled and the Client built; hello comes next.
Init ==
    /\ stage = "hello"
    /\ op = "hello"
    /\ reading = FALSE
    /\ sent = 0
    /\ fault = "none"
    /\ toServer = <<>>
    /\ toClient = <<>>
    /\ linked = TRUE
    /\ last = [op |-> "hello", exchange |-> 0, error |-> "none", from |-> 0]

-----------------------------------------------------------------------------
\* What connect or the caller does next with a call that ended in `error`: a
\* step of the handshake that failed drops the Client, one that did not leads
\* to the next.
NextStage(o, error) ==
    CASE o \in Calls                      -> stage
      [] o \notin Calls /\ error # "none" -> "gone"
      [] o = "hello" /\ error = "none"    -> IF HasUser THEN "auth" ELSE "ready"
      [] o = "auth" /\ error = "none"     -> "ready"

Ended(o, exchange, error, from) ==
    /\ reading' = FALSE
    /\ stage' = NextStage(o, error)
    /\ last' = [op |-> o, exchange |-> exchange, error |-> error, from |-> from]

\* poison(): remember the first error and shut the socket down.
Poison(error) ==
    /\ fault' = IF fault = "none" THEN error ELSE fault
    /\ linked' = FALSE
    /\ toServer' = <<>>

NextOp == IF stage = "ready" THEN Calls ELSE {stage} \cap Ops

-----------------------------------------------------------------------------
(* exchange(), up to the write.                                             *)

Start(o) ==
    /\ ~reading
    /\ o \in NextOp
    /\ sent < MaxExchanges
    /\ op' = o
    /\ sent' = sent + 1

\* Mutant: does not look whether the connection is poisoned.
Write_EvenFaulted(o) ==
    /\ Start(o)
    /\ reading' = TRUE
    /\ toServer' = Append(toServer, sent + 1)
    /\ UNCHANGED <<stage, fault, toClient, linked, last>>

Write(o) ==
    /\ Start(o)
    /\ fault = "none"
    /\ reading' = TRUE
    /\ toServer' = IF linked THEN Append(toServer, sent + 1) ELSE toServer
    /\ UNCHANGED <<stage, fault, toClient, linked, last>>

\* frame::encode refuses a payload over the tag's limit before a byte is
\* written.  A PING has no payload.
RefuseTooLarge(o) ==
    /\ Start(o)
    /\ o # "ping"
    /\ fault = "none"
    /\ Ended(o, sent + 1, "Protocol", 0)
    /\ UNCHANGED <<fault, toServer, toClient, linked>>

\* The write fails or, in the handshake, times out.
WriteFails(o) ==
    /\ Start(o)
    /\ fault = "none"
    /\ \E error \in {"Io"} \cup (IF ConnectTimeout /\ o \notin Calls THEN {"Timeout"} ELSE {}) :
          Poison(error) /\ Ended(o, sent + 1, error, 0)
    /\ UNCHANGED toClient

RefuseFaulted(o) ==
    /\ Start(o)
    /\ fault # "none"
    /\ Ended(o, sent + 1, "Closed", 0)
    /\ UNCHANGED <<fault, toServer, toClient, linked>>

-----------------------------------------------------------------------------
(* exchange(), from the read on, and what the call makes of the reply.      *)

\* Which answers break the framing or the protocol, so that the call poisons
\* the connection: an unreadable frame, a tag the call does not expect, and
\* for PING an ERROR frame too.
Breaks(o, kind) == kind \in {"other", "garbled"} \/ (o = "ping" /\ kind = "error")

\* Mutant: an error of no kind a caller could match on.
RefusalOf_Unnamed(o) == IF o = "hello" THEN "Handshake" ELSE "Denied"

RefusalOf(o) ==
    CASE o = "hello" -> "Handshake" [] o = "auth" -> "Auth" [] OTHER -> "Server"

ErrorOf(o, kind) ==
    CASE Breaks(o, kind) \/ kind = "malformed" -> "Protocol"
      [] kind = "ok"                           -> "none"
      [] kind = "refused"                      -> RefusalOf(o)
      [] kind = "error" /\ ~Breaks(o, kind)    ->
            IF o = "request" THEN "Refused" ELSE RefusalOf(o)

ReadReply ==
    /\ reading
    /\ toClient # <<>>
    /\ LET reply == Head(toClient)
           error == ErrorOf(op, reply.kind)
       IN  /\ Ended(op, sent, error, reply.for)
           /\ IF Breaks(op, reply.kind)
                THEN Poison(error)
                ELSE UNCHANGED <<fault, linked, toServer>>
    /\ toClient' = Tail(toClient)
    /\ UNCHANGED <<op, sent>>

\* The peer or the network cut the socket before the reply was whole.
ReadFails ==
    /\ reading
    /\ ~linked
    /\ Poison("Io")
    /\ Ended(op, sent, "Io", 0)
    /\ UNCHANGED <<op, sent, toClient>>

\* Mutant: the handshake waits without a bound.
TimeoutSet_NotInHandshake == stage = "ready" /\ ReadTimeout

\* The handshake waits with connect_timeout, everything later with the read
\* timeout.  The reply, or the rest of it, may be on its way.
TimeoutSet == IF stage = "ready" THEN ReadTimeout ELSE ConnectTimeout

\* Mutant: reports the timeout and keeps the socket for the next call.
ReadTimesOut_KeepsSocket ==
    /\ reading
    /\ TimeoutSet
    /\ Ended(op, sent, "Timeout", 0)
    /\ UNCHANGED <<op, sent, fault, linked, toServer, toClient>>

ReadTimesOut ==
    /\ reading
    /\ TimeoutSet
    /\ Poison("Timeout")
    /\ Ended(op, sent, "Timeout", 0)
    /\ UNCHANGED <<op, sent, toClient>>

\* close() takes the Client: CLOSE and BYE if the stream is sound, then the
\* socket goes.  Nothing is read for anybody after that.
CloseClient ==
    /\ stage = "ready"
    /\ ~reading
    /\ stage' = "gone"
    /\ linked' = FALSE
    /\ toServer' = <<>>
    /\ UNCHANGED <<op, reading, sent, fault, toClient, last>>

-----------------------------------------------------------------------------
(* The server and the network.                                              *)

\* The kinds of answer a call can get: PONG has no body to refuse or malform.
AnswersTo(o) == IF o = "ping" THEN Kinds \ {"refused", "malformed"} ELSE Kinds

\* One reply to each request, in order, whenever the server gets to it.
Serve ==
    /\ toServer # <<>>
    /\ \E kind \in AnswersTo(op) :
          toClient' = Append(toClient, [for |-> Head(toServer), kind |-> kind])
    /\ toServer' = Tail(toServer)
    /\ UNCHANGED <<stage, op, reading, sent, fault, linked, last>>

Cut ==
    /\ linked
    /\ linked' = FALSE
    /\ toServer' = <<>>
    /\ \E lost \in BOOLEAN : toClient' = IF lost THEN <<>> ELSE toClient
    /\ UNCHANGED <<stage, op, reading, sent, fault, last>>

-----------------------------------------------------------------------------
Read == ReadReply \/ ReadFails \/ ReadTimesOut
Call == \E o \in Ops : Write(o) \/ RefuseTooLarge(o) \/ WriteFails(o) \/ RefuseFaulted(o)

Next == Call \/ Read \/ CloseClient \/ Serve \/ Cut

Spec == Init /\ [][Next]_vars

\* A blocked read returns when it can.  The server owes nothing.
FairSpec == Spec /\ WF_vars(Read)

-----------------------------------------------------------------------------
\* An answer is handed only to the call it answers, although no reply is
\* matched by its id: whenever a reply may still come for an abandoned call,
\* the connection is never read again.
Aligned == last.from \in {0, last.exchange}

\* While the connection is sound nothing is in flight between calls, and
\* during one only its own frame or its own reply.
OneInFlight ==
    fault = "none" /\ stage # "gone" =>
        /\ Len(toServer) + Len(toClient) <= IF reading THEN 1 ELSE 0
        /\ \A i \in DOMAIN toServer : toServer[i] = sent
        /\ \A i \in DOMAIN toClient : toClient[i].for = sent

\* A poisoned connection stays poisoned by its first error, sends nothing and
\* answers every later call with Closed.
PoisonIsFinal ==
    [][fault # "none" =>
          /\ fault' = fault
          /\ Len(toServer') <= Len(toServer)
          /\ last' # last => last'.error = "Closed"]_vars

\* With timeouts set every wait for a reply ends, the handshake's included,
\* even when the server never answers (client.rs:157-161, 169-170).  A write
\* that blocks is not a wait for a reply: after the handshake nothing bounds it.
CallReturns == reading ~> ~reading
=============================================================================
