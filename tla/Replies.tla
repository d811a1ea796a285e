------------------------------- MODULE Replies -------------------------------
(****************************************************************************)
(* What the typed calls have in common: which replies a decoder takes, and  *)
(* what it makes of them (src/response.rs, src/wire.rs, the shared decoders *)
(* of src/cache.rs, src/document.rs and src/llm.rs).  The operations        *)
(* themselves are tables of rows, one table for each file of typed calls.   *)
(****************************************************************************)

\* The payload of a reply whose status is ok: what the operation documents;
\* null; an object or list without the expected fields; fields of another
\* type; another variant than the expected one.
Bodies == {"full", "null", "empty", "malformed", "other"}

\* The bodies each way of reading makes an answer of.  The rest are errors of
\* kind Protocol, which do not say what became of the request.
Takes ==
    [nothing  |-> Bodies,               \* send(..).map(|_| ())
     value    |-> {"full", "null"},     \* a null payload is a miss
     values   |-> {"full"},
     lenient  |-> {"full", "empty"},    \* every field has a default
     required |-> {"full"},             \* a field, a list or an id must be there
     nullable |-> {"full", "null"},     \* null is None, else required
     raw      |-> Bodies \ {"other"},   \* Json, as the server sent it
     rendered |-> Bodies \ {"other"},   \* Toon, Message or Json, as text
     status   |-> {"full", "empty", "other"}]   \* Message, or a lenient Json

\* What the caller is told of a reply whose status is ok.  An answer may be
\* None, or the defaults of fields that were not there.
Read(reads, body) == IF body \in Takes[reads] THEN "answered" ELSE "unclear"

\* What an operation does at the server: reads; writes at once; writes in the
\* transaction the request names, if it names one; or begins or ends one.
Effects == {"read", "write", "join", "begin", "commit", "rollback"}

\* The arguments a call refuses before anything is sent.
Faults == {"empty", "not finite", "not an object", "nothing set", "not granted",
           "not a decimal", "control"}

Operations(effect, refuses, reads, names) ==
    {[op |-> o, effect |-> effect, refuses |-> refuses, reads |-> reads] : o \in names}

IsOperation(row) ==
    /\ DOMAIN row = {"op", "effect", "refuses", "reads"}
    /\ row.effect \in Effects
    /\ row.refuses \subseteq Faults
    /\ row.reads \in DOMAIN Takes
=============================================================================
