----------------------------- MODULE QueryCalls ------------------------------
(****************************************************************************)
(* The requests of src/sql.rs and of src/llm.rs.  BEGIN, COMMIT and         *)
(* ROLLBACK of a session are in SessionTxn and LeaderFollow.                *)
(****************************************************************************)
EXTENDS Replies

\* sql_body: parameters need a feature, and each is validated.
BadParameters == {"not granted", "not finite", "not a decimal"}

\* Each field of Rows has a default.
Statements ==
    Operations("write", {}, "nothing", {"execute"}) \cup
    Operations("write", BadParameters, "nothing", {"execute_params"}) \cup
    Operations("read", {}, "lenient", {"query"}) \cup
    Operations("read", BadParameters, "lenient", {"query_params"})

ScriptCall == Operations("write", BadParameters \cup {"empty", "control"}, "lenient",
                         {"transaction"})

Exports ==
    Operations("read", {"empty"}, "rendered", {"llm_context"}) \cup
    Operations("read", {}, "rendered", {"llm_schema"}) \cup
    Operations("read", {}, "nothing", {"admin_ping"}) \cup
    Operations("read", {}, "status", {"admin_status"})

QueryOperations == Statements \cup ScriptCall \cup Exports
=============================================================================
