----------------------------- MODULE CacheCalls ------------------------------
(****************************************************************************)
(* The operations of src/cache.rs, section by section: what each does, the  *)
(* arguments it refuses before sending, and how it reads the reply.         *)
(****************************************************************************)
EXTENDS Replies

Values ==
    Operations("read", {}, "nothing", {"cache_ping"}) \cup
    Operations("read", {}, "value", {"cache_get"}) \cup
    Operations("write", {}, "nothing", {"cache_set", "cache_set_ttl"}) \cup
    Operations("write", {}, "lenient", {"cache_set_nx", "cache_delete"}) \cup
    Operations("read", {}, "lenient", {"cache_exists", "cache_ttl"})

Keys ==
    Operations("write", {}, "lenient",
               {"cache_expire", "cache_persist", "cache_incr", "cache_clear_namespace"}) \cup
    Operations("read", {}, "lenient", {"cache_keys"})

Lists ==
    Operations("write", {"empty"}, "lenient", {"cache_lpush", "cache_rpush"}) \cup
    Operations("write", {}, "value", {"cache_lpop", "cache_rpop"}) \cup
    Operations("read", {}, "required", {"cache_lrange"}) \cup
    Operations("read", {}, "lenient", {"cache_llen"}) \cup
    Operations("read", {}, "value", {"cache_lindex"})

Sets ==
    Operations("write", {"empty"}, "lenient", {"cache_sadd", "cache_srem"}) \cup
    Operations("read", {}, "lenient", {"cache_sismember", "cache_scard"}) \cup
    Operations("read", {}, "required", {"cache_smembers"})

Hashes ==
    Operations("write", {"empty"}, "lenient", {"cache_hset", "cache_hset_text", "cache_hdel"}) \cup
    Operations("read", {}, "value", {"cache_hget"}) \cup
    Operations("read", {}, "required", {"cache_hgetall"}) \cup
    Operations("read", {}, "lenient", {"cache_hexists", "cache_hlen"})

\* An id that is not there reads as the empty text.
Streams ==
    Operations("write", {"empty"}, "lenient",
               {"cache_xadd", "cache_xadd_text", "cache_xdel"}) \cup
    Operations("read", {}, "lenient", {"cache_xlen", "cache_xrange", "cache_xread"}) \cup
    Operations("write", {}, "lenient", {"cache_xtrim"})

ManyKeys ==
    Operations("read", {}, "values", {"cache_mget"}) \cup
    Operations("write", {}, "lenient",
               {"cache_mset", "cache_warm", "cache_set_if", "cache_compare_and_swap"})

AtomicReads ==
    Operations("write", {}, "value", {"cache_get_del", "cache_get_set", "cache_get_ex"}) \cup
    Operations("write", {}, "lenient", {"cache_append", "cache_expire_at"})

\* A state that is none of the four, the empty one included, is Protocol.
StaleWhileRevalidate ==
    Operations("write", {}, "lenient", {"cache_set_fresh"}) \cup
    Operations("write", {}, "required", {"cache_get_fresh"}) \cup
    Operations("write", {}, "nothing", {"cache_set_missing"})

SortedSets ==
    Operations("write", {"empty", "not finite"}, "lenient", {"cache_zadd"}) \cup
    Operations("write", {"empty"}, "lenient", {"cache_zrem"}) \cup
    Operations("read", {}, "lenient", {"cache_zscore", "cache_zcard", "cache_zrank"}) \cup
    Operations("read", {}, "required", {"cache_zrange", "cache_zrange_with_scores"})

Scores ==
    Operations("read", {"not finite"}, "required",
               {"cache_zrange_by_score", "cache_zrange_by_score_with_scores"}) \cup
    Operations("write", {"not finite"}, "required", {"cache_zincr_by"})

Locks == Operations("write", {}, "lenient",
                    {"cache_lock_acquire", "cache_lock_renew", "cache_lock_release"})

Bitmaps ==
    Operations("write", {}, "lenient", {"cache_set_bit", "cache_bit_op"}) \cup
    Operations("read", {}, "lenient", {"cache_get_bit", "cache_bit_count"}) \cup
    Operations("read", {}, "required", {"cache_bit_pos"})

HyperLogLogs ==
    Operations("write", {"empty"}, "lenient", {"cache_pf_add"}) \cup
    Operations("read", {}, "lenient", {"cache_pf_count"}) \cup
    Operations("write", {}, "nothing", {"cache_pf_merge"})

\* A blocking pop takes the first two values: the key and the element.
ListMoves ==
    Operations("write", {}, "value", {"cache_lmove"}) \cup
    Operations("write", {}, "lenient", {"cache_ltrim"}) \cup
    Operations("write", {}, "values", {"cache_blpop", "cache_brpop"})

Members ==
    Operations("read", {}, "required",
               {"cache_sunion", "cache_sinter", "cache_sdiff", "cache_srand_member"}) \cup
    Operations("write", {}, "lenient", {"cache_hincr_by"})

\* One reply that is neither ok nor an error makes the whole batch Protocol.
Batches ==
    Operations("write", {}, "required",
               {"cache_pipeline", "cache_transaction", "cache_script_run"}) \cup
    Operations("write", {}, "nothing", {"cache_script_load"})

Channels ==
    Operations("write", {}, "lenient", {"cache_publish"}) \cup
    Operations("read", {}, "lenient", {"cache_poll"})

NodeCalls ==
    Operations("read", {}, "lenient", {"cache_stats", "cache_get_namespace_limit"}) \cup
    Operations("write", {}, "lenient",
               {"cache_flush_database", "cache_purge_expired", "cache_set_namespace_limit"}) \cup
    Operations("read", {}, "raw", {"cache_hot_keys"})

CacheOperations ==
    Values \cup Keys \cup Lists \cup Sets \cup Hashes \cup Streams \cup ManyKeys \cup
    AtomicReads \cup StaleWhileRevalidate \cup SortedSets \cup Scores \cup Locks \cup
    Bitmaps \cup HyperLogLogs \cup ListMoves \cup Members \cup Batches \cup Channels \cup NodeCalls
=============================================================================
