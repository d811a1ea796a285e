----------------------------- MODULE VectorCalls -----------------------------
(****************************************************************************)
(* The operations of src/vector.rs, section by section.                     *)
(****************************************************************************)
EXTENDS Replies

VectorCollections ==
    Operations("write", {}, "nothing",
               {"vector_create_collection", "vector_create_collection_quantized",
                "vector_drop_collection"}) \cup
    Operations("read", {}, "lenient", {"vector_list_collections"}) \cup
    Operations("read", {}, "required", {"vector_describe_collection"})

Vectors ==
    Operations("write", {}, "nothing", {"vector_upsert", "vector_delete"}) \cup
    Operations("read", {}, "nullable", {"vector_get"}) \cup
    Operations("read", {}, "lenient", {"vector_search", "vector_search_filtered"}) \cup
    Operations("read", {}, "required", {"vector_list_vectors"})

TextsAndNames ==
    Operations("read", {}, "lenient", {"vector_embed", "vector_list_aliases"}) \cup
    Operations("write", {}, "lenient", {"vector_upsert_text"}) \cup
    Operations("write", {}, "nothing",
               {"vector_set_alias", "vector_add_named_vector", "vector_upsert_named"})

ManyVectors ==
    Operations("write", {}, "lenient", {"vector_upsert_many", "vector_delete_many"}) \cup
    Operations("read", {}, "lenient",
               {"vector_search_batch", "vector_search_multi", "vector_search_by_examples"})

ByFilter ==
    Operations("write", {}, "lenient",
               {"vector_delete_by_filter", "vector_update_by_filter",
                "vector_rename_collection", "vector_copy_collection"}) \cup
    Operations("read", {}, "lenient", {"vector_count", "vector_list_partitions"})

VectorIndexes ==
    Operations("write", {}, "lenient", {"vector_rebuild_index"}) \cup
    Operations("read", {}, "lenient", {"vector_index_stats", "vector_measure_recall"}) \cup
    Operations("write", {"nothing set"}, "lenient", {"vector_set_collection_config"})

VectorOperations ==
    VectorCollections \cup Vectors \cup TextsAndNames \cup ManyVectors \cup ByFilter \cup
    VectorIndexes
=============================================================================
