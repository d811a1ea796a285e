--------------------------- MODULE DocumentCalls -----------------------------
(****************************************************************************)
(* The operations of src/document.rs, section by section.  A write of       *)
(* documents joins the transaction its request names.                       *)
(****************************************************************************)
EXTENDS Replies

DocumentCollections ==
    Operations("write", {}, "nothing",
               {"document_create_collection", "document_drop_collection"}) \cup
    Operations("read", {}, "lenient", {"document_list_collections"})

\* An id that is not there, or is empty, is Protocol.
Inserts ==
    Operations("join", {"not an object"}, "required",
               {"document_insert", "document_insert_with_id"})

Finds == Operations("read", {}, "required",
                    {"document_get", "document_find", "document_find_limit"})

Updates ==
    Operations("join", {}, "nothing", {"document_update"}) \cup
    Operations("join", {"nothing set"}, "lenient",
               {"document_update_one", "document_upsert_one", "document_update_many"})

DocumentIndexes ==
    Operations("join", {}, "nothing", {"document_delete"}) \cup
    Operations("write", {}, "nothing", {"document_create_index", "document_drop_index"}) \cup
    Operations("read", {}, "lenient", {"document_list_indexes"}) \cup
    Operations("write", {}, "required", {"document_analyze"}) \cup
    Operations("read", {}, "required", {"document_aggregate"})

ManyDocuments ==
    Operations("join", {"not an object"}, "lenient",
               {"document_replace", "document_insert_many"}) \cup
    Operations("join", {}, "lenient", {"document_delete_many"}) \cup
    Operations("write", {}, "nothing", {"document_rename_collection"}) \cup
    Operations("write", {}, "lenient", {"document_purge_expired"}) \cup
    Operations("read", {}, "lenient", {"document_explain"})

DocumentTransactions ==
    Operations("begin", {}, "required", {"document_begin_transaction"}) \cup
    Operations("commit", {}, "lenient", {"document_commit_transaction"}) \cup
    Operations("rollback", {}, "nothing", {"document_rollback_transaction"})

CollectionSettings ==
    Operations("write", {}, "required", {"document_rebuild_index"}) \cup
    Operations("write", {}, "lenient", {"document_set_collection_options"}) \cup
    Operations("read", {}, "lenient", {"document_get_collection_options"}) \cup
    Operations("join", {}, "lenient", {"document_bulk_write"})

DocumentOperations ==
    DocumentCollections \cup Inserts \cup Finds \cup Updates \cup DocumentIndexes \cup
    ManyDocuments \cup DocumentTransactions \cup CollectionSettings
=============================================================================
