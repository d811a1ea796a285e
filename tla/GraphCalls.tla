----------------------------- MODULE GraphCalls ------------------------------
(****************************************************************************)
(* The operations of src/graph.rs, section by section.  graph_execute alone *)
(* is queued in the transaction its request names.                          *)
(****************************************************************************)
EXTENDS Replies

GraphsAndNodes ==
    Operations("write", {}, "nothing",
               {"graph_create", "graph_drop", "graph_add_node", "graph_delete_node"}) \cup
    Operations("read", {}, "lenient", {"graph_list", "graph_list_nodes"}) \cup
    Operations("read", {}, "nullable", {"graph_get_node"})

Edges ==
    Operations("write", {}, "nothing", {"graph_add_edge", "graph_delete_edge"}) \cup
    Operations("read", {}, "nullable", {"graph_get_edge"}) \cup
    Operations("read", {}, "lenient", {"graph_list_edges"})

Walks == Operations("read", {}, "lenient",
                    {"graph_neighbors", "graph_degree", "graph_traverse",
                     "graph_shortest_path", "graph_weighted_shortest_path"})

Changes ==
    Operations("read", {}, "lenient", {"graph_query"}) \cup
    Operations("write", {}, "lenient", {"graph_add_many", "graph_remove_many"}) \cup
    Operations("write", {}, "required", {"graph_update_node", "graph_update_edge"})

WholeGraphs ==
    Operations("write", {}, "lenient", {"graph_copy"}) \cup
    Operations("read", {}, "lenient",
               {"graph_dfs", "graph_connected_components", "graph_detect_cycle",
                "graph_stats", "graph_subgraph", "graph_schema"})

Analyses ==
    Operations("read", {}, "lenient",
               {"graph_k_shortest_paths", "graph_all_paths", "graph_communities",
                "graph_triangle_count", "graph_node_similarity"}) \cup
    Operations("read", {}, "required", {"graph_centrality"})

SchemaObjects ==
    Operations("write", {}, "nothing",
               {"graph_create_node_index", "graph_create_constraint",
                "graph_drop_schema_object"}) \cup
    Operations("read", {}, "lenient",
               {"graph_check_consistency", "graph_list_schema_objects", "graph_find_nodes"}) \cup
    Operations("write", {}, "lenient", {"graph_import_csv"})

GraphTransactions ==
    Operations("read", {}, "lenient", {"graph_page_rank"}) \cup
    Operations("join", {}, "lenient", {"graph_execute"}) \cup
    Operations("begin", {}, "required", {"graph_begin_transaction"}) \cup
    Operations("commit", {}, "lenient", {"graph_commit_transaction"}) \cup
    Operations("rollback", {}, "lenient", {"graph_rollback_transaction"})

GraphOperations ==
    GraphsAndNodes \cup Edges \cup Walks \cup Changes \cup WholeGraphs \cup Analyses \cup
    SchemaObjects \cup GraphTransactions
=============================================================================
