------------------------------- MODULE MCCalls -------------------------------
(* Calls with the operations of the repository.  A behaviour looks at the   *)
(* arguments of one call, or else makes calls.                              *)
EXTENDS Calls, CacheCalls, DocumentCalls, GraphCalls, VectorCalls, QueryCalls, Arguments

AllRows == CacheOperations \cup DocumentOperations \cup GraphOperations \cup VectorOperations
             \cup QueryOperations

MCInit == Init /\ ArgumentInit

MCNext == argument = None /\ Next /\ UNCHANGED argument

MCSpec == MCInit /\ [][MCNext]_<<vars, argument>>

Symmetry == Permutations(Ids) \cup Permutations(Nodes)
=============================================================================
