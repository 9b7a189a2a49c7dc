---------------------------- MODULE MemoryPool -----------------------------
(***************************************************************************)
(* The arena of src/memory/memory_pool.cpp: the registry of live ggml      *)
(* buffers.  A buffer is named by its owner: Staging for the prefix cache  *)
(* the caller stores in PipelineState, a node for its branch cache.        *)
(***************************************************************************)
CONSTANT Staging

VARIABLE active_buffers

allocate_cache(owner) == active_buffers' = active_buffers \cup {owner}
free_all == active_buffers' = {}

\* A pool by itself: MemoryPoolThreads implements it.
PoolInit == active_buffers = {}
PoolNext(Owner) ==
  \/ free_all
  \/ UNCHANGED active_buffers
  \/ \E owner \in Owner \ active_buffers : allocate_cache(owner)

=============================================================================
