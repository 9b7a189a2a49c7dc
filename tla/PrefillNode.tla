---------------------------- MODULE PrefillNode ----------------------------
(***************************************************************************)
(* PrefillNode::execute (src/nodes/prefill_node.cpp): chunked prefill of   *)
(* the shared document, a watermark after each chunk, and at a milestone   *)
(* the release of the context until every branch of the milestone is done. *)
(* The steps between two LlamaGuard scopes run without the guard.          *)
(***************************************************************************)
EXTENDS ExecutionNode

VARIABLE prefilled  \* document tokens each prefiller has decoded

prefillVars == <<stateVars, engineVars, active_buffers, pc, prefilled>>

chunk(p) ==
  IF pipeline.total - prefilled[p] < ChunkTokens
  THEN pipeline.total - prefilled[p] ELSE ChunkTokens

\* llama_init_from_model and bind_contiguous_cache.  The guard is not taken.
\* A null staging buffer makes bind throw with the context still allocated.
PrefillInit(p) ==
  /\ \/ /\ "init" \in PrefillFaults
        /\ Throw(p, "execute")
        /\ UNCHANGED <<live_ctx, kv>>
     \/ /\ llama_open(p, {})
        /\ IF bind_throws(pipeline.staged)
           THEN Throw(p, "execute")
           ELSE Goto(p, "execute", "tokenize") /\ UNCHANGED llama_guard
  /\ UNCHANGED <<stateVars, active_buffers, prefilled>>

\* tokenize_text and the n_ctx check.  A tokenizer failure keeps the context;
\* a document that does not fit frees it.
PrefillTokenize(p) ==
  /\ \/ /\ "tokenize" \in PrefillFaults
        /\ Throw(p, "tokenize")
        /\ UNCHANGED <<live_ctx, kv>>
     \/ /\ pipeline.total >= NCtx
        /\ Throw(p, "tokenize")
        /\ llama_free(p)
     \/ /\ pipeline.total < NCtx
        /\ Goto(p, "tokenize", "loop")
        /\ UNCHANGED engineVars
  /\ UNCHANGED <<stateVars, active_buffers, prefilled>>

\* The loop body opens its LlamaGuard scope.
BeginChunk(p) ==
  /\ prefilled[p] < pipeline.total
  /\ Goto(p, "loop", "decode")
  /\ LockGuard(p)
  /\ UNCHANGED <<stateVars, live_ctx, kv, active_buffers, prefilled>>

\* decode_token_range(lctx, tokens, prefilled, chunk); prefilled += chunk.
DecodeChunk(p) ==
  /\ \/ /\ "decode" \in PrefillFaults
        /\ ThrowUnderGuard(p, "decode")
        /\ UNCHANGED <<live_ctx, kv, prefilled>>
     \/ /\ Goto(p, "decode", "commit")
        /\ llama_decode(p, prefilled[p], chunk(p))
        /\ prefilled' = [prefilled EXCEPT ![p] = @ + chunk(p)]
        /\ UNCHANGED llama_guard
  /\ UNCHANGED <<stateVars, active_buffers>>

\* commit_watermark of a chunk that is no milestone; the guard scope ends.
CommitChunk(p) ==
  /\ Goto(p, "commit", "loop")
  /\ commit_plain(prefilled[p])
  /\ UnlockGuard
  /\ UNCHANGED <<live_ctx, kv, active_buffers, prefilled>>

\* commit_watermark of a milestone, up to llama_state_seq_get_data: it throws
\* when the staging buffer is too small, and may report 0 bytes.
ExportMilestone(p) ==
  /\ \/ /\ is_snapshot_milestone(prefilled[p])
        /\ "capacity" \in PrefillFaults
        /\ ThrowUnderGuard(p, "commit")
        /\ UNCHANGED stateVars
     \/ /\ \/ commit_export(prefilled[p], kv[p])
           \/ "export" \in PrefillFaults /\ commit_export(prefilled[p], {})
        /\ Goto(p, "commit", "publish")
        /\ UNCHANGED llama_guard
  /\ UNCHANGED <<live_ctx, kv, active_buffers, prefilled>>

\* The rest of commit_watermark; the guard scope of the chunk ends.
PublishMilestone(p) ==
  /\ Goto(p, "publish", "release")
  /\ commit_publish(prefilled[p])
  /\ UnlockGuard
  /\ UNCHANGED <<live_ctx, kv, active_buffers, prefilled>>

\* Wrong: the context is kept during the pause.
ReleaseContext_kept(p) ==
  /\ Goto(p, "release", "await_consumers")
  /\ llama_guard = NoThread
  /\ UNCHANGED <<stateVars, engineVars, active_buffers, prefilled>>

\* { LlamaGuard guard; llama_free(lctx); } after is_snapshot_milestone.
ReleaseContext(p) ==
  /\ Goto(p, "release", "await_consumers")
  /\ llama_guard = NoThread
  /\ llama_free(p)
  /\ UNCHANGED <<stateVars, llama_guard, active_buffers, prefilled>>

\* state->wait_for_milestone_consumers(prefilled)
AwaitConsumers(p) ==
  /\ \/ /\ wait_for_milestone_consumers(p, prefilled[p])
        /\ Goto(p, "await_consumers", "resume")
     \/ /\ sleep_for_milestone_consumers(p, prefilled[p])
        /\ Goto(p, "await_consumers", "await_consumers")
  /\ UNCHANGED <<engineVars, active_buffers, prefilled>>

ResumeLock(p) ==
  /\ Goto(p, "resume", "restore")
  /\ LockGuard(p)
  /\ UNCHANGED <<stateVars, live_ctx, kv, active_buffers, prefilled>>

\* Wrong: the fresh context is not given the snapshot.
RestorePrefix_forgotten(p) ==
  /\ Goto(p, "restore", "loop")
  /\ UnlockGuard
  /\ llama_open(p, {})
  /\ UNCHANGED <<stateVars, active_buffers, prefilled>>

\* A fresh context, and restore_prefix_snapshot at the milestone.
RestorePrefix(p) ==
  LET found == has_prefix_snapshot(prefilled[p])
      data == IF found THEN prefix_snapshots[prefilled[p]].data ELSE {}
  IN
  /\ \/ /\ "init" \in PrefillFaults
        /\ ThrowUnderGuard(p, "restore")
        /\ UNCHANGED <<live_ctx, kv>>
     \/ /\ ~found \/ ("restore" \in PrefillFaults /\ data # {})
        /\ ThrowUnderGuard(p, "restore")
        /\ llama_open(p, {})
     \/ /\ found
        /\ Goto(p, "restore", "loop")
        /\ UnlockGuard
        /\ llama_open(p, data)
  /\ UNCHANGED <<stateVars, active_buffers, prefilled>>

\* The whole document is prefilled.
CompletePrefill(p) ==
  /\ prefilled[p] >= pipeline.total
  /\ Goto(p, "loop", "free")
  /\ mark_prefill_complete
  /\ UNCHANGED <<engineVars, active_buffers, prefilled>>

\* The final llama_free, without the guard, and the return.
FreePrefill(p) ==
  /\ Goto(p, "free", "returned")
  /\ llama_free(p)
  /\ UNCHANGED <<stateVars, llama_guard, active_buffers, prefilled>>

PrefillNodeExecute(p) ==
  \/ PrefillInit(p) \/ PrefillTokenize(p)
  \/ BeginChunk(p) \/ DecodeChunk(p) \/ CommitChunk(p)
  \/ ExportMilestone(p) \/ PublishMilestone(p)
  \/ ReleaseContext(p) \/ AwaitConsumers(p)
  \/ ResumeLock(p) \/ RestorePrefix(p)
  \/ CompletePrefill(p) \/ FreePrefill(p)

=============================================================================
