--------------------------- MODULE AnalyticalNode --------------------------
(***************************************************************************)
(* AnalyticalNode::execute (src/nodes/analytical_node.cpp): fork the       *)
(* prefix KV, restore it in a context of its own and decode the branch     *)
(* prompt after it.  The whole body runs inside one LlamaGuard scope.      *)
(***************************************************************************)
EXTENDS ExecutionNode

VARIABLES fork_prefix_len,  \* RoPE offset of each branch
          fork_kv_bytes,    \* serialized bytes to restore
          branch_buf        \* positions copied to the branch buffer

forkVars == <<fork_prefix_len, fork_kv_bytes, branch_buf>>

forks_at_watermark(n) == required_prefix_tokens(n) >= 0

\* swarmkv_validate_context_budget(fork_prefix_len, {prompt}, n_ctx)
fits_context_budget(n) ==
  validate_context_budget(fork_prefix_len[n], {pipeline.prompt[n]})

\* LlamaGuard guard;
EnterBranch(n) ==
  /\ Goto(n, "execute", "fork")
  /\ LockGuard(n)
  /\ UNCHANGED <<stateVars, live_ctx, kv, active_buffers, forkVars>>

\* try_get_prefix_snapshot(required_prefix_tokens_)
ForkSnapshot(n) ==
  LET w == required_prefix_tokens(n) IN
  /\ forks_at_watermark(n)
  /\ \/ /\ ~has_prefix_snapshot(w)
        /\ ThrowUnderGuard(n, "fork")
        /\ UNCHANGED forkVars
     \/ /\ has_prefix_snapshot(w)
        /\ Goto(n, "fork", "materialize")
        /\ fork_prefix_len' =
             [fork_prefix_len EXCEPT ![n] = prefix_snapshots[w].seq_len]
        /\ fork_kv_bytes' =
             [fork_kv_bytes EXCEPT ![n] = Cardinality(prefix_snapshots[w].data)]
        /\ UNCHANGED <<llama_guard, branch_buf>>
  /\ UNCHANGED <<stateVars, live_ctx, kv, active_buffers>>

\* The last canonical export, read without watermark_mutex.
ForkCanonical(n) ==
  /\ ~forks_at_watermark(n)
  /\ fork_prefix_len' = [fork_prefix_len EXCEPT ![n] = prefix_seq_len]
  /\ fork_kv_bytes' = [fork_kv_bytes EXCEPT ![n] = prefix_kv_serial_bytes]
  /\ IF prefix_kv_serial_bytes > 0 /\ ~pipeline.staged
     THEN ThrowUnderGuard(n, "fork")
     ELSE Goto(n, "fork", "materialize") /\ UNCHANGED llama_guard
  /\ UNCHANGED <<stateVars, live_ctx, kv, active_buffers, branch_buf>>

\* allocate_branch_cache and the copy into it, when there is KV to restore:
\* materialize_branch_cache from the staging buffer, or memcpy of a snapshot.
\* The allocation may throw, and so may the check of its capacity after it.
Materialize(n) ==
  /\ \/ /\ fork_kv_bytes[n] = 0
        /\ Goto(n, "materialize", "open")
        /\ UNCHANGED <<llama_guard, active_buffers, branch_buf>>
     \/ /\ fork_kv_bytes[n] > 0
        /\ "alloc" \in BranchFaults
        /\ ThrowUnderGuard(n, "materialize")
        /\ UNCHANGED <<active_buffers, branch_buf>>
     \/ /\ fork_kv_bytes[n] > 0
        /\ "capacity" \in BranchFaults
        /\ ThrowUnderGuard(n, "materialize")
        /\ allocate_cache(n)
        /\ UNCHANGED branch_buf
     \/ /\ fork_kv_bytes[n] > 0
        /\ Goto(n, "materialize", "open")
        /\ allocate_cache(n)
        /\ branch_buf' =
             [branch_buf EXCEPT ![n] =
                IF forks_at_watermark(n)
                THEN memcpy(prefix_snapshots[required_prefix_tokens(n)].data,
                            fork_kv_bytes[n])
                ELSE materialize_branch_cache(materialized_branch_buffer,
                                              fork_kv_bytes[n])]
        /\ UNCHANGED llama_guard
  /\ UNCHANGED <<stateVars, live_ctx, kv, fork_prefix_len, fork_kv_bytes>>

\* llama_init_from_model and llama_state_seq_set_data; the context is freed
\* when the restore comes up short.
OpenBranchContext(n) ==
  /\ \/ /\ "init" \in BranchFaults
        /\ ThrowUnderGuard(n, "open")
        /\ UNCHANGED <<live_ctx, kv>>
     \/ /\ "restore" \in BranchFaults
        /\ fork_kv_bytes[n] > 0
        /\ ThrowUnderGuard(n, "open")
        /\ llama_free(n)
     \/ /\ Goto(n, "open", "prepare")
        /\ llama_open(n, branch_buf[n])
        /\ UNCHANGED llama_guard
  /\ UNCHANGED <<stateVars, active_buffers, forkVars>>

\* bind_contiguous_cache, tokenize_text, the empty-prompt check and the
\* context budget.  The first two throw with the context still allocated,
\* the last two free it.
PrepareBatch(n) ==
  /\ \/ /\ \/ bind_throws(fork_kv_bytes[n] > 0 \/ pipeline.staged)
           \/ "tokenize" \in BranchFaults
        /\ ThrowUnderGuard(n, "prepare")
        /\ UNCHANGED <<live_ctx, kv>>
     \/ /\ pipeline.prompt[n] = 0 \/ ~fits_context_budget(n)
        /\ ThrowUnderGuard(n, "prepare")
        /\ llama_free(n)
     \/ /\ ~bind_throws(fork_kv_bytes[n] > 0 \/ pipeline.staged)
        /\ pipeline.prompt[n] > 0
        /\ fits_context_budget(n)
        /\ Goto(n, "prepare", "decode")
        /\ UNCHANGED engineVars
  /\ UNCHANGED <<stateVars, active_buffers, forkVars>>

\* One llama_decode of the prompt at fork_prefix_len onwards.
DecodeBranch(n) ==
  /\ \/ /\ "decode" \in BranchFaults
        /\ ThrowUnderGuard(n, "decode")
        /\ llama_free(n)
     \/ /\ Goto(n, "decode", "output")
        /\ llama_decode(n, fork_prefix_len[n], pipeline.prompt[n])
        /\ UNCHANGED llama_guard
  /\ UNCHANGED <<stateVars, active_buffers, forkVars>>

\* node_outputs["..."] = "branch_ok n_tok=.. prefix=.. watermark=.."
PublishOutput(n) ==
  /\ Goto(n, "output", "close")
  /\ publish_output(n, [n_tok |-> pipeline.prompt[n],
                        prefix |-> fork_prefix_len[n],
                        watermark |-> required_prefix_tokens(n)])
  /\ UNCHANGED <<engineVars, active_buffers, forkVars>>

\* Wrong: the context is not freed.
CloseBranchContext_kept(n) ==
  /\ Goto(n, "close", "signal")
  /\ UNCHANGED <<stateVars, engineVars, active_buffers, forkVars>>

CloseBranchContext(n) ==
  /\ Goto(n, "close", "signal")
  /\ llama_free(n)
  /\ UNCHANGED <<stateVars, llama_guard, active_buffers, forkVars>>

\* signal_milestone_consumed for W > 0, and the return that drops the guard.
SignalConsumed(n) ==
  /\ Goto(n, "signal", "returned")
  /\ signal_milestone_consumed(required_prefix_tokens(n))
  /\ UnlockGuard
  /\ UNCHANGED <<live_ctx, kv, active_buffers, forkVars>>

AnalyticalNodeExecute(n) ==
  \/ EnterBranch(n) \/ ForkSnapshot(n) \/ ForkCanonical(n)
  \/ Materialize(n) \/ OpenBranchContext(n) \/ PrepareBatch(n)
  \/ DecodeBranch(n) \/ PublishOutput(n)
  \/ CloseBranchContext(n) \/ SignalConsumed(n)

=============================================================================
