--------------------------- MODULE NodeProperties --------------------------
(***************************************************************************)
(* What holds of the two kinds of nodes whoever runs them: the workers of  *)
(* Orchestrator, or the two threads of BenchmarkHarness.                   *)
(***************************************************************************)
EXTENDS PrefillNode, AnalyticalNode

PrefillPC == {"execute", "tokenize", "loop", "decode", "commit", "publish",
              "release", "await_consumers", "resume", "restore", "free"}
BranchPC == {"execute", "fork", "materialize", "open", "prepare", "decode",
             "output", "close", "signal"}
WorkerPC == {"idle", "gate", "returned", "thrown", "done", "abandoned"}

NodePC(n) == IF n \in Prefillers THEN PrefillPC ELSE BranchPC

WaitTypeOK ==
  /\ DOMAIN node_outputs \subseteq Branches
  /\ watermark_cv \subseteq Node
  /\ prefill_resume_cv \subseteq Prefillers

EngineTypeOK ==
  /\ llama_guard \in Node \cup {NoThread}
  /\ live_ctx \subseteq Node
  /\ kv \in [Node -> Cells]

PcTypeOK ==
  /\ pc \in [Node -> WorkerPC \cup PrefillPC \cup BranchPC]
  /\ \A n \in Node : pc[n] \in WorkerPC \cup NodePC(n)

ForkTypeOK ==
  /\ fork_prefix_len \in [Branches -> Nat]
  /\ fork_kv_bytes \in [Branches -> Nat]
  /\ branch_buf \in [Branches -> Cells]

\* The types of what the nodes use.
NodeTypeOK ==
  /\ pipeline \in Pipelines
  /\ StateTypeOK
  /\ WaitTypeOK
  /\ EngineTypeOK
  /\ active_buffers \subseteq Branches \cup {Staging}
  /\ PcTypeOK
  /\ prefilled \in [Prefillers -> Nat]
  /\ ForkTypeOK

\* The steps inside a LlamaGuard scope.
GuardedPC(n) ==
  IF n \in Prefillers THEN {"decode", "commit", "publish", "restore"}
  ELSE BranchPC \ {"execute"}

\* Branch n has found the prefix it forks and has not left its execute().
Forked(n) == pc[n] \in BranchPC \ {"execute", "fork"}

\* The mutex is held by exactly the worker inside a LlamaGuard scope: no
\* two workers are in such scopes at once, and no exception, return or wait
\* leaves a scope with the mutex locked.
GuardHeldInScope ==
  \A n \in Node : pc[n] \in GuardedPC(n) <=> llama_guard = n

\* A branch that decodes does so right after the positions its context
\* holds: the KV it restored is exactly 0 .. fork_prefix_len-1, and for a
\* watermark branch that length is the W it asked for, however far the
\* prefiller has got since (analytical_node.cpp, batch.pos).
BranchContinuesItsPrefix ==
  \A n \in Branches :
    pc[n] = "decode" =>
      /\ kv[n] = Positions(0, fork_prefix_len[n])
      /\ forks_at_watermark(n) => fork_prefix_len[n] = required_prefix_tokens(n)

\* A chunk is decoded right after the document tokens before it, also in the
\* context opened after a milestone, whose KV comes from the snapshot
\* (prefill_node.cpp, restore_prefix_snapshot).
PrefillContinuesDocument ==
  \A p \in Prefillers :
    pc[p] = "decode" => kv[p] = Positions(0, prefilled[p])

\* No thread sleeps on a condition variable whose predicate already holds.
NoLostWakeup ==
  /\ \A n \in watermark_cv : watermark < required_prefix_tokens(n)
  /\ \A p \in prefill_resume_cv : ~milestone_consumed(prefilled[p])

=============================================================================
