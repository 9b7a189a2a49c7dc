--------------------------- MODULE ExecutionNode ---------------------------
(***************************************************************************)
(* What every node's execute() sees (include/swarmkv/execution_node.h,     *)
(* orchestrator_context.h): the blackboard, the engine, the pool, the      *)
(* pipeline the caller configured, and its own program counter.            *)
(*                                                                         *)
(* A pipeline is what the callers fix before execute_pipeline:             *)
(*   required   required_prefix_tokens of each node (-1: whole document)   *)
(*   rev_adj    the upstream names of each node, in insertion order        *)
(*   total      tokens of the shared document                              *)
(*   prompt     tokens of each branch prompt                               *)
(*   staged     whether the caller stored a prefix cache in PipelineState  *)
(* It is chosen in the initial state and never changes.                    *)
(***************************************************************************)
EXTENDS PipelineState, LlamaEngine, MemoryPool, KVHandoff, ContextBudget,
        Sequences

CONSTANTS
  Prefillers,      \* the nodes whose is_prefill_provider() is true
  Name,            \* every name add_dependency was given, registered or not
  Pipelines,       \* the pipelines considered
  ChunkTokens,     \* kSwarmkvPrefillChunkTokens
  PrefillFaults,   \* engine calls of a prefiller that may fail
  BranchFaults     \* engine calls of a branch that may fail

Branches == Node \ Prefillers
WaitForPrefillComplete == -1

Pipeline == [required : [Node -> Int], rev_adj : [Node -> Seq(Name)],
             total : Nat, prompt : [Node -> Nat], staged : BOOLEAN]

ASSUME NodesAssumption ==
  /\ Prefillers \subseteq Node
  /\ \A p, q \in Prefillers : p = q
  /\ Node \subseteq Name

ASSUME SizesAssumption == ChunkTokens \in Nat \ {0}

ASSUME PipelinesAssumption ==
  \A g \in Pipelines :
    /\ g \in Pipeline
    /\ \A p \in Prefillers : g.required[p] = WaitForPrefillComplete

VARIABLES pipeline, pc

required_prefix_tokens(n) == pipeline.required[n]
is_prefill_provider(n) == n \in Prefillers
dependencies(n) == pipeline.rev_adj[n]

Goto(n, from, to) ==
  /\ pc[n] = from
  /\ pc' = [pc EXCEPT ![n] = to]

\* Wrong: the exception leaves the mutex locked.
ThrowUnderGuard_locked(n, from) ==
  Goto(n, from, "thrown") /\ UNCHANGED llama_guard

\* An exception leaves a LlamaGuard scope: the lock_guard is destroyed.
ThrowUnderGuard(n, from) == Goto(n, from, "thrown") /\ UnlockGuard
\* An exception raised outside any LlamaGuard scope.
Throw(n, from) == Goto(n, from, "thrown") /\ UNCHANGED llama_guard

=============================================================================
