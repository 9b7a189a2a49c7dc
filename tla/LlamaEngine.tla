---------------------------- MODULE LlamaEngine ----------------------------
(***************************************************************************)
(* What the workers use of llama.cpp: one llama_context per executing node *)
(* with the KV positions of the single sequence lane kSwarmkvPrefixSeqId,  *)
(* and the process-wide mutex of include/swarmkv/llama_guard.h.            *)
(* llama.cpp itself is external: whether a call succeeds is decided by the *)
(* node that makes it.                                                     *)
(***************************************************************************)
EXTENDS Integers

CONSTANTS Node,     \* the registered nodes, one worker thread each
          NoThread  \* the value of llama_guard when nobody holds the mutex

ASSUME NoThreadAssumption == NoThread \notin Node

VARIABLES llama_guard,  \* the worker inside a LlamaGuard scope
          live_ctx,     \* nodes whose llama_context has not been freed
          kv            \* positions held by each node's context

engineVars == <<llama_guard, live_ctx, kv>>

EngineInit ==
  /\ llama_guard = NoThread
  /\ live_ctx = {}
  /\ kv = [n \in Node |-> {}]

LockGuard(n) == llama_guard = NoThread /\ llama_guard' = n
UnlockGuard == llama_guard' = NoThread

\* The positions of count tokens decoded from pos on.
Positions(pos, count) == pos .. pos + count - 1

\* llama_init_from_model, then llama_state_seq_set_data of a blob.
llama_open(n, cells) ==
  /\ live_ctx' = live_ctx \cup {n}
  /\ kv' = [kv EXCEPT ![n] = cells]

\* Wrong: every position is one too low.
llama_decode_shifted(n, pos, count) ==
  /\ kv' = [kv EXCEPT ![n] = @ \cup Positions(pos - 1, count)]
  /\ UNCHANGED live_ctx

llama_decode(n, pos, count) ==
  /\ kv' = [kv EXCEPT ![n] = @ \cup Positions(pos, count)]
  /\ UNCHANGED live_ctx

llama_free(n) ==
  /\ live_ctx' = live_ctx \ {n}
  /\ kv' = [kv EXCEPT ![n] = {}]

=============================================================================
