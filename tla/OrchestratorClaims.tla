------------------------- MODULE OrchestratorClaims ------------------------
(***************************************************************************)
(* What comments of the sources say of the pipeline and the code does not  *)
(* do.  Each claim is checked alone, by a run that finds it violated.      *)
(***************************************************************************)
EXTENDS Orchestrator

\* "Throw so orchestrator records the failure and wakes any waiting
\* dependents" (prefill_node.cpp:175): after the prefiller has thrown no
\* worker stays asleep on watermark_cv.
PrefillFailureWakesDependents ==
  \A p \in Prefillers : pc[p] = "thrown" ~> watermark_cv = {}

\* "use the final canonical export published by PrefillNode"
\* (analytical_node.cpp:129): a full-prefill branch below a prefiller that
\* succeeded decodes after the whole document.
FullPrefillForksWholeDocument ==
  \A p \in Prefillers, n \in Branches :
    /\ pc[n] = "decode"
    /\ ~forks_at_watermark(n)
    /\ p \in {dependencies(n)[i] : i \in DOMAIN dependencies(n)}
    /\ completion[p] = "value"
    => kv[n] = Positions(0, pipeline.total)

\* Whether the next step of node n calls llama_*.
InLlama(n) ==
  pc[n] \in IF n \in Prefillers
            THEN {"execute", "tokenize", "decode", "commit", "restore", "free"}
            ELSE {"open", "prepare", "decode", "close"}

\* "All node execute() bodies must hold this mutex around llama_init /
\* llama_decode / llama_free / state I/O" (llama_guard.h:8).
LlamaCallsSerialized ==
  \A m, n \in Node : InLlama(m) /\ InLlama(n) => m = n

\* "Free context before throwing to keep shutdown paths leak-free"
\* (analytical_node.cpp:208): a worker that has settled left no context.
NoContextLeak ==
  \A n \in Node : Settled(n) => n \notin live_ctx

\* "Throw to abort PrefillNode and signal orchestrator failure to
\* dependents" (prefill_node.cpp:133): a branch that waited for the promise
\* of a prefiller that failed does not go on to answer.
FailureReachesDependents ==
  \A p \in Prefillers, n \in Branches :
    /\ completion[p] = "exception"
    /\ ~forks_at_watermark(n)
    /\ p \in {dependencies(n)[i] : i \in DOMAIN dependencies(n)}
    => n \notin DOMAIN node_outputs

=============================================================================
