---------------------------- MODULE ContextBudget --------------------------
(***************************************************************************)
(* include/swarmkv/context_budget.h: whether a prefix, the largest of the  *)
(* prompts that may follow it and a reserve fit in the context.  The drivers*)
(* ask before they start, for the whole document and all prompts; a branch *)
(* asks again for the prefix it forked and its own prompt.  The int32 sum  *)
(* cannot wrap: the counts are those of texts that were tokenized.         *)
(***************************************************************************)
EXTENDS Integers

CONSTANTS NCtx,     \* kSwarmkvDefaultPipelineCtx
          Headroom  \* generation_headroom

ASSUME BudgetAssumption == NCtx \in Nat /\ Headroom \in Nat \ {0}

\* Wrong: the smallest prompt decides.
validate_context_budget_smallest(prefix_tokens, prompts) ==
  \E n \in prompts : prefix_tokens + n + Headroom <= NCtx

\* Every prompt fits, and the prefix does when there is none.
validate_context_budget(prefix_tokens, prompts) ==
  \A n \in prompts \cup {0} : prefix_tokens + n + Headroom <= NCtx

=============================================================================
