------------------------------ MODULE Drivers ------------------------------
(***************************************************************************)
(* The check that examples/codebase_audit_pipeline.cpp makes before it     *)
(* builds its pipeline.  (main.cpp makes none.)                            *)
(***************************************************************************)
EXTENDS Orchestrator

\* The check of codebase_audit: the whole document and every prompt.
AdmittedByAudit ==
  validate_context_budget(pipeline.total,
                          {pipeline.prompt[n] : n \in Branches})

\* A pipeline that passed the check is never refused later for its size,
\* neither by the prefiller nor by a branch, whatever prefix it forked
\* (codebase_audit_pipeline.cpp:42 against prefill_node.cpp:185 and the
\* budget of each branch).
AdmittedNeverRefused ==
  AdmittedByAudit =>
    /\ \A p \in Prefillers : pc[p] = "tokenize" => pipeline.total < NCtx
    /\ \A n \in Branches : pc[n] = "prepare" => fits_context_budget(n)

=============================================================================
