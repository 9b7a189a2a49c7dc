--------------------------- MODULE MCOrchestrator --------------------------
(***************************************************************************)
(* Small instances of Orchestrator: one prefiller p and branches a, b.     *)
(* The document has 3 tokens and a chunk 2, so the prefiller commits at 2  *)
(* and at 3, and a requirement can be                                      *)
(*   -1 the whole document     0 nothing       1 no chunk boundary         *)
(*    2 the first commit       3 the last, partial chunk                   *)
(*    4 beyond the document.                                               *)
(***************************************************************************)
EXTENDS OrchestratorClaims, OrchestratorRefinement, Drivers, Wiring, TLC

CONSTANTS p, a, b, ghost

MCNode == {p, a, b}
MCPrefillers == {p}
MCName == MCNode \cup {ghost}

\* required ra, rb and upstream names da, db of the branches; every prompt
\* has one token.
Config(ra, rb, da, db) ==
  [required |-> (p :> -1 @@ a :> ra @@ b :> rb),
   rev_adj |-> (p :> <<>> @@ a :> da @@ b :> db),
   total |-> 3,
   prompt |-> (p :> 0 @@ a :> 1 @@ b :> 1),
   staged |-> TRUE]

Requirements == {-1, 0, 1, 2, 3, 4}

DependsOn(w, n) == n \in {w[i] : i \in DOMAIN w}

\* Every acyclic wiring of a and b below the prefiller.
Wirings ==
  {w \in {<<>>, <<p>>, <<b>>, <<p, b>>} \X {<<>>, <<p>>, <<a>>, <<p, a>>} :
     ~(DependsOn(w[1], b) /\ DependsOn(w[2], a))}

WellWired ==
  {Config(ra, rb, w[1], w[2]) :
     ra \in Requirements, rb \in Requirements, w \in Wirings}

\* One mistake of the caller each: no staging buffer, an empty prompt, a
\* prompt or a document beyond the context, an empty document.
Mistaken ==
  LET audit == {Config(2, -1, <<p>>, <<p>>), Config(-1, 2, <<p>>, <<p>>)}
      extractor == {Config(-1, -1, <<>>, <<a>>), Config(-1, -1, <<b>>, <<>>)}
  IN
  {[c EXCEPT !.staged = FALSE] : c \in audit \cup extractor}
  \cup {[c EXCEPT !.total = t] : c \in audit, t \in {0, 5}}
  \cup {[c EXCEPT !.prompt = (p :> 0 @@ a :> t @@ b :> 4 - t)] :
          c \in audit, t \in {0, 4}}

\* A name nobody registered after the other upstreams of one branch.
Haunted ==
  {[Config(ra, rb, w[1], w[2]) EXCEPT !.rev_adj[n] = Append(@, ghost)] :
     ra \in {-1, 2}, rb \in {-1, 2}, w \in Wirings, n \in {a, b}}

\* Every wiring validate_acyclic accepts, and those the mistakes turn it into.
Acyclic == WellWired \cup Haunted
AllPipelines == Acyclic \cup Mistaken

\* The pipeline of examples/codebase_audit_pipeline.cpp: one branch at a
\* watermark, one on the whole document.
AuditPipelines == {Config(2, -1, <<p>>, <<p>>)}
\* A branch with no upstream next to the prefiller.
RootedPipelines == {Config(2, -1, <<p>>, <<>>)}

\* The pipelines that can come to an end.
SatisfiablePipelines == {g \in Acyclic : Satisfiable(g)}

Swap == Permutations({a, b})
=============================================================================
