------------------------------- MODULE Wiring ------------------------------
(***************************************************************************)
(* Which pipelines come to an end, read off what the caller fixed before   *)
(* execute_pipeline.  Orchestrator::validate_acyclic refuses cycles only,  *)
(* so a pipeline it accepts may still wait for itself: a branch can need   *)
(* more of the document than the prefiller decodes before it pauses for    *)
(* that very branch.                                                       *)
(***************************************************************************)
EXTENDS Orchestrator

\* The upstream nodes the worker of n waits for, in order, up to the first
\* name that nobody registered.
Awaited(g, n) ==
  {g.rev_adj[n][i] : i \in {k \in DOMAIN g.rev_adj[n] :
                              \A j \in 1..k : g.rev_adj[n][j] \in Node}}

\* The worker of n meets a name nobody registered, and never starts.
Abandons(g, n) ==
  \E i \in DOMAIN g.rev_adj[n] : g.rev_adj[n][i] \notin Node

\* The branches that end before branch n can start, and n: the least set
\* that holds n and, with a branch, the branches it waits for.
ClosedUpstream(g, S) ==
  \A m \in S : Awaited(g, m) \cap Branches \subseteq S

Upstream(g, n) ==
  {m \in Branches :
     \A S \in SUBSET Branches : n \in S /\ ClosedUpstream(g, S) => m \in S}

\* What a branch below the prefiller asks of the document: its watermark, or
\* total + 1 for the completion of the prefiller.
Asks(g, m) == IF g.required[m] >= 0 THEN g.required[m] ELSE g.total + 1

\* What must have been prefilled before branch n starts.
Waits(g, n) ==
  {Asks(g, m) :
     m \in {k \in Upstream(g, n) : Awaited(g, k) \cap Prefillers # {}}}

\* The prefiller pauses here for the branches that require w.
IsMilestone(g, w) ==
  0 < w /\ w <= g.total /\ (w % ChunkTokens = 0 \/ w = g.total)

\* Nothing keeps branch n from ending while the prefiller pauses at its
\* watermark: it starts, and needs no more of the document than that.
Unhindered(g, n) ==
  /\ ~Abandons(g, n)
  /\ \A w \in Waits(g, n) : w <= g.required[n]

\* No branch waits for more than there is; the prefiller pauses only for
\* branches that need nothing further; and nobody waits for a branch that
\* never starts.
Satisfiable(g) ==
  \A n \in Branches :
    /\ Awaited(g, n) \cap Prefillers # {} => g.required[n] <= g.total
    /\ IsMilestone(g, g.required[n]) => Unhindered(g, n)
    /\ Abandons(g, n) => \A m \in Node : n \notin Awaited(g, m)

\* A pipeline that cannot be satisfied never returns, whatever the schedule
\* and whichever branches fail, unless the prefiller fails or never starts:
\* when execute_pipeline returns and the prefiller's promise holds a value,
\* the pipeline was satisfiable (prefill_node.cpp:220, the pause at a
\* milestone, against the gate of orchestrator.cpp).
UnsatisfiableNeverReturns ==
  \A p \in Prefillers :
    main = "returned" /\ completion[p] = "value" => Satisfiable(pipeline)

=============================================================================
