----------------------- MODULE OrchestratorRefinement -----------------------
(***************************************************************************)
(* The composed pipeline implements SharedPrefix.  A branch forks in the   *)
(* step that opens its context: what it read before that, lengths, bytes   *)
(* and copies, is still what the abstract pipeline would give it.          *)
(***************************************************************************)
EXTENDS Orchestrator

\* The phase of a branch whose program counter is at a location.
PhaseAt(at) ==
  CASE at \in {"prepare", "decode"} -> "forked"
    [] at = "output" -> "decoded"
    [] at \in {"close", "signal"} -> "answered"
    [] at \in {"returned", "done"} -> "ended"
    [] at = "thrown" -> "failed"
    [] OTHER -> "waiting"

Phase(n) == PhaseAt(pc[n])
Context(n) == IF Phase(n) \in {"forked", "decoded"} THEN kv[n] ELSE {}
Reported(n) ==
  IF n \in DOMAIN node_outputs THEN {node_outputs[n].prefix} ELSE {}
Over == main \in {"free", "returned", "threw"}

Promise == INSTANCE SharedPrefix WITH
  length <- watermark,
  frozen <- DOMAIN prefix_snapshots,
  phase <- [n \in Branches |-> Phase(n)],
  context <- [n \in Branches |-> Context(n)],
  answer <- [n \in Branches |-> Reported(n)],
  over <- Over

\* The pipeline, as a caller can observe it, behaves like the abstract one,
\* provided that no export is empty: every branch works on exactly the
\* prefix it asked for, in a context of its own, and nothing it does moves
\* after the return.
ImplementsSharedPrefix == Promise!Spec
=============================================================================
