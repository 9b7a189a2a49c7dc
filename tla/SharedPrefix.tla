---------------------------- MODULE SharedPrefix ----------------------------
(***************************************************************************)
(* What the pipeline promises, without threads, locks, buffers or pauses:  *)
(* one document prefix that only grows, some of whose lengths are frozen,  *)
(* and branches that each fork a frozen length in one step, decode their   *)
(* prompt right after it and report the length they forked.                *)
(*   - a branch at W forks exactly W tokens, a full-prefill branch the     *)
(*     longest frozen prefix;                                              *)
(*   - the prefix does not grow past a frozen W while a branch at W has    *)
(*     not ended, so forks never race with the growth;                     *)
(*   - only a branch that decoded answers, and it answers once;            *)
(*   - when the pipeline is over nothing moves any more.                   *)
(* Orchestrator implements it: see OrchestratorRefinement.                 *)
(***************************************************************************)
EXTENDS Integers, FiniteSets

CONSTANT Branches

VARIABLES
  pipeline,  \* what the caller configured (see ExecutionNode)
  length,    \* tokens of the prefix that are ready
  frozen,    \* lengths that can be forked
  phase,     \* "waiting", "forked", "decoded", "answered", "failed", "ended"
  context,   \* positions of the context a branch decodes in
  answer,    \* what the branches report, {} until they do
  over       \* the pipeline has returned to its caller

prefixVars == <<length, frozen>>
branchVars == <<phase, context, answer>>
promiseVars == <<pipeline, prefixVars, branchVars, over>>

Init ==
  /\ length = 0
  /\ frozen = {}
  /\ phase = [n \in Branches |-> "waiting"]
  /\ context = [n \in Branches |-> {}]
  /\ answer = [n \in Branches |-> {}]
  /\ over = FALSE

First(k) == 0 .. k - 1

\* The prefix grows to t tokens, which may be frozen.
Grow(t) ==
  /\ length < t /\ t <= pipeline.total
  /\ \A n \in Branches : pipeline.required[n] \in frozen => phase[n] = "ended"
  /\ length' = t
  /\ frozen' \in {frozen, frozen \cup {t}}
  /\ UNCHANGED branchVars

\* The lengths n may fork.
Forkable(n) ==
  IF pipeline.required[n] >= 0 THEN frozen \cap {pipeline.required[n]}
  ELSE IF frozen = {} THEN {0}
  ELSE {t \in frozen : \A u \in frozen : u <= t}

Advance(n, from, to) ==
  /\ phase[n] = from
  /\ phase' = [phase EXCEPT ![n] = to]
  /\ UNCHANGED prefixVars

Fork(n) ==
  /\ Advance(n, "waiting", "forked")
  /\ \E t \in Forkable(n) : context' = [context EXCEPT ![n] = First(t)]
  /\ UNCHANGED answer

Decode(n) ==
  /\ Advance(n, "forked", "decoded")
  /\ context' = [context EXCEPT ![n] =
                   First(Cardinality(@) + pipeline.prompt[n])]
  /\ UNCHANGED answer

Answer(n) ==
  /\ Advance(n, "decoded", "answered")
  /\ answer' = [answer EXCEPT ![n] =
                  {Cardinality(context[n]) - pipeline.prompt[n]}]
  /\ context' = [context EXCEPT ![n] = {}]

Fail(n) ==
  /\ Advance(n, "waiting", "failed") \/ Advance(n, "forked", "failed")
  /\ context' = [context EXCEPT ![n] = {}]
  /\ UNCHANGED answer

End(n) ==
  /\ Advance(n, "answered", "ended") \/ Advance(n, "failed", "ended")
  /\ UNCHANGED <<context, answer>>

Return ==
  /\ \A n \in Branches : phase[n] \in {"waiting", "ended"}
  /\ over' = TRUE
  /\ UNCHANGED <<prefixVars, branchVars>>

Next ==
  /\ ~over
  /\ \/ Return
     \/ /\ \/ \E t \in 1 .. pipeline.total : Grow(t)
           \/ \E n \in Branches :
                Fork(n) \/ Decode(n) \/ Answer(n) \/ Fail(n) \/ End(n)
        /\ UNCHANGED over
  /\ UNCHANGED pipeline

Spec == Init /\ [][Next]_promiseVars
=============================================================================
