---------------------------- MODULE Orchestrator ---------------------------
(***************************************************************************)
(* Orchestrator::execute_pipeline (src/core/orchestrator.cpp): milestone   *)
(* registration, one std::async worker per node that waits for its         *)
(* dependencies and runs execute(), the join of every worker, and the      *)
(* release of the pool.  The dependency graph itself, its construction and *)
(* validate_acyclic are in module DependencyGraph.                         *)
(***************************************************************************)
EXTENDS NodeProperties

CONSTANT SpawnFaults  \* TRUE: std::async may throw std::system_error

ASSUME SpawnFaultsAssumption == SpawnFaults \in BOOLEAN

VARIABLES
  main,        \* where the thread inside execute_pipeline is
  registered,  \* nodes whose milestone is registered
  spawned,     \* nodes whose worker was launched
  next_dep,    \* index of the dependency each worker waits for
  completion   \* completion_promises: "pending", "value" or "exception"

mainVars == <<main, registered, spawned>>
workerVars == <<next_dep, completion>>
vars == <<stateVars, engineVars, active_buffers, pipeline, pc, prefilled,
          forkVars, mainVars, workerVars>>

Init ==
  /\ pipeline \in Pipelines
  /\ StateInit
  /\ EngineInit
  /\ active_buffers = IF pipeline.staged THEN {Staging} ELSE {}
  /\ pc = [n \in Node |-> "idle"]
  /\ prefilled = [p \in Prefillers |-> 0]
  /\ fork_prefix_len = [n \in Branches |-> 0]
  /\ fork_kv_bytes = [n \in Branches |-> 0]
  /\ branch_buf = [n \in Branches |-> {}]
  /\ main = "register"
  /\ registered = {}
  /\ spawned = {}
  /\ next_dep = [n \in Node |-> 1]
  /\ completion = [n \in Node |-> "pending"]

-----------------------------------------------------------------------------
(* The calling thread.                                                     *)

\* One iteration of the registration loop.
RegisterMilestone(n) ==
  /\ main = "register"
  /\ n \notin registered
  /\ IF required_prefix_tokens(n) > 0
     THEN /\ register_snapshot_milestone(required_prefix_tokens(n))
          /\ register_milestone_consumer(required_prefix_tokens(n))
     ELSE UNCHANGED milestoneVars
  /\ registered' = registered \cup {n}
  /\ UNCHANGED <<materialized_branch_buffer, exportVars, watermark,
                 prefill_complete, node_outputs, watermark_cv,
                 prefill_resume_cv, engineVars, active_buffers, pc, prefilled,
                 forkVars, main, spawned, workerVars>>

BeginSpawn ==
  /\ main = "register"
  /\ registered = Node
  /\ main' = "spawn"
  /\ UNCHANGED <<stateVars, engineVars, active_buffers, pc, prefilled,
                 forkVars, registered, spawned, workerVars>>

\* std::async(std::launch::async, ...) for the next node.
SpawnWorker(n) ==
  /\ main = "spawn"
  /\ n \notin spawned
  /\ spawned' = spawned \cup {n}
  /\ Goto(n, "idle", "gate")
  /\ UNCHANGED <<stateVars, engineVars, active_buffers, prefilled, forkVars,
                 main, registered, workerVars>>

\* std::async throws; unwinding destroys worker_tasks, and the destructor of
\* each std::async future waits for its worker.
SpawnFails ==
  /\ SpawnFaults
  /\ main = "spawn"
  /\ spawned # Node
  /\ main' = "unwind"
  /\ UNCHANGED <<stateVars, engineVars, active_buffers, pc, prefilled,
                 forkVars, registered, spawned, workerVars>>

BeginJoin ==
  /\ main = "spawn"
  /\ spawned = Node
  /\ main' = "join"
  /\ UNCHANGED <<stateVars, engineVars, active_buffers, pc, prefilled,
                 forkVars, registered, spawned, workerVars>>

\* A worker whose task is ready: it fulfilled its promise, or it threw
\* before the try block.
Settled(n) == pc[n] \in {"done", "abandoned"}

Leave ==
  /\ main \in {"join", "unwind"}
  /\ main' = IF main = "join" THEN "free" ELSE "threw"
  /\ UNCHANGED <<stateVars, engineVars, active_buffers, pc, prefilled,
                 forkVars, registered, spawned, workerVars>>

\* Wrong: waits for some worker only.
JoinWorkers_first == Leave /\ \E n \in spawned : Settled(n)

\* task.wait() on every worker.
JoinWorkers == Leave /\ \A n \in spawned : Settled(n)

\* memory_pool->free_all() and the return to the caller.
FreePool ==
  /\ main = "free"
  /\ free_all
  /\ main' = "returned"
  /\ UNCHANGED <<stateVars, engineVars, pc, prefilled, forkVars, registered,
                 spawned, workerVars>>

MainThread ==
  \/ \E n \in Node : RegisterMilestone(n) \/ SpawnWorker(n)
  \/ BeginSpawn \/ SpawnFails \/ BeginJoin \/ JoinWorkers \/ FreePool

-----------------------------------------------------------------------------
(* A worker, outside execute().                                            *)

AtDependency(n) == pc[n] = "gate" /\ next_dep[n] <= Len(dependencies(n))
CurrentDependency(n) == dependencies(n)[next_dep[n]]

\* A watermark gate: the upstream is the prefiller and the branch names W.
GatedByWatermark(n, dep) ==
  is_prefill_provider(dep) /\ required_prefix_tokens(n) >= 0

\* nodes.at(dep_name) throws std::out_of_range before the try block: the
\* promise stays pending and the milestone is never signalled.
UnknownDependency(n) ==
  /\ AtDependency(n)
  /\ CurrentDependency(n) \notin Node
  /\ Goto(n, "gate", "abandoned")
  /\ UNCHANGED <<stateVars, engineVars, active_buffers, prefilled, forkVars,
                 mainVars, workerVars>>

\* state->wait_for_watermark(req)
WaitWatermark(n) ==
  /\ AtDependency(n)
  /\ GatedByWatermark(n, CurrentDependency(n))
  /\ \/ /\ wait_for_watermark(n, required_prefix_tokens(n))
        /\ next_dep' = [next_dep EXCEPT ![n] = @ + 1]
     \/ /\ sleep_for_watermark(n, required_prefix_tokens(n))
        /\ UNCHANGED next_dep
  /\ UNCHANGED <<engineVars, active_buffers, pc, prefilled, forkVars,
                 mainVars, completion>>

PassCompletion(n) ==
  /\ AtDependency(n)
  /\ CurrentDependency(n) \in Node
  /\ ~GatedByWatermark(n, CurrentDependency(n))
  /\ next_dep' = [next_dep EXCEPT ![n] = @ + 1]
  /\ UNCHANGED <<stateVars, engineVars, active_buffers, pc, prefilled,
                 forkVars, mainVars, completion>>

\* Wrong: does not wait.
WaitCompletion_skipped(n) == PassCompletion(n)

\* completion_futures.at(dep_name).wait(): any outcome will do.
WaitCompletion(n) ==
  PassCompletion(n) /\ completion[CurrentDependency(n)] # "pending"

BeginExecute(n) ==
  /\ Goto(n, "gate", "execute")
  /\ next_dep[n] > Len(dependencies(n))
  /\ UNCHANGED <<stateVars, engineVars, active_buffers, prefilled, forkVars,
                 mainVars, workerVars>>

\* The worker's task becomes ready with its promise settled.
SettleAs(n, from, outcome) ==
  /\ Goto(n, from, "done")
  /\ completion' = [completion EXCEPT ![n] = outcome]
  /\ UNCHANGED <<engineVars, active_buffers, prefilled, forkVars, mainVars,
                 next_dep>>

\* completion_promises.at(name).set_value()
Fulfil(n) == SettleAs(n, "returned", "value") /\ UNCHANGED stateVars

\* Wrong: the milestone is not signalled for a node that failed.
CatchException_unsignalled(n) ==
  SettleAs(n, "thrown", "exception") /\ UNCHANGED stateVars

\* Wrong: a failure fulfils the promise.
CatchException_value(n) ==
  /\ SettleAs(n, "thrown", "value")
  /\ signal_milestone_consumed(required_prefix_tokens(n))

\* catch (...): signal the milestone on the node's behalf, then set_exception.
CatchException(n) ==
  /\ SettleAs(n, "thrown", "exception")
  /\ signal_milestone_consumed(required_prefix_tokens(n))

Gate(n) == UnknownDependency(n) \/ WaitWatermark(n) \/ WaitCompletion(n)
           \/ BeginExecute(n)
Settle(n) == Fulfil(n) \/ CatchException(n)

ExecuteStep(n) ==
  \/ /\ n \in Prefillers
     /\ PrefillNodeExecute(n)
     /\ UNCHANGED forkVars
  \/ /\ n \in Branches
     /\ AnalyticalNodeExecute(n)
     /\ UNCHANGED prefilled

Worker(n) ==
  \/ Gate(n)
  \/ ExecuteStep(n) /\ UNCHANGED <<mainVars, workerVars>>
  \/ Settle(n)

-----------------------------------------------------------------------------
\* execute_pipeline has returned or thrown; nothing is left to run.
Terminated ==
  /\ main \in {"returned", "threw"}
  /\ UNCHANGED vars

Next ==
  \/ /\ MainThread \/ \E n \in Node : Worker(n)
     /\ UNCHANGED pipeline
  \/ Terminated

Spec == Init /\ [][Next]_vars

\* The scheduler runs every thread that can run.  No thread takes the guard
\* more than finitely often, so weak fairness also covers the mutex.
Fairness ==
  /\ WF_vars(MainThread /\ UNCHANGED pipeline)
  /\ \A n \in Node : WF_vars(Worker(n) /\ UNCHANGED pipeline)

FairSpec == Spec /\ Fairness

-----------------------------------------------------------------------------
(* Properties.                                                             *)

MainTypeOK ==
  /\ main \in {"register", "spawn", "join", "unwind", "free", "returned",
               "threw"}
  /\ registered \subseteq Node
  /\ spawned \subseteq Node

WorkerTypeOK ==
  /\ next_dep \in [Node -> Nat \ {0}]
  /\ completion \in [Node -> {"pending", "value", "exception"}]

\* The types of every variable.
TypeOK ==
  /\ NodeTypeOK
  /\ MainTypeOK
  /\ WorkerTypeOK

\* A milestone snapshot never changes once it is published, although later
\* commits reuse the staging buffer it was taken from.
SnapshotsImmutable ==
  [][\A w \in DOMAIN prefix_snapshots :
       /\ w \in DOMAIN prefix_snapshots'
       /\ prefix_snapshots'[w] = prefix_snapshots[w]]_vars

\* Branches registered at w that have not given up their share of the count.
Unconsumed(w) ==
  {n \in registered : /\ w > 0
                      /\ required_prefix_tokens(n) = w
                      /\ pc[n] \notin {"returned", "done"}}

\* milestone_consumers_remaining[w] is the number of branches of w still to
\* signal: each signals once, whether it returned or threw.
ConsumersCounted ==
  \A w \in DOMAIN milestone_consumers_remaining :
    milestone_consumers_remaining[w] = Cardinality(Unconsumed(w))

\* The prefiller holds a context past a milestone only when every branch of
\* that milestone has finished: wait_for_milestone_consumers is a barrier.
PrefillWaitsForConsumers ==
  \A p \in Prefillers, n \in Branches :
    /\ required_prefix_tokens(n) \in DOMAIN prefix_snapshots
    /\ \/ prefilled[p] > required_prefix_tokens(n)
       \/ pc[p] \in {"resume", "restore", "loop"}
    => pc[n] \in {"returned", "done"}

\* The token counts at which the prefiller commits.
ChunkBoundary(w) == w % ChunkTokens = 0 \/ w = pipeline.total

\* A branch that wakes up because the watermark reached its W finds the
\* snapshot of W, provided that W is a chunk boundary.
WokenBranchFindsSnapshot ==
  \A n \in Branches :
    LET w == required_prefix_tokens(n) IN
    w > 0 /\ ChunkBoundary(w) /\ watermark >= w => has_prefix_snapshot(w)

\* A worker runs execute() only after each of its dependencies is satisfied:
\* the watermark it gates on, or the settled promise of the upstream node.
DependenciesRespected ==
  \A n \in Node :
    pc[n] \notin {"idle", "gate", "abandoned"} =>
      \A i \in DOMAIN dependencies(n) :
        LET dep == dependencies(n)[i] IN
        IF GatedByWatermark(n, dep)
        THEN watermark >= required_prefix_tokens(n)
        ELSE completion[dep] # "pending"

\* The pool is emptied, and execute_pipeline left, only when no worker can
\* still touch the buffers or the blackboard.
JoinBeforeTeardown ==
  main \in {"free", "returned", "threw"} =>
    \A n \in Node : pc[n] = "idle" \/ Settled(n)

\* A branch whose promise holds a value published its output, and one whose
\* promise holds an exception published nothing.
OutputMeansSuccess ==
  \A n \in Branches :
    completion[n] # "pending" =>
      (completion[n] = "value" <=> n \in DOMAIN node_outputs)

\* allocate_branch_cache opens a context of its own to learn a size.
Sizing(n) == pc[n] = "materialize" /\ fork_kv_bytes[n] > 0

\* No more than two llama_contexts exist at once, those used for sizing
\* included: one of the prefiller and one of the branch inside the guard, or
\* two of branches ("two concurrent AnalyticalNode llama_context instances",
\* defaults.h:9, is what the context length is chosen for).
AtMostTwoContexts ==
  Cardinality(live_ctx) + Cardinality({n \in Branches : Sizing(n)}) <= 2

\* A branch that forks a milestone is not in memory together with the
\* prefiller, "on 8 GiB GPUs" (prefill_node.cpp:213), except in the one window
\* the code leaves: the milestone is published, the guard given up, and the
\* prefiller has yet to take it again to free its context.
OverlapOnlyBeforeRelease ==
  \A p \in Prefillers, n \in Branches :
    /\ p \in live_ctx
    /\ Forked(n) /\ required_prefix_tokens(n) > 0
    => pc[p] = "release" /\ prefilled[p] = required_prefix_tokens(n)

\* execute_pipeline comes to an end.
PipelineTerminates == <>(main \in {"returned", "threw"})

=============================================================================
