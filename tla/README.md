# A TLA+ model of swarmkv

swarmkv runs a small graph of LLM nodes over one long document. One node
prefills the document in chunks and publishes frozen copies of the KV cache at
chosen token counts; the others fork such a copy and decode a prompt after it,
while the prefiller waits. This directory models the concurrency of
`Orchestrator::execute_pipeline`, of the two node classes and of the blackboard
they share, shows that together they implement a simple abstract pipeline,
models the benchmark program that composes the same nodes without the
orchestrator, checks all of it with TLC on small instances, and proves with
TLAPS, for every instance, the safety properties of the pipeline, the benchmark,
the pool and the graph, and that the pipeline implements the abstract one. Paths
below are those of the repository (`src/core/orchestrator.cpp`, ...).

## 1. Inventory

| Component | State | Operations | Hard part |
| --- | --- | --- | --- |
| `PipelineState` (`src/core/pipeline_state.cpp`) | staging buffer, length and bytes of the last canonical export, `watermark`, milestone set, snapshots, consumer counts, two condition variables, outputs | register, `commit_watermark`, waits, signals, `publish_output` | three mutexes, state published in two critical sections, wake-ups |
| `PrefillNode` (`src/nodes/prefill_node.cpp`) | its context, `prefilled` | `execute()`: chunk loop, export, pause, restore, completion | pause and reopen in the middle of a document; throws between guard scopes |
| `AnalyticalNode` (`src/nodes/analytical_node.cpp`) | `fork_prefix_len`, `fork_kv_bytes`, branch buffer, context | `execute()`: choose the fork, copy, restore, decode, publish, signal | reads shared exports without their mutex; a dozen throws |
| `Orchestrator` (`src/core/orchestrator.cpp`) | nodes, promises and futures, worker tasks | registration, launch, gates, settlement, join, `free_all` | mixed gates, failure paths, deadlock between the pause and the gates |
| Dependency graph (same file) | `adj`, `rev_adj` | `add_dependency`, `validate_acyclic` | a recursive search over a map it must not grow |
| `LlamaGuard` and llama.cpp (`include/swarmkv/llama_guard.h`) | one process-wide mutex, the contexts, their KV | open, decode, export, restore, free | not every engine call is under the mutex |
| `MemoryPool` (`src/memory/memory_pool.cpp`) | registry of live buffers, `pool_mutex` | allocate, `free_all`, destructor | throws half-way under a mutex; opens a context to learn a size |
| `KVHandoff`, context budget | none | copy, bind, sum of tokens | `0` bytes means the whole buffer; the same check asked at different times of different prefixes |
| Benchmark harness (`benchmarks/swarmkv_benchmark.cpp`) | a prefiller thread, the main thread | the same nodes without the orchestrator | exceptions past a joinable thread; a file that is not what was counted |
| Drivers (`main.cpp`, `examples/codebase_audit_pipeline.cpp`) | none | configuration, one budget check | none |
| Tests, defaults | none | none | none |

How they interact. `execute_pipeline` registers the milestone of every node,
launches one `std::async` worker per node and waits for all of them. A worker
waits for each upstream in turn: on `watermark_cv` when the upstream is the
prefiller and the node names a watermark W, on the upstream's promise
otherwise. Then it runs `execute()`. The prefiller commits after every chunk;
at a milestone it exports its KV into the staging buffer, copies it into the
snapshot of W, raises the watermark, frees its context and sleeps on
`prefill_resume_cv` until every branch registered at W has signalled. A branch
that throws is signalled by the worker's `catch`.

The benchmark has no orchestrator: it registers two milestones itself, runs
the prefiller on a `std::thread` and the two branches in turn on the main
thread, and joins at the end. There a branch that throws is caught by nobody
before the destructor of the joinable thread.

What makes each part correct:

* blackboard: snapshots never change; snapshot and watermark become visible
  together; no wake-up is lost; each branch is counted once;
* prefiller: each chunk continues exactly the tokens before it, also in a
  reopened context; it does not hold a context past a milestone while a branch
  of that milestone is alive;
* branch: it decodes at offset W over a context that holds positions
  0 .. W-1 and nothing else;
* orchestrator: a node runs only after all of its dependencies; the buffers
  are freed only after every worker; it ends whenever the wiring allows;
* graph: accepted exactly when acyclic;
* guard: held by exactly one worker, and never left locked;
* pool: every buffer of the backend is in the registry exactly once, and a call
  has its effect in one step however calls interleave;
* benchmark: exit status 0 means that the run it reports took place.

`PROJECT.json` lists the hazards, each at its line, with the properties for it.

## 2. Modules

| Module | Models |
| --- | --- |
| `LlamaEngine` | the mutex, which contexts are open, and the KV of each |
| `MemoryPool` | the registry of buffers, as the pipeline uses it |
| `MemoryPoolThreads` | the pool step by step under `pool_mutex`; implements `MemoryPool` |
| `KVHandoff`, `ContextBudget` | the copy with its byte count, the bind; whether prompts fit after a prefix |
| `PipelineState` | the blackboard, one operator per critical section |
| `ExecutionNode` | nodes, requirements, wiring, sizes, faults; the ways to leave a scope |
| `PrefillNode`, `AnalyticalNode` | the two `execute()` methods |
| `NodeProperties` | what holds of the nodes whoever runs them |
| `Orchestrator` | `execute_pipeline`, `Next`, fairness and the properties |
| `Drivers` | the budget check of `codebase_audit` |
| `SharedPrefix` | abstract: one growing prefix, branches that fork it in one step |
| `OrchestratorRefinement` | the refinement mapping from `Orchestrator` to `SharedPrefix` |
| `OrchestratorClaims` | what comments say and the code does not do |
| `Wiring` | which pipelines can end, read off their wiring |
| `MCOrchestrator` | the instances for TLC |
| `BenchmarkHarness`, `MCBenchmarkHarness` | the benchmark program, and its instances |
| `DependencyGraph` | `add_dependency` and `validate_acyclic`, checked by itself |
| `NodeProofs` | lemmas about the blackboard and about one step of a node, for both programs |
| `OrchestratorProofs` | types of the pipeline |
| `SafetyProofs` | the guard, the contexts, the join, the snapshots, the gates, the wake-ups |
| `ConsumerProofs` | the barrier, the overlap of contexts, the outputs, the budget, the wirings that never return |
| `RefinementProofs` | the KV of every context; `Orchestrator` implements `SharedPrefix` |
| `HarnessProofs` | the benchmark program |
| `MemoryPoolProofs`, `GraphProofs` | the pool and the dependency graph |

`Orchestrator` and `BenchmarkHarness` extend `NodeProperties`, which extends
`PrefillNode` and `AnalyticalNode`, which extend `ExecutionNode`, which extends
the state modules. A worker's program
counter `pc[n]` names the place in the worker lambda or in `execute()` it has
come to, and every action is the code between two places where another thread
can run: a lock or unlock of `LlamaGuard`, a critical section of the
blackboard, a wait, or a return.

What the data is. A KV cache is the set of positions it holds, so decoding `k`
tokens at offset `i` adds `i .. i+k-1`, a restore replaces the set by that of
the buffer, and reusing a wrong or stale buffer is visible. A byte count is
the number of positions serialised, 0 when the engine exports nothing.
Condition variables are sets of sleeping threads: a waiter that finds its
predicate false joins the set and leaves it only through a notification, so a
lost wake-up is a hang in the model as in the code. (A spurious wake-up adds
nothing: the predicate is evaluated again, and the thread goes back to sleep.)

Failures. `PrefillFaults` and `BranchFaults` name the calls that may fail:
`init`, `tokenize`, `decode`, `capacity` (a buffer too small), `export` (0 bytes), `restore`,
`alloc` (the pool). `SpawnFaults` lets `std::async` throw. `HarnessFaults` names
the calls of the benchmark's main thread, among them `write`: the text on disk
may be shorter than the one counted. Each failure takes
exactly the path of the code, freeing what the code frees and no more. Errors
that follow from the data are guards and not faults: no snapshot, no staging
buffer, an empty document or prompt, a prompt beyond the context budget.

Steps that are merged. A signal followed by an unlock, and the two statements
of the worker's `catch` (signal, then `set_exception`), are one action each. The
second half settles a promise or releases a mutex: it can only enable other threads,
so whatever they do between the halves they can also do after both.

The abstract pipeline. `SharedPrefix` has no threads, locks, buffers or
pauses: a prefix length that grows, the lengths frozen so far, and per branch
a phase, the positions it works on and its answer. The code takes six steps
under the guard to fork (look up the length, size a buffer, allocate, copy,
open, restore); `OrchestratorRefinement` maps all but the last to a stutter, so
the check says that what was read in the first is still right in the last. The
other clause that takes several threads to break is that the prefix never
grows past a frozen W while a branch at W is alive.

The benchmark. `main` is where the main thread is; while it waits for an agent
or runs it, it goes by the agent's name, so the node modules are used as they
are. `pipeline.total` is what the prefiller reads and `doc_n` what `main()`
counted. `terminated` is `std::terminate`: nothing moves after it.

The pool. In the pipeline an allocation is one step, because it is made
inside `LlamaGuard` or with no worker running. `MemoryPoolThreads` does not
rely on that: any thread may call, as the class comment promises.

Operators whose comment starts with `Wrong:` belong to no specification. Each
is a small mistake that the property named for it in `PROJECT.json` catches.

## 3. Runs

The instances have one prefiller `p`, branches `a` and `b`, a document of 3
tokens and chunks of 2. That is the smallest size with a full chunk, a partial
last chunk, a token count between two commits and one past the end, so a
requirement ranges over -1 (whole document), 0, 1, 2, 3 and 4. All wirings of
two branches are covered: no upstream, the prefiller, the other branch, both;
and one mistake of the caller at a time (`Mistaken`). Two branches are the
fewest that share a milestone, fork at different ones, wait on each other and
compete for the guard. `NCtx` is 5 and `Headroom` 1, so a one-token prompt fits
after 3 tokens and a longer one does not. `a` and `b` play the same part in
every set of pipelines, so the safety runs use symmetry; the liveness runs do not.

| Run | Shows |
| --- | --- |
| `safety` | all safety invariants, under every failure, caller mistakes included; no unsatisfiable pipeline ever returns |
| `prefix_kv` | every decode continues exactly the KV of its context, and the whole implements `SharedPrefix`. Without the `export` fault, see below |
| `termination` | every satisfiable pipeline ends, without deadlock, even when branches fail; never more than two contexts are open |
| `harness` | what the benchmark's exit status means, that its checks suffice, and when it can hang |
| `pool` | `MemoryPool` under three concurrent callers and failing engine calls implements atomic operations |
| `graph` | `validate_acyclic` accepts exactly the acyclic graphs, and ends |
| `claim_*` | six comments the code contradicts, section 5 |

`Satisfiable` (module `Wiring`) says which acyclic wirings can end: no
branch that waits on the prefiller needs more of the document than its own
milestone (or than there is), and nobody waits for a branch below a name that was
never registered. `termination` and `UnsatisfiableNeverReturns` together show
that the condition is exact on these instances, and the second half of that,
that no other wiring returns, is proved for all. `validate_acyclic` does not test it: a
branch registered at W that also depends on a branch waiting for the whole
document is a deadlock in an acyclic graph.

`graph`: three names and four edges contain self-loops, repeated edges, cycles
of every length up to three, a cycle entered from outside, and two components;
every insertion order is explored. The outer loop iterates over an
`unordered_map`, so it takes the keys in any order. The search is its stack of
activations, one edge per step; edges may be added again after a verdict.

`harness`: AgentA at 2 and AgentB at 2, 3 or 4 with chunks of 2 are the
benchmark's 512 and 3000 with chunks of 128, 3 being the unaligned one. Files
of 1 to 7 tokens end before, at and after each watermark, and at `NCtx` 7 the
context; the document counted is at least as long as the file. Prompts of 0 to 2
tokens make the two agents differ. `HarnessEndsOrStrands` holds with every
fault switched on: the program ends, in one of its four ways, or the main
thread sleeps because the prefiller threw or the file was short. Nothing else
hangs it, in particular not the pause at a milestone.

`pool`: three threads, so that two can compete while a third is inside a call, and
four buffers. The bound on buffers only stops further allocations.

Deadlock. `termination` checks it. `safety`, `prefix_kv`, `harness` and the
claims contain runs that really hang (unsatisfiable wirings, a prefiller
that failed, an unregistered upstream, a short file), so they say
`CHECK_DEADLOCK FALSE`; `graph` and `pool` do because they stop after `MaxEdges`
edges and after the destructor.

Fairness. `FairSpec` is weak fairness of the calling thread and of each
worker: the operating system runs every thread that can run. The mutex needs
no strong fairness, because each worker takes it finitely often: whoever
competes with a waiting thread runs out of scopes. Notifications need none:
`notify_all` empties the wait set in the action that stores the value. In
`DependencyGraph` the sequential search keeps running. `BenchmarkHarness`
assumes the same of its two threads.

## 4. Proofs

The theorems hold of `Spec` with any nodes, names, wirings, chunk sizes,
document lengths, threads, buffers and faults. The assumptions on the
constants are stated in the modules that declare them: at most one prefiller
(a second would share the staging buffer, and `commit_watermark` assumes one
producer), registered nodes have names, `ChunkTokens` is positive, the
prefiller names no milestone, the pipeline is well typed, `Headroom` is
positive (every caller leaves the default of 128). Three theorems need more, and
say so in their `ASSUME`: `PrefixCorrect` and `RefinementCorrect` that no export
is empty, `ContextsCorrect` that no branch leaves its context behind.

The nodes (`NodeProofs`). A step of `PrefillNode` or `AnalyticalNode` is the
same whoever runs it, so what it does is stated once, of `NodeTypeOK`, and cited
in the proofs about both programs: each method of the blackboard keeps its
types; a step keeps `NodeTypeOK` (`PrefillStepType`, `BranchStepType`), follows
the discipline of the guard, moves no other worker, and leaves alone what
`PrefillLeaves` and `BranchLeaves` list; the prefiller's steps are `Quiet`,
`Advances`, `Announces` or `Freezes`, by what they do to its progress; a branch
forks and answers once (`BranchForks`, `BranchAnswers`).

The pipeline (`OrchestratorProofs`, `SafetyProofs`):

* `TypeCorrect`. `TypeOK` is not inductive: a branch that copies the snapshot
  of W applies the map to W, so `ForkedFromSnapshot` (the snapshot exists from
  the lookup to the end) goes with it. It rests on snapshots never being
  dropped (`SnapshotsKept`).
* `GuardCorrect`. Every step of a worker is `Disciplined`: it takes the free
  mutex when it enters a guarded location, gives it up when it leaves one,
  and leaves it alone otherwise; no step moves another worker.
* `ContextsCorrect`. A branch has a context only between its open and its
  close (`ContextInv`), which lie inside the guard; so at most one branch has
  one, or is sizing a buffer, and the prefiller has the other. It assumes
  `NoBranchLeak`: with a null staging buffer or a failing tokenizer a branch
  throws and leaves its context behind (`claim_leak`), and the number of
  contexts has no bound.
* `JoinCorrect`. Workers that were not launched are idle, and settled workers
  do not move.
* `ProgressCorrect`. Relates what the prefiller has decoded to what it has
  published: the watermark is behind by at most the chunk in hand, and every
  snapshot key is at or below it. Hence a publication is always of a token
  count above every earlier one, which is why `SnapshotsCorrect` holds and
  why the watermark only grows.
* `GateCorrect`. The dependencies before `next_dep[n]` are satisfied, and stay
  so: watermarks grow, promises settle once.
* `WakeupCorrect`. A sleeper's predicate is false, and every store that can
  make it true empties the wait set in the same step.

KV, consumers, outcomes (`ConsumerProofs`; `PrefixCorrect` in `RefinementProofs`):

* `PrefixCorrect`. If no export is empty (`"export" \notin PrefillFaults`), a
  buffer holds exactly the positions its recorded length says: true of the
  snapshots, of the canonical export (between its two halves only the guard
  protects it, so the invariant is stated per location of the prefiller), of
  the branch's copy and at last of its context. It uses `GuardCorrect`.
* `CountCorrect`. `Unconsumed(w)` loses exactly the branch that signals, and
  registration adds exactly the node registered (`RegisteredInv`: before that no
  worker runs, after it every node is registered).
* `WaitCorrect`. `BarrierInv` is per location of the prefiller: past a
  milestone, or at one after the wait, all its branches have ended. The wait
  gives it, through `CountCorrect`: the count is 0, so `Unconsumed` is empty. It
  stays because ended branches do not start again and a snapshot that appears
  later is of a larger W.
* `OverlapCorrect`. `OverlapInv`: while the prefiller has a context and is not
  at the release, every branch of a published milestone has ended. It opens one
  before the first milestone, or where `BarrierInv` says that they have; and a
  branch that has forked has its snapshot (`ForkedFromSnapshot`) and has not
  ended. Contexts left behind by a throw are covered.
* `SnapshotFound`. `BoundaryInv`: what the prefiller decodes ends at
  multiples of the chunk or at the end of the document, and every milestone at
  or below the watermark that is such a boundary has been published.
* `OutputCorrect`. `OutputInv` follows a branch from its output to its
  settled promise: no throw lies after `PublishOutput`.
* `AdmissionCorrect`. `LengthInv`: no prefix a branch can fork is longer than
  the document.
* `UnsatisfiableCorrect`. If `execute_pipeline` returns and the prefiller's
  promise holds a value, then nothing in the wiring stood in the way. At that
  point every worker is settled and the watermark is the whole document
  (`SettleInv`), so each milestone has been passed. `ClearedInv` says what that
  tells: the prefiller goes on past a milestone only if its branches could
  end, that is, if no branch above them needs more of the document than that.
  When the pause is over they have all ended, hence started; the branches that
  have started are closed under waiting, and `Upstream`, the least closed set,
  is within them (`UpstreamStarted`); and a branch that started while the
  prefiller was still at work has had its watermark (`WaitsReached`).
  `Upstream` is an intersection and not a recursion, so that it can be
  reasoned about.

The refinement (`RefinementProofs`, `RefinementCorrect`), with no empty export
again. The invariants above are assumed of a step, and every
action is mapped. A commit, of a chunk or of a milestone, is `Grow`, which may
not pass a frozen W that a live branch still needs: `ProgressInv` says that
the watermark really grows and `BarrierInv` that no such branch is left. The
step that opens a branch's context is `Fork`, where `PrefixInv` shows that what
was looked up, copied and restored over six steps is still what the abstract
pipeline gives at once, and that the canonical export is the longest frozen
one. `JoinInv` shows that nothing moves after `Return`. Decode, publication,
failure and end go to their counterparts; everything else is a stutter.

The pool (`MemoryPoolProofs`). `PoolInv` joins `CallInv` (what a thread has in
hand at each location of its call: the fresh buffer, the sizing context) and
`RegistryInv` (the part of the registry not yet freed has no repetition, and
with the buffers in hand it is all the live ones). Only the thread inside the
call has anything in hand, by `MutexHeldInCall`, so the others frame away.
`PoolImplements` maps an allocation to the step that registers it and
`free_all` to its first step: from then on the registry counts as empty.

The graph (`GraphProofs`). `AppendOccurs` counts what `push_back` adds, whence
`MirrorCorrect`. `SearchInv` is the invariant of the depth-first search: the
edges an activation has taken lead to visited names, but for the one it is
inside; visited names have only visited successors; and no set of visited
names has in each member an edge back into the set. When a name returns, its
successors are visited and it is not, so it closes no cycle among them
(`VisitKeepsAcyclic`). At the end every name with an entry is visited:
accepted means acyclic. `VisitingIsOnStack` makes the stack a path, so an edge
to a name on it closes a cycle: rejected means cyclic. A call of
`add_dependency` discards the verdict.

The benchmark (`HarnessProofs`). It adds to the assumptions above that there
are one prefiller and two agents that name positive watermarks, AgentA's no
larger than AgentB's, as `main()` has them.

* `HarnessTypeCorrect`. `HarnessTypeOK`, again with `ForkedFromSnapshot`.
* `TeardownCorrect`. `LocationInv` relates the place of the main thread to those
  of the three nodes. The main thread comes to a destructor from before the
  start of the thread, or from the join.
* `BudgetCorrect`. `BudgetInv`: once a node has started, the checks were
  passed, and the file is no longer than the document they were made of.
  `AgentInv`: an agent forks exactly the length it asked for, because every
  snapshot has the length it is filed under. The prefiller's comparison is
  stricter by one token than the check, which the reserve covers.
* `ReturnCorrect`. At exit status 0 all three nodes have returned (`LocationInv`).
  `EndInv`: the prefiller then has published the whole file, freed its
  context, and the pool is empty. `AgentInv`: the agents have answered, and an
  agent keeps a context only if it threw. `CountInv`: a milestone's count is
  the number of its agents that have not returned, which also covers the case
  of both agents at one watermark, where the count starts at 2.

Only model-checked: `PipelineTerminates`, `HarnessEndsOrStrands` and
`ValidateTerminates`, which are liveness and out of the prover's reach, as is
`ENABLED`. So that a satisfiable pipeline ends is shown on the instances of
`termination`, and that no other one returns is a theorem.

## 5. What comments say and the code does not

1. `claim_wake`. `prefill_node.cpp:175` says a throw "wakes any waiting
   dependents". Dependents asleep on `watermark_cv` are not notified, and
   their predicate does not look at the failure.
2. `claim_full`. `analytical_node.cpp:129` says a full-prefill branch forks the
   "final canonical export published by PrefillNode". That is the last
   milestone's; nothing is exported at the end of the document unless it is
   one.
3. `claim_benchmark`. `swarmkv_benchmark.cpp:33` says AgentB starts at 3000
   tokens. A registered watermark gets its snapshot only at a chunk boundary, and
   3000 is no multiple of 128: AgentB wakes, finds no snapshot and throws, and
   the exception passes the joinable `prefill_thread`, so the benchmark ends
   in `std::terminate`. The same holds of `pipeline_state.cpp:21`, where a
   registered value "must receive a frozen KV snapshot".
4. `claim_serialized`. `llama_guard.h:8` says every `execute()` holds the mutex
   around engine calls. The prefiller's first open, its tokenization and its
   last free do not.
5. `claim_leak`. `analytical_node.cpp:208` says contexts are freed before
   throwing. `tokenize_text`, `bind_contiguous_cache` and a failed decode of
   the prefiller do not.
6. `claim_ignored`. `prefill_node.cpp:133` says a throw of the prefiller signals
   "orchestrator failure to dependents". `wait()` on the promise does not look
   at the outcome: a full-prefill branch runs with an empty prefix and
   answers.

Remarks. `task.wait()` discards what a worker threw, so `execute_pipeline`
returns, and `main.cpp:86` prints "Pipeline finished successfully.", also when
every node failed. No property covers this, since the code is written so; a
caller can look at the outputs, and `OutputMeansSuccess` says what a missing one
means. `prefill_node.cpp:213` says to free the prefiller's context and "then let
branches fork", but the context is freed in a guard scope after the one that
publishes the milestone (212 and 216), so a woken branch may take the guard in
between and open its own next to the prefiller's. `OverlapOnlyBeforeRelease` says
that this window is all there is, and `AtMostTwoContexts` bounds what is open in
it. An export of 0 bytes gives
a snapshot of length W that holds nothing, and a branch then decodes at offset
W over an empty context: `prefix_kv` and `PrefixCorrect` exclude it, and it is
listed as a hazard. `prefill_node.cpp:203` says "branches can fork while
prefill continues", but the pause is a barrier (`PrefillWaitsForConsumers`);
and the guard covers a branch's whole `execute()`, so two branches
never decode at once, although `defaults.h` sizes memory for two.

## 6. Not modelled

`wait_for_prefill_complete` (no caller), `timings_ms` and the reported
metrics (reporting only), `std::bad_alloc` of the host's small allocations, and the
content of tokens and logits. `decode_token_range` splits a chunk by
`n_batch` inside one guard scope; nobody can see the parts, so a chunk is one
decode. `add_node` is the choice of `Node`. The benchmark's baseline is one step,
and its metrics are left out. A buffer that is too small is a fault (`capacity`)
and not an amount of bytes; the 32-bit sum of `ContextBudget` adds the lengths of
tokenized texts and cannot wrap. A second `execute_pipeline` on the same
`PipelineState` would find the watermark and the counts of the first, but no
program of the repository makes one. The tests call one operation each and the
defaults are constants. `PROJECT.json` has a line for each part.

## 7. Plan

Done: the blackboard, the two nodes, the orchestrator, the graph, the pool, the
benchmark, the abstract pipeline, the runs of section 3 and the proofs of
section 4: every invariant and every action property that a run checks is a
theorem. What could come next:

1. An instance with three branches and few requirements.
2. The abstract pipeline for the benchmark: `HarnessProofs` shows its outcome,
   and `SharedPrefix` could be shown to be implemented by it too, with the
   refinement of `OrchestratorRefinement` restated of the nodes alone.
