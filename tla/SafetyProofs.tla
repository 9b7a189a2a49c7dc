---------------------------- MODULE SafetyProofs ---------------------------
(***************************************************************************)
(* What the threads of execute_pipeline may count on: the LlamaGuard mutex *)
(* is held by exactly the worker inside one of its scopes, workers are     *)
(* joined before the pool is emptied, no notification is lost, milestone   *)
(* snapshots are never overwritten and no worker starts before its         *)
(* dependencies.                                                           *)
(***************************************************************************)
EXTENDS OrchestratorProofs

-----------------------------------------------------------------------------
(* LlamaGuard: every lock has an unlock on every path, whatever fails.     *)

\* The orchestrator runs outside every scope and leaves the mutex alone.
LEMMA WorkerDiscipline ==
  ASSUME TypeOK, NEW n \in Node, Gate(n) \/ Settle(n)
  PROVE  Disciplined(n)
  <1>1. CASE UnknownDependency(n) \/ BeginExecute(n) \/ Settle(n)
    BY <1>1, NodeType, GotoDiscipline
    DEF UnknownDependency, BeginExecute, Settle, Fulfil, SettleAs,
        CatchException, engineVars, Disciplined, Inside, GuardedPC, BranchPC
  <1>2. CASE WaitWatermark(n) \/ WaitCompletion(n)
    BY <1>2 DEF WaitWatermark, WaitCompletion, PassCompletion, AtDependency,
                engineVars,
                Disciplined, Inside, GuardedPC, BranchPC
  <1> QED
    BY <1>1, <1>2 DEF Gate

LEMMA MainDiscipline ==
  ASSUME TypeOK, GuardHeldInScope, MainThread
  PROVE  GuardHeldInScope'
  <1>1. ASSUME NEW n \in Node, SpawnWorker(n)
        PROVE  Disciplined(n)
    BY <1>1, NodeType, GotoDiscipline
    DEF SpawnWorker, engineVars, Disciplined, Inside, GuardedPC, BranchPC
  <1>2. ASSUME UNCHANGED pc, UNCHANGED llama_guard
        PROVE  GuardHeldInScope'
    BY <1>2 DEF GuardHeldInScope, GuardedPC
  <1> QED
    BY <1>1, <1>2, NodeType, DisciplineKeepsGuard
    DEF MainThread, RegisterMilestone, BeginSpawn, SpawnFails, BeginJoin,
        JoinWorkers, Leave, FreePool, engineVars

LEMMA GuardInductive ==
  ASSUME TypeOK, GuardHeldInScope, [Next]_vars
  PROVE  GuardHeldInScope'
  <1>1. CASE UNCHANGED vars \/ Terminated
    BY <1>1 DEF vars, Terminated, engineVars, GuardHeldInScope, GuardedPC
  <1>2. ASSUME NEW n \in Node, Worker(n)
        PROVE  GuardHeldInScope'
    BY <1>2, WorkerDiscipline, NodeType, PrefillDiscipline, BranchDiscipline,
       DisciplineKeepsGuard
    DEF Worker, ExecuteStep
  <1> QED
    BY <1>1, <1>2, MainDiscipline DEF Next

\* LlamaGuard is a mutex around its scopes, and no exception, return or wait
\* leaves a scope with it locked.
THEOREM GuardCorrect == Spec => []GuardHeldInScope
  <1>1. Init => GuardHeldInScope
    BY NoThreadAssumption
    DEF Init, EngineInit, GuardHeldInScope, GuardedPC, BranchPC
  <1>2. TypeOK /\ GuardHeldInScope /\ [Next]_vars => GuardHeldInScope'
    BY GuardInductive
  <1> QED
    BY <1>1, <1>2, TypeCorrect, PTL DEF Spec

-----------------------------------------------------------------------------
(* The contexts that exist at once.                                        *)

\* A branch has a context only between its open and its close.
ContextInv ==
  \A n \in Branches :
    n \in live_ctx => pc[n] \in {"prepare", "decode", "output", "close"}

\* The faults under which a branch gives its context back on every path.
NoBranchLeak ==
  /\ "tokenize" \notin BranchFaults
  /\ \A g \in Pipelines : g.staged

LEMMA BranchContext ==
  ASSUME NoBranchLeak, TypeOK, ContextInv, NEW n \in Branches,
         AnalyticalNodeExecute(n)
  PROVE  /\ live_ctx' \ {n} = live_ctx \ {n}
         /\ n \in live_ctx' =>
              pc'[n] \in {"prepare", "decode", "output", "close"}
  <1>1. ASSUME NEW from, NEW to, Goto(n, from, to)
        PROVE  pc[n] = from /\ pc'[n] = to
    BY <1>1, NodeType, GotoDiscipline DEF Branches
  <1>2. ~bind_throws(fork_kv_bytes[n] > 0 \/ pipeline.staged)
    BY DEF NoBranchLeak, TypeOK, NodeTypeOK, bind_throws
  <1> QED
    BY <1>1, <1>2
    DEF AnalyticalNodeExecute, EnterBranch, ForkSnapshot, ForkCanonical,
        Materialize, OpenBranchContext, PrepareBatch, DecodeBranch,
        PublishOutput, CloseBranchContext, SignalConsumed, ThrowUnderGuard,
        llama_open, llama_free, llama_decode, engineVars, NoBranchLeak,
        ContextInv

LEMMA ContextInductive ==
  ASSUME NoBranchLeak, TypeOK, ContextInv, [Next]_vars
  PROVE  ContextInv'
  <1>1. CASE UNCHANGED vars \/ Terminated
    BY <1>1 DEF vars, Terminated, engineVars, ContextInv
  <1>2. CASE MainThread
    BY <1>2
    DEF MainThread, RegisterMilestone, SpawnWorker, BeginSpawn, SpawnFails,
        BeginJoin, JoinWorkers, Leave, FreePool, Goto, engineVars, TypeOK,
        NodeTypeOK, PcTypeOK, ContextInv, Branches
  <1>3. ASSUME NEW n \in Node, Gate(n) \/ Settle(n)
        PROVE  ContextInv'
    BY <1>3
    DEF Gate, Settle, UnknownDependency, WaitWatermark, WaitCompletion,
        PassCompletion, BeginExecute, Fulfil, SettleAs, CatchException, Goto,
        engineVars, TypeOK, NodeTypeOK, PcTypeOK, ContextInv, Branches
  <1>4. ASSUME NEW p \in Prefillers, PrefillNodeExecute(p)
        PROVE  ContextInv'
    <2>1. \A n \in Branches : n # p /\ pc'[n] = pc[n]
      BY <1>4, NodeType, PrefillDiscipline DEF Disciplined, Branches
    <2>2. live_ctx' \ {p} = live_ctx \ {p}
      BY <1>4, PrefillLeaves
    <2> QED
      BY <2>1, <2>2 DEF ContextInv
  <1>5. ASSUME NEW n \in Branches, AnalyticalNodeExecute(n)
        PROVE  ContextInv'
    <2>1. \A m \in Branches \ {n} : pc'[m] = pc[m]
      BY <1>5, NodeType, BranchDiscipline DEF Disciplined, Branches
    <2> QED
      BY <1>5, <2>1, BranchContext DEF ContextInv
  <1> QED
    BY <1>1, <1>2, <1>3, <1>4, <1>5 DEF Next, Worker, ExecuteStep

\* Who is inside the guard bounds how many contexts there are.
LEMMA ContextBound ==
  ASSUME TypeOK, GuardHeldInScope, ContextInv
  PROVE  AtMostTwoContexts
  <1> DEFINE branch == live_ctx \cap Branches
             sizing == {n \in Branches : Sizing(n)}
  <1>1. \A n \in branch \cup sizing : n = llama_guard
    BY DEF GuardHeldInScope, ContextInv, Sizing, GuardedPC, BranchPC, Branches
  <1>2. branch \cap sizing = {}
    BY DEF ContextInv, Sizing
  <1>3. PICK p : Prefillers \subseteq {p}
    BY NodesAssumption
  <1>4. live_ctx \subseteq {p} \cup branch
    BY <1>3 DEF TypeOK, NodeTypeOK, EngineTypeOK, Branches
  <1>5. ASSUME NEW x, NEW y, NEW S, S \subseteq {x, y}
        PROVE  IsFiniteSet(S) /\ Cardinality(S) \in Nat /\ Cardinality(S) <= 2
    <2>1. IsFiniteSet({x, y}) /\ Cardinality({x, y}) <= 2
      <3>1. IsFiniteSet({x}) /\ Cardinality({x}) = 1
        BY FS_Singleton
      <3>2. {x, y} = {x} \cup {y}
        OBVIOUS
      <3> QED
        BY <3>1, <3>2, FS_AddElement
    <2> QED
      BY <1>5, <2>1, FS_Subset, FS_CardinalityType
  <1>6. ASSUME NEW x, NEW S, S \subseteq {x}
        PROVE  Cardinality(S) \in Nat /\ Cardinality(S) <= 1
    <2>1. IsFiniteSet({x}) /\ Cardinality({x}) = 1
      BY FS_Singleton
    <2> QED
      BY <1>6, <2>1, FS_Subset, FS_CardinalityType
  <1>7. CASE sizing = {}
    <2>1. live_ctx \subseteq {p, llama_guard}
      BY <1>1, <1>4
    <2>2. Cardinality(live_ctx) \in Nat /\ Cardinality(live_ctx) <= 2
      BY <1>5, <2>1
    <2>3. Cardinality(sizing) = 0
      BY <1>7, FS_EmptySet
    <2> QED
      BY <2>2, <2>3 DEF AtMostTwoContexts
  <1>8. CASE sizing # {}
    <2>1. sizing \subseteq {llama_guard} /\ branch = {}
      BY <1>1, <1>2, <1>8
    <2>2. live_ctx \subseteq {p}
      BY <1>4, <2>1
    <2>3. /\ Cardinality(live_ctx) \in Nat /\ Cardinality(live_ctx) <= 1
          /\ Cardinality(sizing) \in Nat /\ Cardinality(sizing) <= 1
      BY <1>6, <2>1, <2>2
    <2> QED
      BY <2>3 DEF AtMostTwoContexts
  <1> QED
    BY <1>7, <1>8

\* At most two llama_contexts exist at once, those opened to learn a size
\* included, for any number of branches: the guard admits one branch at a
\* time, and only the prefiller keeps a context outside it.  The two faults
\* excluded are those after which a branch leaves its context behind.
THEOREM ContextsCorrect ==
  ASSUME NoBranchLeak
  PROVE  Spec => []AtMostTwoContexts
  <1>1. Init => ContextInv
    BY DEF Init, EngineInit, ContextInv
  <1>2. TypeOK /\ ContextInv /\ [Next]_vars => ContextInv'
    BY ContextInductive
  <1>3. TypeOK /\ GuardHeldInScope /\ ContextInv => AtMostTwoContexts
    BY ContextBound
  <1> QED
    BY <1>1, <1>2, <1>3, TypeCorrect, GuardCorrect, PTL DEF Spec

-----------------------------------------------------------------------------
(* The moves of a worker.                                                  *)

\* A worker's own step moves it alone, and neither starts nor resumes it.
LEMMA WorkerMoves ==
  ASSUME TypeOK, NEW n \in Node, Worker(n)
  PROVE  /\ pc[n] \notin {"idle", "done", "abandoned"}
         /\ pc'[n] # "idle"
         /\ \A m \in Node \ {n} : pc'[m] = pc[m]
  <1>1. ASSUME NEW from, NEW to, Goto(n, from, to)
        PROVE  /\ pc[n] = from /\ pc'[n] = to
               /\ \A m \in Node \ {n} : pc'[m] = pc[m]
    BY <1>1 DEF Goto, TypeOK, NodeTypeOK, PcTypeOK
  <1>2. CASE Gate(n) \/ Settle(n)
    BY <1>1, <1>2
    DEF Gate, Settle, UnknownDependency, WaitWatermark, WaitCompletion,
        PassCompletion,
        AtDependency, BeginExecute, Fulfil, SettleAs, CatchException
  <1>3. CASE n \in Prefillers /\ PrefillNodeExecute(n)
    BY <1>3, NodeType, ExecuteMoves, PrefillDiscipline
    DEF Disciplined, PrefillPC
  <1>4. CASE n \in Branches /\ AnalyticalNodeExecute(n)
    BY <1>4, NodeType, ExecuteMoves, BranchDiscipline
    DEF Disciplined, BranchPC
  <1> QED
    BY <1>2, <1>3, <1>4 DEF Worker, ExecuteStep

\* Only the calling thread launches workers and moves main.
LEMMA WorkerLeavesMain ==
  ASSUME NEW n \in Node, Worker(n)
  PROVE  UNCHANGED mainVars
  BY DEF Worker, Gate, Settle, UnknownDependency, WaitWatermark,
         WaitCompletion, PassCompletion, BeginExecute, Fulfil, SettleAs,
         CatchException

-----------------------------------------------------------------------------
(* The join.                                                               *)

\* A node that was not launched has not run, and past the join every worker
\* that was launched has settled.
JoinInv ==
  /\ \A n \in Node \ spawned : pc[n] = "idle"
  /\ main \in {"free", "returned", "threw"} =>
       \A n \in spawned : Settled(n)

LEMMA JoinInductive ==
  ASSUME TypeOK, JoinInv, [Next]_vars
  PROVE  JoinInv'
  <1>1. CASE UNCHANGED vars \/ Terminated
    BY <1>1 DEF vars, Terminated, mainVars, JoinInv, Settled
  <1>2. ASSUME NEW n \in Node, Worker(n)
        PROVE  JoinInv'
    <2>1. UNCHANGED <<main, spawned>>
      BY <1>2, WorkerLeavesMain DEF mainVars
    <2>2. n \in spawned
      BY <1>2, WorkerMoves DEF JoinInv
    <2> QED
      BY <1>2, <2>1, <2>2, WorkerMoves DEF JoinInv, Settled
  <1>3. ASSUME NEW n \in Node, SpawnWorker(n)
        PROVE  JoinInv'
    BY <1>3 DEF SpawnWorker, Goto, TypeOK, NodeTypeOK, PcTypeOK, JoinInv
  <1>4. CASE MainThread
    BY <1>3, <1>4
    DEF MainThread, RegisterMilestone, BeginSpawn, SpawnFails, BeginJoin,
        JoinWorkers, Leave, FreePool, JoinInv, Settled
  <1> QED
    BY <1>1, <1>2, <1>4 DEF Next

LEMMA JoinInvCorrect == Spec => []JoinInv
  <1>1. Init => JoinInv
    BY DEF Init, JoinInv
  <1>2. TypeOK /\ JoinInv /\ [Next]_vars => JoinInv'
    BY JoinInductive
  <1> QED
    BY <1>1, <1>2, TypeCorrect, PTL DEF Spec

\* task.wait() on every launched worker, and the destructors of the futures
\* when a launch throws, come before free_all and the return: whatever the
\* workers do, nobody uses a buffer or the blackboard after that.
THEOREM JoinCorrect == Spec => []JoinBeforeTeardown
  <1>1. TypeOK /\ JoinInv => JoinBeforeTeardown
    BY DEF JoinInv, JoinBeforeTeardown, TypeOK, NodeTypeOK, MainTypeOK
  <1> QED
    BY <1>1, TypeCorrect, JoinInvCorrect, PTL

-----------------------------------------------------------------------------
(* Progress of the prefiller.                                              *)

LEMMA OthersDoNotPublish ==
  ASSUME TypeOK,
         \/ MainThread
         \/ \E n \in Node : Gate(n) \/ Settle(n)
         \/ \E n \in Branches : AnalyticalNodeExecute(n)
  PROVE  Unpublished
  <1>1. CASE MainThread
    BY <1>1
    DEF MainThread, RegisterMilestone, SpawnWorker, BeginSpawn, SpawnFails,
        BeginJoin, JoinWorkers, Leave, FreePool, stateVars, exportVars,
        Unpublished
  <1>2. CASE \E n \in Node : Gate(n) \/ Settle(n)
    BY <1>2
    DEF Gate, Settle, UnknownDependency, WaitWatermark, WaitCompletion,
        PassCompletion,
        BeginExecute, Fulfil, SettleAs, CatchException, wait_for_watermark,
        sleep_for_watermark, signal_milestone_consumed, consume, stateVars,
        exportVars, Unpublished
  <1>3. CASE \E n \in Branches : AnalyticalNodeExecute(n)
    BY <1>3, NodeType, BranchLeaves
  <1> QED
    BY <1>1, <1>2, <1>3

LEMMA ProgressInductive ==
  ASSUME TypeOK, ProgressInv, [Next]_vars
  PROVE  ProgressInv'
  <1>0. UNCHANGED pipeline
    BY PipelineFixed
  <1>1. ASSUME Unpublished, UNCHANGED prefilled,
               \A p \in Prefillers :
                 \/ pc'[p] = pc[p]
                 \/ pc'[p] \notin {"decode", "commit", "publish"}
        PROVE  ProgressInv'
    BY <1>0, <1>1, ProgressFrame
  <1>2. CASE UNCHANGED vars \/ Terminated
    BY <1>1, <1>2
    DEF vars, Terminated, stateVars, exportVars, Unpublished
  <1>3. CASE MainThread
    <2>1. UNCHANGED prefilled
      BY <1>3 DEF MainThread, RegisterMilestone, SpawnWorker, BeginSpawn,
                  SpawnFails, BeginJoin, JoinWorkers, Leave, FreePool
    <2>2. \A p \in Prefillers : pc'[p] = pc[p] \/ pc'[p] = "gate"
      BY <1>3, NodesAssumption
      DEF MainThread, RegisterMilestone, SpawnWorker, BeginSpawn, SpawnFails,
          BeginJoin, JoinWorkers, Leave, FreePool, Goto, TypeOK, NodeTypeOK,
          PcTypeOK
    <2> QED
      BY <1>1, <1>3, <2>1, <2>2, OthersDoNotPublish
  <1>4. ASSUME NEW n \in Node, Worker(n), Gate(n) \/ Settle(n) \/ n \in Branches
        PROVE  ProgressInv'
    <2>1. Gate(n) \/ Settle(n) \/ (n \in Branches /\ AnalyticalNodeExecute(n))
      BY <1>4 DEF Worker, ExecuteStep, Branches
    <2>2. Unpublished
      BY <2>1, OthersDoNotPublish
    <2>3. UNCHANGED prefilled
      BY <1>4 DEF Worker, ExecuteStep, Branches, Gate, Settle,
                  UnknownDependency, WaitWatermark, WaitCompletion,
                  PassCompletion,
                  BeginExecute, Fulfil, SettleAs, CatchException
    <2>4. pc'[n] = pc[n] \/ pc'[n] \notin {"decode", "commit", "publish"}
          \/ n \in Branches
      BY <2>1
      DEF Gate, Settle, UnknownDependency, WaitWatermark, WaitCompletion,
          PassCompletion, BeginExecute, Fulfil, SettleAs, CatchException, Goto,
          TypeOK, NodeTypeOK, PcTypeOK
    <2> QED
      BY <1>1, <1>4, <2>2, <2>3, <2>4, WorkerMoves, NodesAssumption
      DEF Branches
  <1>5. ASSUME NEW p \in Prefillers, PrefillNodeExecute(p)
        PROVE  ProgressInv'
    BY <1>0, <1>5, NodeType, PrefillKeepsProgress
  <1> QED
    BY <1>2, <1>3, <1>4, <1>5 DEF Next, Worker, ExecuteStep

\* The prefiller publishes no more than it has decoded, and each count once.
THEOREM ProgressCorrect == Spec => []ProgressInv
  <1>1. Init => ProgressInv
    BY PipelinesAssumption, NodesAssumption
    DEF Init, StateInit, EmptyMap, ProgressInv, Lag, Pipeline
  <1>2. TypeOK /\ ProgressInv /\ [Next]_vars => ProgressInv'
    BY ProgressInductive
  <1> QED
    BY <1>1, <1>2, TypeCorrect, PTL DEF Spec

\* What a step does to the watermark and to the snapshots already published.
LEMMA Published ==
  ASSUME TypeOK, ProgressInv, [Next]_vars
  PROVE  /\ watermark \in Nat /\ watermark' \in Nat /\ watermark <= watermark'
         /\ \A w \in DOMAIN prefix_snapshots :
              /\ w \in DOMAIN prefix_snapshots'
              /\ prefix_snapshots'[w] = prefix_snapshots[w]
  <1>0. watermark \in Nat /\ DOMAIN prefix_snapshots \subseteq Nat
    BY DEF TypeOK, NodeTypeOK, StateTypeOK
  <1>1. CASE Unpublished
    BY <1>0, <1>1 DEF Unpublished
  <1>2. CASE ~Unpublished
    <2>1. ~(UNCHANGED vars \/ Terminated)
      BY <1>2 DEF vars, Terminated, stateVars, exportVars, Unpublished
    <2>2. PICK p \in Prefillers : PrefillNodeExecute(p)
      BY <1>2, <2>1, OthersDoNotPublish DEF Next, Worker, ExecuteStep
    <2>3. Announces(p) \/ Freezes(p)
      BY <1>2, <2>2, NodeType, PrefillProgress DEF Quiet, Advances
    <2>4. prefilled[p] \in Nat /\ watermark' = prefilled[p]
      BY <2>3 DEF Announces, Freezes, TypeOK, NodeTypeOK
    <2>5. watermark <= prefilled[p]
      BY DEF ProgressInv, Lag
    <2>6. CASE Announces(p)
      BY <1>0, <2>4, <2>5, <2>6 DEF Announces
    <2>7. CASE Freezes(p)
      <3>1. prefilled[p] \notin DOMAIN prefix_snapshots
        BY <1>0, <2>4, <2>7 DEF Freezes, ProgressInv, Lag
      <3>2. \A w \in DOMAIN prefix_snapshots :
              /\ w \in DOMAIN prefix_snapshots'
              /\ prefix_snapshots'[w] = prefix_snapshots[w]
        BY <2>7, <3>1 DEF Freezes, Put
      <3> QED
        BY <1>0, <2>4, <2>5, <3>2
    <2> QED
      BY <2>3, <2>6, <2>7
  <1> QED
    BY <1>1, <1>2

\* A milestone snapshot never changes once it is published: the prefiller
\* commits strictly growing token counts, so no commit finds its key taken.
THEOREM SnapshotsCorrect == Spec => SnapshotsImmutable
  <1>1. TypeOK /\ ProgressInv /\ [Next]_vars =>
          [\A w \in DOMAIN prefix_snapshots :
             /\ w \in DOMAIN prefix_snapshots'
             /\ prefix_snapshots'[w] = prefix_snapshots[w]]_vars
    BY Published
  <1> QED
    BY <1>1, TypeCorrect, ProgressCorrect, PTL DEF Spec, SnapshotsImmutable

-----------------------------------------------------------------------------
(* The gate.                                                               *)

\* What a worker waits for in front of its i-th dependency.
SatisfiedDep(n, i) ==
  LET dep == dependencies(n)[i] IN
  IF GatedByWatermark(n, dep)
  THEN watermark >= required_prefix_tokens(n)
  ELSE dep \in Node /\ completion[dep] # "pending"

\* The dependencies a worker has gone past are satisfied, and a worker in or
\* past execute() has gone past all of them.
GateInv ==
  \A n \in Node :
    /\ \A i \in DOMAIN dependencies(n) : i < next_dep[n] => SatisfiedDep(n, i)
    /\ pc[n] \notin {"idle", "gate", "abandoned"} =>
         next_dep[n] > Len(dependencies(n))

\* A promise that is settled stays settled, and waiting moves one step on.
LEMMA GateMoves ==
  ASSUME TypeOK, ProgressInv, [Next]_vars
  PROVE  /\ \A n \in Node :
              completion[n] # "pending" => completion'[n] # "pending"
         /\ \A n \in Node :
              \/ next_dep'[n] = next_dep[n]
              \/ /\ next_dep'[n] = next_dep[n] + 1
                 /\ AtDependency(n) /\ SatisfiedDep(n, next_dep[n])
  <1>1. CASE UNCHANGED workerVars
    BY <1>1 DEF workerVars
  <1>2. CASE ~UNCHANGED workerVars
    <2>1. PICK m \in Node : Gate(m) \/ Settle(m)
      BY <1>2
      DEF Next, vars, Terminated, MainThread, RegisterMilestone, SpawnWorker,
          BeginSpawn, SpawnFails, BeginJoin, JoinWorkers, Leave, FreePool,
          Worker
    <2>2. CASE Settle(m)
      BY <2>2
      DEF Settle, Fulfil, SettleAs, CatchException, TypeOK, NodeTypeOK,
          WorkerTypeOK
    <2>3. CASE WaitWatermark(m)
      <3>1. /\ next_dep' = [next_dep EXCEPT ![m] = @ + 1]
            /\ watermark >= required_prefix_tokens(m)
            /\ UNCHANGED completion
        BY <1>2, <2>3 DEF WaitWatermark, workerVars, wait_for_watermark
      <3> QED
        BY <2>3, <3>1
        DEF WaitWatermark, SatisfiedDep, CurrentDependency, TypeOK, NodeTypeOK,
            WorkerTypeOK
    <2>4. CASE WaitCompletion(m)
      BY <2>4
      DEF WaitCompletion, PassCompletion, SatisfiedDep, CurrentDependency,
          TypeOK, NodeTypeOK, WorkerTypeOK
    <2> QED
      BY <1>2, <2>1, <2>2, <2>3, <2>4
      DEF Gate, UnknownDependency, BeginExecute, workerVars
  <1> QED
    BY <1>1, <1>2

\* A worker enters execute() only past the end of its dependencies.
LEMMA GateEntry ==
  ASSUME TypeOK, Next, NEW n \in Node, pc'[n] # pc[n],
         pc[n] \in {"idle", "gate", "abandoned"}
  PROVE  \/ pc'[n] \in {"gate", "abandoned"}
         \/ next_dep[n] > Len(dependencies(n))
  <1>1. CASE pc'[n] = "gate"
    BY <1>1
  <1>2. CASE pc'[n] # "gate"
    <2>1. Worker(n)
      BY <1>2, OwnStep
    <2>2. ASSUME NEW from, NEW to, Goto(n, from, to)
          PROVE  pc[n] = from
      BY <2>2 DEF Goto
    <2>3. ~PrefillNodeExecute(n)
      BY <2>2
      DEF PrefillNodeExecute, PrefillInit, PrefillTokenize, BeginChunk,
          DecodeChunk, CommitChunk, ExportMilestone, PublishMilestone,
          ReleaseContext, AwaitConsumers, ResumeLock, RestorePrefix,
          CompletePrefill, FreePrefill, Throw, ThrowUnderGuard
    <2>4. ~AnalyticalNodeExecute(n)
      BY <2>2
      DEF AnalyticalNodeExecute, EnterBranch, ForkSnapshot, ForkCanonical,
          Materialize, OpenBranchContext, PrepareBatch, DecodeBranch,
          PublishOutput, CloseBranchContext, SignalConsumed, ThrowUnderGuard
    <2>5. Gate(n)
      BY <2>1, <2>2, <2>3, <2>4
      DEF Worker, ExecuteStep, Settle, Fulfil, SettleAs, CatchException
    <2> QED
      BY <2>5
      DEF Gate, UnknownDependency, WaitWatermark, WaitCompletion,
          PassCompletion, BeginExecute, Goto, TypeOK, NodeTypeOK, PcTypeOK
  <1> QED
    BY <1>1, <1>2

LEMMA GateInductive ==
  ASSUME TypeOK, ProgressInv, GateInv, [Next]_vars
  PROVE  GateInv'
  <1> SUFFICES ASSUME NEW n \in Node
               PROVE  /\ \A i \in DOMAIN dependencies(n)' :
                           i < next_dep'[n] => SatisfiedDep(n, i)'
                      /\ pc'[n] \notin {"idle", "gate", "abandoned"} =>
                           next_dep'[n] > Len(dependencies(n))'
    BY DEF GateInv
  <1>1. /\ dependencies(n)' = dependencies(n)
        /\ required_prefix_tokens(n)' = required_prefix_tokens(n)
    BY PipelineFixed DEF dependencies, required_prefix_tokens
  <1>2. /\ dependencies(n) \in Seq(Name)
        /\ required_prefix_tokens(n) \in Int
        /\ next_dep[n] \in Nat
    BY PipelineType DEF TypeOK, NodeTypeOK, WorkerTypeOK
  <1>3. ASSUME NEW i \in DOMAIN dependencies(n), SatisfiedDep(n, i)
        PROVE  SatisfiedDep(n, i)'
    BY <1>1, <1>2, <1>3, Published, GateMoves
    DEF SatisfiedDep, GatedByWatermark, is_prefill_provider
  <1>4. \/ next_dep'[n] = next_dep[n]
        \/ /\ next_dep'[n] = next_dep[n] + 1
           /\ AtDependency(n) /\ SatisfiedDep(n, next_dep[n])
    BY GateMoves
  <1>5. ASSUME NEW i \in DOMAIN dependencies(n)', i < next_dep'[n]
        PROVE  SatisfiedDep(n, i)'
    <2>1. i \in DOMAIN dependencies(n) /\ i \in Nat
      BY <1>1, <1>2, <1>5
    <2>2. SatisfiedDep(n, i)
      BY <1>2, <1>4, <1>5, <2>1 DEF GateInv
    <2> QED
      BY <1>3, <2>1, <2>2
  <1>6. ASSUME pc'[n] \notin {"idle", "gate", "abandoned"}
        PROVE  next_dep'[n] > Len(dependencies(n))
    <2>1. Len(dependencies(n)) \in Nat
      BY <1>2
    <2>2. CASE pc'[n] = pc[n]
      BY <1>2, <1>4, <1>6, <2>1, <2>2 DEF GateInv, AtDependency
    <2>3. CASE pc'[n] # pc[n]
      <3>1. Next
        BY <2>3 DEF vars
      <3> QED
        BY <1>2, <1>4, <1>6, <2>1, <2>3, <3>1, GateEntry DEF GateInv
    <2> QED
      BY <2>2, <2>3
  <1> QED
    BY <1>1, <1>5, <1>6

LEMMA GateInvCorrect == Spec => []GateInv
  <1>1. Init => GateInv
    <2> SUFFICES ASSUME Init PROVE GateInv
      OBVIOUS
    <2>1. ASSUME NEW n \in Node
          PROVE  \A i \in DOMAIN dependencies(n) : ~(i < 1)
      <3>1. dependencies(n) \in Seq(Name)
        BY InitType, NodeType, PipelineType
      <3> QED
        BY <3>1
    <2> QED
      BY <2>1 DEF Init, GateInv
  <1>2. TypeOK /\ ProgressInv /\ GateInv /\ [Next]_vars => GateInv'
    BY GateInductive
  <1> QED
    BY <1>1, <1>2, TypeCorrect, ProgressCorrect, PTL DEF Spec

\* No worker runs execute() before its dependencies: each is satisfied when
\* the worker goes past it and stays so, since the watermark only grows and
\* a promise is settled once.
THEOREM GateCorrect == Spec => []DependenciesRespected
  <1>1. TypeOK /\ GateInv => DependenciesRespected
    <2> SUFFICES ASSUME TypeOK, GateInv, NEW n \in Node,
                        pc[n] \notin {"idle", "gate", "abandoned"},
                        NEW i \in DOMAIN dependencies(n)
                 PROVE  SatisfiedDep(n, i)
      BY DEF DependenciesRespected, SatisfiedDep
    <2>1. dependencies(n) \in Seq(Name) /\ next_dep[n] \in Nat
      BY PipelineType DEF TypeOK, NodeTypeOK, WorkerTypeOK
    <2> QED
      BY <2>1 DEF GateInv
  <1> QED
    BY <1>1, TypeCorrect, GateInvCorrect, PTL

-----------------------------------------------------------------------------
(* The condition variables.                                                *)

\* A thread asleep has not seen its predicate hold, and a prefiller asleep
\* is where it fell asleep.
WakeInv ==
  /\ NoLostWakeup
  /\ \A p \in prefill_resume_cv : pc[p] = "await_consumers"

\* A step leaves the sleepers of both condition variables with predicates
\* that do not hold, whatever it does to what the predicates read.
LEMMA WakeFrame ==
  ASSUME TypeOK, WakeInv,
         UNCHANGED <<pipeline, watermark_cv, prefill_resume_cv, watermark,
                     milestone_consumers_remaining>>,
         \A p \in prefill_resume_cv :
           pc'[p] = pc[p] /\ prefilled'[p] = prefilled[p]
  PROVE  WakeInv'
  BY DEF WakeInv, NoLostWakeup, milestone_consumed, required_prefix_tokens

LEMMA MainWakes ==
  ASSUME TypeOK, WakeInv, MainThread, UNCHANGED pipeline
  PROVE  WakeInv'
  <1>1. ASSUME NEW n \in Node, RegisterMilestone(n)
        PROVE  WakeInv'
    <2>1. UNCHANGED <<watermark_cv, prefill_resume_cv, watermark, pc,
    prefilled>>
      BY <1>1 DEF RegisterMilestone
    <2>2. \A p \in prefill_resume_cv : p \in Prefillers /\ prefilled[p] \in Nat
      BY DEF TypeOK, NodeTypeOK, WaitTypeOK
    <2>3. ASSUME NEW w \in Nat, ~milestone_consumed(w)
          PROVE  ~milestone_consumed(w)'
      BY <1>1, <2>3
      DEF RegisterMilestone, register_milestone_consumer, milestoneVars, Put,
          milestone_consumed, TypeOK, NodeTypeOK, StateTypeOK
    <2> QED
      BY <2>1, <2>2, <2>3
      DEF WakeInv, NoLostWakeup, required_prefix_tokens, milestone_consumed
  <1>2. ASSUME NEW n \in Node, SpawnWorker(n)
        PROVE  WakeInv'
    BY <1>2, WakeFrame
    DEF SpawnWorker, Goto, stateVars, milestoneVars, WakeInv, TypeOK,
        NodeTypeOK, PcTypeOK
  <1>3. CASE BeginSpawn \/ SpawnFails \/ BeginJoin \/ JoinWorkers \/ FreePool
    BY <1>3, WakeFrame
    DEF BeginSpawn, SpawnFails, BeginJoin, JoinWorkers, Leave, FreePool,
        stateVars,
        milestoneVars
  <1> QED
    BY <1>1, <1>2, <1>3 DEF MainThread

LEMMA SignalWakes ==
  ASSUME TypeOK, WakeInv, NEW w, signal_milestone_consumed(w),
         UNCHANGED <<pipeline, prefilled>>,
         \A p \in prefill_resume_cv : pc'[p] = pc[p]
  PROVE  WakeInv'
  <1>1. UNCHANGED <<watermark, watermark_cv>>
    BY DEF signal_milestone_consumed, consume
  <1>2. prefill_resume_cv' \subseteq prefill_resume_cv
    BY DEF signal_milestone_consumed, consume
  <1>3. ASSUME NEW p \in prefill_resume_cv'
        PROVE  ~milestone_consumed(prefilled[p])'
    <2>1. ~milestone_consumed(prefilled[p])
      BY <1>2, <1>3 DEF WakeInv, NoLostWakeup
    <2> QED
      BY <1>3, <2>1
      DEF signal_milestone_consumed, consume, milestone_consumed, TypeOK,
          NodeTypeOK, StateTypeOK
  <1> QED
    BY <1>1, <1>2, <1>3
    DEF WakeInv, NoLostWakeup, required_prefix_tokens, milestone_consumed

\* The steps of a worker, by what they do to what the sleepers wait for.
LEMMA WorkerWakes ==
  ASSUME TypeOK, WakeInv, NEW n \in Node, Worker(n), UNCHANGED pipeline
  PROVE  WakeInv'
  <1>1. \A m \in Node \ {n} : pc'[m] = pc[m]
    BY WorkerMoves
  <1>2. prefill_resume_cv \subseteq Prefillers /\ Prefillers \subseteq Node
    BY NodesAssumption DEF TypeOK, NodeTypeOK, WaitTypeOK
  <1>3. ASSUME pc[n] # "await_consumers"
        PROVE  \A p \in prefill_resume_cv : pc'[p] = pc[p]
    BY <1>1, <1>2, <1>3 DEF WakeInv
  <1>g. ASSUME NEW from, NEW to, Goto(n, from, to)
        PROVE  pc[n] = from /\ pc'[n] = to
    BY <1>g DEF Goto, TypeOK, NodeTypeOK, PcTypeOK
  <1>4. CASE Gate(n) \/ Settle(n)
    <2>1. pc[n] # "await_consumers" /\ UNCHANGED prefilled
      BY <1>4, <1>g
      DEF Gate, Settle, UnknownDependency, WaitWatermark, WaitCompletion,
          PassCompletion,
          AtDependency, BeginExecute, Fulfil, SettleAs, CatchException
    <2>2. CASE UNCHANGED stateVars
      BY <1>3, <2>1, <2>2, WakeFrame DEF stateVars, milestoneVars
    <2>3. CASE sleep_for_watermark(n, required_prefix_tokens(n))
      BY <1>3, <2>1, <2>3
      DEF sleep_for_watermark, milestoneVars, WakeInv, NoLostWakeup,
          required_prefix_tokens, milestone_consumed
    <2>4. CASE signal_milestone_consumed(required_prefix_tokens(n))
      BY <1>3, <2>1, <2>4, SignalWakes
    <2> QED
      BY <1>4, <2>2, <2>3, <2>4
      DEF Gate, Settle, UnknownDependency, WaitWatermark, WaitCompletion,
          PassCompletion,
          BeginExecute, Fulfil, SettleAs, CatchException, wait_for_watermark
  <1>5. CASE n \in Branches /\ AnalyticalNodeExecute(n) /\ UNCHANGED prefilled
    <2>1. \A p \in prefill_resume_cv : pc'[p] = pc[p]
      BY <1>1, <1>2, <1>5 DEF Branches
    <2>2. CASE UNCHANGED stateVars
      BY <1>5, <2>1, <2>2, WakeFrame DEF stateVars, milestoneVars
    <2>3. CASE SignalConsumed(n)
      BY <1>5, <2>1, <2>3, SignalWakes DEF SignalConsumed
    <2>4. CASE PublishOutput(n)
      BY <1>5, <2>1, <2>4, WakeFrame
      DEF PublishOutput, publish_output, milestoneVars
    <2> QED
      BY <1>5, <2>2, <2>3, <2>4
      DEF AnalyticalNodeExecute, EnterBranch, ForkSnapshot, ForkCanonical,
          Materialize, OpenBranchContext, PrepareBatch, DecodeBranch,
          CloseBranchContext
  <1>6. CASE n \in Prefillers /\ PrefillNodeExecute(n)
    <2>1. CASE AwaitConsumers(n)
      BY <1>1, <1>2, <1>g, <2>1
      DEF AwaitConsumers, wait_for_milestone_consumers,
          sleep_for_milestone_consumers, stateVars, milestoneVars, WakeInv,
          NoLostWakeup, milestone_consumed, required_prefix_tokens
    <2>2. CASE CommitChunk(n) \/ PublishMilestone(n) \/ CompletePrefill(n)
      <3>1. /\ \A p \in prefill_resume_cv : pc'[p] = pc[p]
            /\ UNCHANGED <<prefilled, prefill_resume_cv,
                           milestone_consumers_remaining>>
            /\ watermark_cv' = {}
        BY <1>3, <1>g, <2>2
        DEF CommitChunk, PublishMilestone, CompletePrefill, commit_plain,
            commit_publish, publish, Exported, mark_prefill_complete,
            milestoneVars
      <3> QED
        BY <3>1 DEF WakeInv, NoLostWakeup, milestone_consumed
    <2>3. CASE DecodeChunk(n)
      <3>1. /\ pc[n] = "decode"
            /\ \A p \in Prefillers \ {n} : prefilled'[p] = prefilled[p]
        BY <1>6, <1>g, <2>3
        DEF DecodeChunk, ThrowUnderGuard, TypeOK, NodeTypeOK
      <3>2. n \notin prefill_resume_cv
        BY <3>1 DEF WakeInv
      <3> QED
        BY <1>2, <1>3, <2>3, <3>1, <3>2, WakeFrame
        DEF DecodeChunk, stateVars, milestoneVars
    <2>4. CASE ExportMilestone(n)
      BY <1>3, <1>g, <2>4, WakeFrame
      DEF ExportMilestone, ThrowUnderGuard, commit_export, stateVars,
          milestoneVars
    <2>5. CASE UNCHANGED <<stateVars, prefilled>> /\ pc[n] # "await_consumers"
      BY <1>3, <2>5, WakeFrame DEF stateVars, milestoneVars
    <2> QED
      BY <1>6, <1>g, <2>1, <2>2, <2>3, <2>4, <2>5
      DEF PrefillNodeExecute, PrefillInit, PrefillTokenize, BeginChunk,
          ReleaseContext, ResumeLock, RestorePrefix, FreePrefill, Throw,
          ThrowUnderGuard
  <1> QED
    BY <1>4, <1>5, <1>6 DEF Worker, ExecuteStep

\* Every store that can make a predicate true is followed by the
\* notification of its sleepers, so no thread sleeps on a condition variable
\* whose predicate holds.
THEOREM WakeupCorrect == Spec => []NoLostWakeup
  <1>1. Init => WakeInv
    BY DEF Init, StateInit, WakeInv, NoLostWakeup
  <1>2. TypeOK /\ WakeInv /\ [Next]_vars => WakeInv'
    <2>1. ASSUME TypeOK, WakeInv, UNCHANGED vars \/ Terminated
          PROVE  WakeInv'
      BY <2>1, WakeFrame DEF vars, Terminated, stateVars, milestoneVars
    <2> QED
      BY <2>1, MainWakes, WorkerWakes DEF Next
  <1>3. WakeInv => NoLostWakeup
    BY DEF WakeInv
  <1> QED
    BY <1>1, <1>2, <1>3, TypeCorrect, PTL DEF Spec

=============================================================================
