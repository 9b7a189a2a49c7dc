------------------------- MODULE OrchestratorProofs ------------------------
(***************************************************************************)
(* Type correctness of the composed pipeline, for every set of nodes, every*)
(* set of pipelines and every choice of the failures that may happen.      *)
(***************************************************************************)
EXTENDS Orchestrator, NodeProofs

LEMMA NodeType == TypeOK => NodeTypeOK
  BY DEF TypeOK

LEMMA InitType == Init => TypeOK
  <1> SUFFICES ASSUME Init PROVE TypeOK
    OBVIOUS
  <1>1. StateTypeOK
    BY StateInitType DEF Init
  <1>2. EngineTypeOK /\ ForkTypeOK
    BY NoCells DEF Init, EngineInit, EngineTypeOK, ForkTypeOK
  <1>3. WaitTypeOK
    BY DEF Init, StateInit, EmptyMap, WaitTypeOK
  <1>4. PcTypeOK
    BY DEF Init, WorkerPC, PcTypeOK
  <1>5. MainTypeOK /\ WorkerTypeOK
    BY DEF Init, MainTypeOK, WorkerTypeOK
  <1> QED
    BY <1>1, <1>2, <1>3, <1>4, <1>5 DEF Init, TypeOK, NodeTypeOK

-----------------------------------------------------------------------------
(* What a step leaves alone keeps its type.                                *)

LEMMA Frame ==
  ASSUME TypeOK
  PROVE  /\ UNCHANGED pipeline => (pipeline \in Pipelines)'
         /\ UNCHANGED stateVars => StateTypeOK' /\ WaitTypeOK'
         /\ UNCHANGED engineVars => EngineTypeOK'
         /\ UNCHANGED active_buffers =>
              (active_buffers \subseteq Branches \cup {Staging})'
         /\ UNCHANGED pc => PcTypeOK'
         /\ UNCHANGED prefilled => (prefilled \in [Prefillers -> Nat])'
         /\ UNCHANGED forkVars => ForkTypeOK'
         /\ UNCHANGED mainVars => MainTypeOK'
         /\ UNCHANGED workerVars => WorkerTypeOK'
  <1>1. UNCHANGED mainVars => MainTypeOK'
    BY DEF TypeOK, mainVars, MainTypeOK
  <1>2. UNCHANGED workerVars => WorkerTypeOK'
    BY DEF TypeOK, workerVars, WorkerTypeOK
  <1> QED
    BY <1>1, <1>2, NodeType, NodeFrame

-----------------------------------------------------------------------------
(* One step of the orchestrator, in the caller's thread or in a worker.    *)

LEMMA MainStepType ==
  ASSUME TypeOK, MainThread, UNCHANGED pipeline
  PROVE  TypeOK'
  <1>1. ASSUME NEW n \in Node, RegisterMilestone(n)
        PROVE  TypeOK'
    <2>1. required_prefix_tokens(n) \in Int
      BY NodeType, PipelineType
    <2>2. StateTypeOK'
      <3>1. CASE required_prefix_tokens(n) > 0
        BY <1>1, <2>1, <3>1, RegisterType
        DEF RegisterMilestone, TypeOK, NodeTypeOK
      <3>2. CASE ~(required_prefix_tokens(n) > 0)
        BY <1>1, <3>2
        DEF RegisterMilestone, TypeOK, NodeTypeOK, StateTypeOK, exportVars,
            milestoneVars
      <3> QED
        BY <3>1, <3>2
    <2>3. WaitTypeOK' /\ MainTypeOK'
      BY <1>1 DEF RegisterMilestone, TypeOK, NodeTypeOK, WaitTypeOK, MainTypeOK
    <2> QED
      BY <1>1, <2>2, <2>3, Frame DEF RegisterMilestone, TypeOK, NodeTypeOK
  <1>2. ASSUME NEW n \in Node, SpawnWorker(n)
        PROVE  TypeOK'
    <2>1. PcTypeOK'
      BY <1>2, NodeType, GotoType DEF SpawnWorker, WorkerPC
    <2>2. MainTypeOK'
      BY <1>2 DEF SpawnWorker, TypeOK, NodeTypeOK, MainTypeOK
    <2> QED
      BY <1>2, <2>1, <2>2, Frame DEF SpawnWorker, TypeOK, NodeTypeOK
  <1>3. CASE BeginSpawn \/ SpawnFails \/ BeginJoin \/ JoinWorkers
    <2>1. MainTypeOK'
      BY <1>3
      DEF BeginSpawn, SpawnFails, BeginJoin, JoinWorkers, Leave, TypeOK,
          NodeTypeOK, MainTypeOK
    <2> QED
      BY <1>3, <2>1, Frame
      DEF BeginSpawn, SpawnFails, BeginJoin, JoinWorkers, Leave, TypeOK,
          NodeTypeOK
  <1>4. CASE FreePool
    <2>1. MainTypeOK' /\ (active_buffers \subseteq Branches \cup {Staging})'
      BY <1>4 DEF FreePool, free_all, TypeOK, NodeTypeOK, MainTypeOK
    <2> QED
      BY <1>4, <2>1, Frame DEF FreePool, TypeOK, NodeTypeOK
  <1> QED
    BY <1>1, <1>2, <1>3, <1>4 DEF MainThread

LEMMA WorkerStepType ==
  ASSUME TypeOK, NEW n \in Node, Gate(n) \/ Settle(n), UNCHANGED pipeline
  PROVE  TypeOK'
  <1>1. CASE UnknownDependency(n) \/ BeginExecute(n)
    <2>1. {"abandoned", "execute"} \subseteq WorkerPC \cup NodePC(n)
      BY DEF WorkerPC, NodePC, PrefillPC, BranchPC
    <2>2. PcTypeOK'
      BY <1>1, <2>1, NodeType, GotoType DEF UnknownDependency, BeginExecute
    <2> QED
      BY <1>1, <2>2, Frame
      DEF UnknownDependency, BeginExecute, TypeOK, NodeTypeOK
  <1>2. CASE WaitWatermark(n)
    <2>1. WorkerTypeOK'
      BY <1>2 DEF WaitWatermark, TypeOK, NodeTypeOK, WorkerTypeOK
    <2>2. StateTypeOK' /\ WaitTypeOK'
      <3>1. CASE wait_for_watermark(n, required_prefix_tokens(n))
        BY <3>1, Frame DEF wait_for_watermark
      <3>2. CASE sleep_for_watermark(n, required_prefix_tokens(n))
        <4>1. StateTypeOK'
          BY <3>2, SleepType DEF TypeOK, NodeTypeOK
        <4> QED
          BY <3>2, <4>1, NodeType, WaitType DEF sleep_for_watermark
      <3> QED
        BY <1>2, <3>1, <3>2 DEF WaitWatermark
    <2> QED
      BY <1>2, <2>1, <2>2, Frame DEF WaitWatermark, TypeOK, NodeTypeOK
  <1>3. CASE WaitCompletion(n)
    <2>1. WorkerTypeOK'
      BY <1>3
      DEF WaitCompletion, PassCompletion, TypeOK, NodeTypeOK, WorkerTypeOK
    <2> QED
      BY <1>3, <2>1, Frame
      DEF WaitCompletion, PassCompletion, TypeOK, NodeTypeOK
  <1>4. CASE Fulfil(n)
    <2>1. WorkerTypeOK' /\ PcTypeOK'
      BY <1>4, GotoType
      DEF Fulfil, SettleAs, TypeOK, NodeTypeOK, WorkerTypeOK, WorkerPC
    <2> QED
      BY <1>4, <2>1, Frame DEF Fulfil, SettleAs, TypeOK, NodeTypeOK
  <1>5. CASE CatchException(n)
    <2>1. WorkerTypeOK' /\ PcTypeOK'
      BY <1>5, GotoType
      DEF CatchException, SettleAs, TypeOK, NodeTypeOK, WorkerTypeOK, WorkerPC
    <2>2. StateTypeOK'
      BY <1>5, SignalType DEF CatchException, SettleAs, TypeOK, NodeTypeOK
    <2>3. WaitTypeOK'
      BY <1>5, NodeType, WaitType
      DEF CatchException, SettleAs, signal_milestone_consumed, consume
    <2> QED
      BY <1>5, <2>1, <2>2, <2>3, Frame
      DEF CatchException, SettleAs, TypeOK, NodeTypeOK
  <1> QED
    BY <1>1, <1>2, <1>3, <1>4, <1>5 DEF Gate, Settle

-----------------------------------------------------------------------------
(* The inductive invariant.                                                *)

\* No step forgets a snapshot.
LEMMA SnapshotsKept ==
  ASSUME TypeOK, [Next]_vars
  PROVE  DOMAIN prefix_snapshots \subseteq DOMAIN prefix_snapshots'
  <1>1. ASSUME UNCHANGED stateVars
        PROVE  UNCHANGED prefix_snapshots
    BY <1>1 DEF stateVars, exportVars
  <1>2. CASE UNCHANGED vars \/ Terminated
    BY <1>1, <1>2 DEF vars, Terminated
  <1>3. CASE MainThread
    BY <1>1, <1>3
    DEF MainThread, RegisterMilestone, SpawnWorker, BeginSpawn, SpawnFails,
        BeginJoin, JoinWorkers, Leave, FreePool, exportVars
  <1>4. ASSUME NEW n \in Node, Gate(n) \/ Settle(n)
        PROVE  UNCHANGED prefix_snapshots
    BY <1>1, <1>4
    DEF Gate, Settle, UnknownDependency, WaitWatermark, WaitCompletion,
        PassCompletion,
        BeginExecute, Fulfil, SettleAs, CatchException, wait_for_watermark,
        sleep_for_watermark, signal_milestone_consumed, consume, exportVars
  <1>5. ASSUME NEW p \in Prefillers, PrefillNodeExecute(p)
        PROVE  DOMAIN prefix_snapshots \subseteq DOMAIN prefix_snapshots'
    BY <1>5, NodeType, SnapshotsGrow
  <1>6. ASSUME NEW n \in Branches, AnalyticalNodeExecute(n)
        PROVE  UNCHANGED prefix_snapshots
    BY <1>6, NodeType, BranchLeaves DEF Unpublished
  <1> QED
    BY <1>2, <1>3, <1>4, <1>5, <1>6 DEF Next, Worker, ExecuteStep

\* The pipeline is never reconfigured.
LEMMA PipelineFixed == [Next]_vars => UNCHANGED pipeline
  BY DEF Next, Terminated, vars

\* A worker reaches a location of execute() by its own step.
LEMMA OwnStep ==
  ASSUME TypeOK, Next, NEW n \in Node, pc'[n] # pc[n], pc'[n] # "gate"
  PROVE  /\ Worker(n)
         /\ n \in Prefillers => PrefillNodeExecute(n) \/ Gate(n) \/ Settle(n)
         /\ n \in Branches => AnalyticalNodeExecute(n) \/ Gate(n) \/ Settle(n)
  <1>1. ~Terminated
    BY DEF Terminated, vars
  <1>2. ~MainThread
    BY DEF MainThread, RegisterMilestone, SpawnWorker, BeginSpawn, SpawnFails,
           BeginJoin, JoinWorkers, Leave, FreePool, Goto, TypeOK, NodeTypeOK,
           PcTypeOK
  <1>3. ASSUME NEW m \in Node, Worker(m)
        PROVE  m = n
    <2>0. ASSUME NEW from, NEW to, Goto(m, from, to)
          PROVE  m = n
      BY <2>0 DEF Goto, TypeOK, NodeTypeOK, PcTypeOK
    <2>1. CASE Gate(m) \/ Settle(m)
      BY <2>0, <2>1
      DEF Gate, Settle, UnknownDependency, WaitWatermark, WaitCompletion,
          PassCompletion,
          BeginExecute, Fulfil, SettleAs, CatchException
    <2>2. CASE m \in Prefillers /\ PrefillNodeExecute(m)
      BY <2>2, NodeType, PrefillDiscipline DEF Disciplined
    <2>3. CASE m \in Branches /\ AnalyticalNodeExecute(m)
      BY <2>3, NodeType, BranchDiscipline DEF Disciplined
    <2> QED
      BY <1>3, <2>1, <2>2, <2>3 DEF Worker, ExecuteStep
  <1>4. Worker(n)
    BY <1>1, <1>2, <1>3 DEF Next
  <1> QED
    BY <1>4 DEF Worker, ExecuteStep, Branches

LEMMA ForkedInductive ==
  ASSUME TypeOK, ForkedFromSnapshot, [Next]_vars
  PROVE  ForkedFromSnapshot'
  <1> SUFFICES ASSUME NEW n \in Branches,
                      Forked(n)',
                      forks_at_watermark(n)'
               PROVE  has_prefix_snapshot(required_prefix_tokens(n))'
    BY DEF ForkedFromSnapshot
  <1>1. UNCHANGED pipeline /\ n \in Node
    BY PipelineFixed DEF Branches
  <1>2. CASE Forked(n)
    BY <1>1, <1>2, SnapshotsKept
    DEF ForkedFromSnapshot, forks_at_watermark, required_prefix_tokens,
        has_prefix_snapshot
  <1>3. CASE ~Forked(n)
    <2>0. pc'[n] # pc[n] /\ pc'[n] \in BranchPC \ {"execute", "fork"}
      BY <1>3 DEF Forked
    <2>1. Next
      BY <2>0 DEF vars
    <2>2. AnalyticalNodeExecute(n) \/ Gate(n) \/ Settle(n)
      BY <1>1, <2>0, <2>1, OwnStep DEF BranchPC
    <2>3. ASSUME NEW from, NEW to, Goto(n, from, to)
          PROVE  to \in BranchPC \ {"execute", "fork"} /\ from = pc[n]
      BY <1>1, <2>0, <2>3 DEF Goto, TypeOK, NodeTypeOK, PcTypeOK
    <2>4. CASE Gate(n) \/ Settle(n)
      BY <2>0, <2>3, <2>4
      DEF BranchPC, Gate, Settle, UnknownDependency, WaitWatermark,
          WaitCompletion, PassCompletion, BeginExecute, Fulfil, SettleAs, CatchException
    <2>5. CASE AnalyticalNodeExecute(n)
      <3>2. has_prefix_snapshot(required_prefix_tokens(n))
        BY <1>1, <1>3, <2>5, NodeType, ForkFinds
        DEF forks_at_watermark, required_prefix_tokens
      <3> QED
        BY <1>1, <3>2, SnapshotsKept
        DEF has_prefix_snapshot, required_prefix_tokens
    <2> QED
      BY <2>2, <2>4, <2>5
  <1> QED
    BY <1>2, <1>3

LEMMA StepType ==
  ASSUME TypeOK, ForkedFromSnapshot, [Next]_vars
  PROVE  TypeOK'
  <1>1. CASE UNCHANGED vars \/ Terminated
    <2>1. /\ UNCHANGED stateVars /\ UNCHANGED engineVars
          /\ UNCHANGED active_buffers /\ UNCHANGED pipeline /\ UNCHANGED pc
          /\ UNCHANGED prefilled /\ UNCHANGED forkVars
          /\ UNCHANGED mainVars /\ UNCHANGED workerVars
      BY <1>1 DEF vars, Terminated
    <2> QED
      BY <2>1, Frame DEF TypeOK, NodeTypeOK
  <1>2. CASE MainThread /\ UNCHANGED pipeline
    BY <1>2, MainStepType
  <1>3. ASSUME NEW n \in Node, Worker(n), UNCHANGED pipeline
        PROVE  TypeOK'
    <2>1. CASE Gate(n) \/ Settle(n)
      BY <1>3, <2>1, WorkerStepType
    <2>2. CASE ExecuteStep(n) /\ UNCHANGED <<mainVars, workerVars>>
      <3>1. CASE n \in Prefillers /\ PrefillNodeExecute(n) /\ UNCHANGED forkVars
        BY <1>3, <2>2, <3>1, NodeType, PrefillStepType, Frame DEF TypeOK
      <3>2. CASE n \in Branches /\ AnalyticalNodeExecute(n)
                   /\ UNCHANGED prefilled
        BY <1>3, <2>2, <3>2, NodeType, BranchStepType, Frame DEF TypeOK
      <3> QED
        BY <2>2, <3>1, <3>2 DEF ExecuteStep
    <2> QED
      BY <1>3, <2>1, <2>2 DEF Worker
  <1> QED
    BY <1>1, <1>2, <1>3 DEF Next

\* Type correctness: whatever fails and in whatever order the threads run,
\* every variable of the pipeline keeps its type.
THEOREM TypeCorrect == Spec => [](TypeOK /\ ForkedFromSnapshot)
  <1>1. Init => TypeOK /\ ForkedFromSnapshot
    BY InitType DEF Init, ForkedFromSnapshot, Forked, BranchPC, Branches
  <1>2. TypeOK /\ ForkedFromSnapshot /\ [Next]_vars
          => TypeOK' /\ ForkedFromSnapshot'
    BY StepType, ForkedInductive
  <1> QED
    BY <1>1, <1>2, PTL DEF Spec

=============================================================================
