---------------------------- MODULE HarnessProofs --------------------------
(***************************************************************************)
(* What the benchmark program may count on, for every document, file,      *)
(* prompt, watermark and failure: its checks before the run suffice, its   *)
(* locals outlive the prefiller's thread, and exit status 0 means that the *)
(* run took place.                                                         *)
(***************************************************************************)
EXTENDS BenchmarkHarness, NodeProofs

\* The prefiller and the agents are three nodes, and the agents ask for
\* watermarks.
LEMMA HarnessNodes ==
  ASSUME NodeTypeOK
  PROVE  /\ Prefiller \in Node /\ Prefillers = {Prefiller}
         /\ Branches = {AgentA, AgentB} /\ Branches \subseteq Node
         /\ AgentA # AgentB /\ Prefiller \notin Branches
         /\ pipeline.total \in Nat
         /\ \A n \in Branches : /\ required_prefix_tokens(n) \in Nat \ {0}
                                /\ forks_at_watermark(n)
                                /\ pipeline.prompt[n] \in Nat
         /\ required_prefix_tokens(AgentA) <= required_prefix_tokens(AgentB)
  <1>1. /\ pipeline \in Pipelines
        /\ required_prefix_tokens(Prefiller) = -1
        /\ 0 < required_prefix_tokens(AgentA)
        /\ required_prefix_tokens(AgentA) <= required_prefix_tokens(AgentB)
        /\ required_prefix_tokens(AgentA) \in Int
        /\ required_prefix_tokens(AgentB) \in Int
    BY PipelineType, HarnessAssumption
    DEF NodeTypeOK, required_prefix_tokens
  <1>2. Prefiller # AgentA /\ Prefiller # AgentB
    BY <1>1
  <1> QED
    BY <1>1, <1>2, PipelineType, HarnessAssumption
    DEF Branches, forks_at_watermark

-----------------------------------------------------------------------------
(* The steps of the program.                                               *)

\* The main thread publishes nothing and opens no context; it starts the
\* prefiller and the agents, each from one place.
LEMMA MainLeaves ==
  ASSUME MainThread
  PROVE  /\ Unpublished
         /\ UNCHANGED <<prefix_seq_len, prefill_complete, node_outputs,
                        engineVars, prefilled, forkVars, doc_n>>
         /\ \/ UNCHANGED pc
            \/ /\ MainGoto("spawn", "wait_a")
               /\ Goto(Prefiller, "idle", "execute")
            \/ /\ MainGoto("wait_a", "run_a")
               /\ Goto(AgentA, "idle", "execute")
            \/ /\ MainGoto("wait_b", "run_b")
               /\ Goto(AgentB, "idle", "execute")
  BY DEF MainThread, BuildDocument, CheckDocument, RunBaseline,
         AllocatePrefix, RegisterAgent, StartPrefiller, WaitForAgent,
         LeaveAgent, JoinPrefiller, FreePool, Alone, Fails, stateVars,
         exportVars, wait_for_watermark, sleep_for_watermark, Unpublished

LEMMA HarnessStep ==
  ASSUME NodeTypeOK, [Next]_vars
  PROVE  /\ UNCHANGED <<pipeline, doc_n>>
         /\ \/ UNCHANGED vars
            \/ MainThread
            \/ /\ PrefillNodeExecute(Prefiller)
               /\ main # "terminated"
               /\ UNCHANGED <<forkVars, main>>
            \/ \E n \in Branches : /\ AnalyticalNodeExecute(n)
                                   /\ UNCHANGED <<prefilled, main>>
  <1>1. CASE UNCHANGED vars
    BY <1>1 DEF vars
  <1>2. CASE MainThread /\ UNCHANGED pipeline
    BY <1>2, MainLeaves
  <1>3. CASE RunPrefiller /\ UNCHANGED pipeline
    BY <1>3 DEF RunPrefiller
  <1>4. CASE (\E n \in Branches : RunAgent(n)) /\ UNCHANGED pipeline
    BY <1>4 DEF RunAgent
  <1> QED
    BY <1>1, <1>2, <1>3, <1>4 DEF Next

-----------------------------------------------------------------------------
(* Types.                                                                  *)

LEMMA HarnessInitType == Init => HarnessTypeOK /\ ForkedFromSnapshot
  <1> SUFFICES ASSUME Init PROVE HarnessTypeOK /\ ForkedFromSnapshot
    OBVIOUS
  <1>1. StateTypeOK
    BY StateInitType DEF Init
  <1>2. EngineTypeOK /\ ForkTypeOK
    BY NoCells DEF Init, EngineInit, EngineTypeOK, ForkTypeOK
  <1>3. WaitTypeOK
    BY DEF Init, StateInit, EmptyMap, WaitTypeOK
  <1>4. PcTypeOK
    BY DEF Init, WorkerPC, PcTypeOK
  <1>5. NodeTypeOK
    BY <1>1, <1>2, <1>3, <1>4 DEF Init, NodeTypeOK
  <1>6. doc_n \in Nat
    BY <1>5, HarnessNodes, BudgetAssumption DEF Init
  <1>7. ForkedFromSnapshot
    BY DEF Init, ForkedFromSnapshot, Forked, BranchPC, Branches
  <1> QED
    BY <1>5, <1>6, <1>7 DEF Init, HarnessTypeOK

LEMMA MainThreadType ==
  ASSUME NodeTypeOK, MainThread, UNCHANGED pipeline
  PROVE  NodeTypeOK'
  <1>0. /\ (pipeline \in Pipelines)'
        /\ (prefilled \in [Prefillers -> Nat])' /\ ForkTypeOK' /\ EngineTypeOK'
    BY MainLeaves, NodeFrame
  <1>1. PcTypeOK'
    <2>1. "execute" \in WorkerPC \cup NodePC(Prefiller)
      BY HarnessNodes DEF NodePC, PrefillPC
    <2>2. \A n \in Branches : "execute" \in WorkerPC \cup NodePC(n)
      BY HarnessNodes DEF NodePC, BranchPC
    <2> QED
      BY <2>1, <2>2, HarnessNodes, MainLeaves, GotoType, NodeFrame
  <1>2. StateTypeOK' /\ WaitTypeOK'
    <2>1. CASE UNCHANGED stateVars
      BY <2>1, NodeFrame
    <2>2. ASSUME NEW n \in Branches, NEW from, NEW to,
                 RegisterAgent(n, from, to)
          PROVE  StateTypeOK' /\ WaitTypeOK'
      <3>1. StateTypeOK'
        BY <2>2, HarnessNodes, RegisterType DEF RegisterAgent, NodeTypeOK
      <3> QED
        BY <2>2, <3>1 DEF RegisterAgent, NodeTypeOK, WaitTypeOK
    <2>3. ASSUME NEW n \in Branches,
                 sleep_for_watermark(n, required_prefix_tokens(n))
          PROVE  StateTypeOK' /\ WaitTypeOK'
      <3>1. StateTypeOK'
        BY <2>3, SleepType DEF NodeTypeOK
      <3> QED
        BY <2>3, <3>1, HarnessNodes, WaitType DEF sleep_for_watermark
    <2> QED
      BY <2>1, <2>2, <2>3, HarnessNodes
      DEF MainThread, BuildDocument, CheckDocument, RunBaseline,
          AllocatePrefix, StartPrefiller, WaitForAgent, LeaveAgent,
          JoinPrefiller, FreePool, Alone, wait_for_watermark
  <1>3. (active_buffers \subseteq Branches \cup {Staging})'
    BY DEF MainThread, BuildDocument, CheckDocument, RunBaseline,
           AllocatePrefix, RegisterAgent, StartPrefiller, WaitForAgent,
           LeaveAgent, JoinPrefiller, FreePool, Alone, allocate_cache,
           free_all, NodeTypeOK
  <1> QED
    BY <1>0, <1>1, <1>2, <1>3 DEF NodeTypeOK

\* Where the main thread may be.
LEMMA MainType ==
  ASSUME HarnessTypeOK, MainThread
  PROVE  /\ main' \in {"build", "check", "baseline", "allocate",
                       "register_a", "register_b", "spawn", "wait_a", "run_a",
                       "wait_b", "run_b", "join", "free", "unwind"} \/ Ended'
  BY DEF MainThread, BuildDocument, CheckDocument, RunBaseline,
         AllocatePrefix, RegisterAgent, StartPrefiller, WaitForAgent,
         LeaveAgent, JoinPrefiller, FreePool, Fails, MainGoto, Ended

LEMMA HarnessStepType ==
  ASSUME HarnessTypeOK, ForkedFromSnapshot, [Next]_vars
  PROVE  HarnessTypeOK'
  <1>0. NodeTypeOK /\ UNCHANGED <<pipeline, doc_n>>
    BY HarnessStep DEF HarnessTypeOK
  <1>1. CASE UNCHANGED vars
    <2>1. /\ UNCHANGED stateVars /\ UNCHANGED engineVars
          /\ UNCHANGED active_buffers /\ UNCHANGED pc /\ UNCHANGED prefilled
          /\ UNCHANGED forkVars /\ UNCHANGED <<main, doc_n>>
      BY <1>1 DEF vars
    <2>2. NodeTypeOK'
      BY <1>0, <2>1, NodeFrame DEF NodeTypeOK
    <2> QED
      BY <2>1, <2>2 DEF HarnessTypeOK, Ended
  <1>2. CASE MainThread
    BY <1>0, <1>2, MainThreadType, MainType DEF HarnessTypeOK
  <1>3. CASE PrefillNodeExecute(Prefiller) /\ UNCHANGED <<forkVars, main>>
    BY <1>0, <1>3, HarnessNodes, PrefillStepType DEF HarnessTypeOK, Ended
  <1>4. ASSUME NEW n \in Branches, AnalyticalNodeExecute(n),
               UNCHANGED <<prefilled, main>>
        PROVE  HarnessTypeOK'
    BY <1>0, <1>4, BranchStepType DEF HarnessTypeOK, Ended
  <1> QED
    BY <1>0, <1>1, <1>2, <1>3, <1>4, HarnessStep

\* A snapshot that was found is not lost again.
LEMMA HarnessForks ==
  ASSUME NodeTypeOK, ForkedFromSnapshot, [Next]_vars
  PROVE  ForkedFromSnapshot'
  <1> SUFFICES ASSUME NEW n \in Branches,
                      Forked(n)',
                      forks_at_watermark(n)'
               PROVE  has_prefix_snapshot(required_prefix_tokens(n))'
    BY DEF ForkedFromSnapshot
  <1>0. /\ UNCHANGED pipeline /\ n \in Node /\ n # Prefiller
        /\ Prefiller \in Prefillers
    BY HarnessStep, HarnessNodes
  <1>1. DOMAIN prefix_snapshots \subseteq DOMAIN prefix_snapshots'
    <2>1. CASE UNCHANGED vars
      BY <2>1 DEF vars, stateVars, exportVars
    <2> QED
      BY <1>0, <2>1, HarnessStep, MainLeaves, SnapshotsGrow, BranchLeaves
      DEF Unpublished
  <1>2. CASE Forked(n)
    BY <1>0, <1>1, <1>2
    DEF ForkedFromSnapshot, forks_at_watermark, required_prefix_tokens,
        has_prefix_snapshot
  <1>3. CASE ~Forked(n)
    <2>0. pc'[n] # pc[n] /\ pc'[n] \in BranchPC \ {"execute", "fork"}
      BY <1>3 DEF Forked
    <2>1. ~UNCHANGED vars
      BY <2>0 DEF vars
    <2>2. ~MainThread
      BY <1>0, <2>0, MainLeaves
      DEF Goto, NodeTypeOK, PcTypeOK, BranchPC
    <2>3. ~PrefillNodeExecute(Prefiller)
      BY <1>0, <2>0, PrefillDiscipline DEF Disciplined
    <2>4. AnalyticalNodeExecute(n)
      <3>1. ASSUME NEW m \in Branches, AnalyticalNodeExecute(m)
            PROVE  m = n
        BY <1>0, <2>0, <3>1, BranchDiscipline DEF Disciplined
      <3> QED
        BY <2>1, <2>2, <2>3, <3>1, HarnessStep
    <2> QED
      BY <1>0, <1>1, <1>3, <2>4, ForkFinds
      DEF has_prefix_snapshot, required_prefix_tokens, forks_at_watermark
  <1> QED
    BY <1>2, <1>3

\* Type correctness: whatever fails and however the two threads interleave,
\* every variable of the benchmark keeps its type.
THEOREM HarnessTypeCorrect == Spec => [](HarnessTypeOK /\ ForkedFromSnapshot)
  <1>1. HarnessTypeOK /\ ForkedFromSnapshot /\ [Next]_vars
          => HarnessTypeOK' /\ ForkedFromSnapshot'
    BY HarnessStepType, HarnessForks DEF HarnessTypeOK
  <1> QED
    BY <1>1, HarnessInitType, PTL DEF Spec

-----------------------------------------------------------------------------
(* Where the three nodes are.                                              *)

\* The prefiller runs from its start to the join, and an agent while the
\* main thread is in it; the handler is entered before the start, or after
\* the join of a prefiller that threw.
LocationInv ==
  /\ main \in {"build", "check", "baseline", "allocate", "register_a",
               "register_b", "spawn"} => \A n \in Node : pc[n] = "idle"
  /\ main \in {"free", "returned"} => pc[Prefiller] = "returned"
  /\ main \in {"unwind", "reported"} => pc[Prefiller] \in {"idle", "thrown"}
  /\ main = "wait_a" => pc[AgentA] = "idle"
  /\ main \in {"wait_b", "run_b", "join", "free", "returned"} =>
       pc[AgentA] = "returned"
  /\ main \in {"wait_a", "run_a", "wait_b"} => pc[AgentB] = "idle"
  /\ main \in {"join", "free", "returned"} => pc[AgentB] = "returned"

\* A node that moves is inside execute(), and stays out of "idle".
LEMMA NodeMoves ==
  ASSUME NodeTypeOK, NEW n \in Node,
         \/ n \in Prefillers /\ PrefillNodeExecute(n)
         \/ n \in Branches /\ AnalyticalNodeExecute(n)
  PROVE  /\ pc[n] \notin {"idle", "returned", "thrown"}
         /\ pc'[n] # "idle"
         /\ \A m \in Node \ {n} : pc'[m] = pc[m]
  BY ExecuteMoves, PrefillDiscipline, BranchDiscipline
  DEF Disciplined, PrefillPC, BranchPC

LEMMA LocationInductive ==
  ASSUME NodeTypeOK, LocationInv, [Next]_vars
  PROVE  LocationInv'
  <1>0. /\ Prefiller \in Node /\ Prefiller \in Prefillers
        /\ Node = {Prefiller, AgentA, AgentB}
        /\ AgentA # AgentB /\ Prefiller # AgentA /\ Prefiller # AgentB
        /\ Branches = {AgentA, AgentB}
    BY HarnessNodes, HarnessAssumption
  <1>1. CASE UNCHANGED vars
    BY <1>1 DEF vars, LocationInv
  <1>2. CASE MainThread
    <2>1. ASSUME NEW n \in Node, NEW from, NEW to, Goto(n, from, to)
          PROVE  /\ pc[n] = from /\ pc'[n] = to
                 /\ \A m \in Node \ {n} : pc'[m] = pc[m]
      BY <2>1, GotoDiscipline
    <2>2. CASE UNCHANGED pc
      BY <1>0, <1>2, <2>2
      DEF MainThread, BuildDocument, CheckDocument, RunBaseline,
          AllocatePrefix, RegisterAgent, StartPrefiller, WaitForAgent,
          LeaveAgent, JoinPrefiller, PrefillerOver, FreePool, Fails,
          MainGoto, LocationInv, Goto, NodeTypeOK, PcTypeOK
    <2>3. CASE \/ /\ MainGoto("spawn", "wait_a")
                  /\ Goto(Prefiller, "idle", "execute")
               \/ /\ MainGoto("wait_a", "run_a")
                  /\ Goto(AgentA, "idle", "execute")
               \/ /\ MainGoto("wait_b", "run_b")
                  /\ Goto(AgentB, "idle", "execute")
      BY <1>0, <2>1, <2>3 DEF MainGoto, LocationInv
    <2> QED
      BY <1>2, <2>2, <2>3, MainLeaves
  <1>3. CASE PrefillNodeExecute(Prefiller) /\ UNCHANGED main
    BY <1>0, <1>3, NodeMoves DEF LocationInv
  <1>4. ASSUME NEW n \in Branches, AnalyticalNodeExecute(n), UNCHANGED main
        PROVE  LocationInv'
    BY <1>0, <1>4, NodeMoves DEF LocationInv
  <1> QED
    BY <1>1, <1>2, <1>3, <1>4, HarnessStep

LEMMA LocationCorrect == Spec => []LocationInv
  <1>1. Init => LocationInv
    BY DEF Init, LocationInv
  <1>2. HarnessTypeOK /\ LocationInv /\ [Next]_vars => LocationInv'
    BY LocationInductive DEF HarnessTypeOK
  <1> QED
    BY <1>1, <1>2, HarnessTypeCorrect, PTL DEF Spec

\* The pool and the blackboard are destroyed only when the prefiller is not
\* running: whatever fails before the start, in an agent or in the
\* prefiller, each way to the destructors goes round the thread or past its
\* end.
THEOREM TeardownCorrect == Spec => []TeardownAfterPrefiller
  <1>1. LocationInv => TeardownAfterPrefiller
    BY DEF LocationInv, TeardownAfterPrefiller, PrefillerOver
  <1> QED
    BY <1>1, LocationCorrect, PTL

-----------------------------------------------------------------------------
(* The consumers of the two milestones.                                    *)

\* What agent n still holds of the count of w.
Share(n, w) ==
  IF required_prefix_tokens(n) = w /\ pc[n] # "returned" THEN 1 ELSE 0

Watermarks == {required_prefix_tokens(n) : n \in Branches}

\* The count of a milestone is the number of its agents that have not
\* returned, also when both agents share one milestone.
CountInv ==
  LET left == milestone_consumers_remaining
      wa == required_prefix_tokens(AgentA)
  IN
  /\ main \in {"build", "check", "baseline", "allocate", "register_a"} =>
       DOMAIN left = {}
  /\ main = "register_b" => DOMAIN left = {wa} /\ left[wa] = 1
  /\ main \in {"spawn", "wait_a", "run_a", "wait_b", "run_b", "join", "free",
               "returned"} =>
       /\ DOMAIN left = Watermarks
       /\ \A w \in Watermarks : left[w] = Share(AgentA, w) + Share(AgentB, w)

\* A step that leaves the counts alone, and ends no agent.
LEMMA CountFrame ==
  ASSUME NodeTypeOK, CountInv,
         UNCHANGED <<pipeline, milestone_consumers_remaining>>,
         \A n \in Branches : pc'[n] = "returned" <=> pc[n] = "returned",
         \/ main' = main
         \/ main' \in {"build", "check", "baseline", "allocate",
                       "register_a"} /\ main \in {"build", "check",
                                                  "baseline", "allocate"}
         \/ main' \in {"wait_a", "run_a", "wait_b", "run_b", "join", "free",
                       "returned"} /\ main \in {"spawn", "wait_a", "run_a",
                                                "wait_b", "run_b", "join",
                                                "free"}
         \/ main' \in {"unwind", "refused", "reported", "terminated"}
  PROVE  CountInv'
  <1>1. \A n \in Branches :
          required_prefix_tokens(n)' = required_prefix_tokens(n)
    BY DEF required_prefix_tokens
  <1>2. Watermarks' = Watermarks
    BY <1>1 DEF Watermarks
  <1>3. AgentA \in Branches /\ AgentB \in Branches
    BY HarnessNodes
  <1>4. \A w : Share(AgentA, w)' = Share(AgentA, w)
               /\ Share(AgentB, w)' = Share(AgentB, w)
    BY <1>1, <1>3 DEF Share
  <1> QED
    BY <1>1, <1>2, <1>3, <1>4 DEF CountInv

LEMMA RegisterCounts ==
  ASSUME NodeTypeOK, LocationInv, CountInv, UNCHANGED <<pipeline, pc>>,
         \/ RegisterAgent(AgentA, "register_a", "register_b")
         \/ RegisterAgent(AgentB, "register_b", "spawn")
  PROVE  CountInv'
  <1> DEFINE left == milestone_consumers_remaining
             wa == required_prefix_tokens(AgentA)
             wb == required_prefix_tokens(AgentB)
  <1>1. /\ wa' = wa /\ wb' = wb /\ Watermarks = {wa, wb}
        /\ Watermarks' = {wa, wb} /\ wa \in Nat /\ wb \in Nat
    BY HarnessNodes DEF required_prefix_tokens, Watermarks
  <1>2. CASE RegisterAgent(AgentA, "register_a", "register_b")
    <2>1. main = "register_a" /\ main' = "register_b" /\ DOMAIN left = {}
      BY <1>2 DEF RegisterAgent, MainGoto, CountInv
    <2>2. DOMAIN left' = {wa} /\ left'[wa] = 1
      BY <1>2, <2>1 DEF RegisterAgent, register_milestone_consumer, Put
    <2> QED
      BY <1>1, <2>1, <2>2 DEF CountInv
  <1>3. CASE RegisterAgent(AgentB, "register_b", "spawn")
    <2>1. /\ main = "register_b" /\ main' = "spawn"
          /\ DOMAIN left = {wa} /\ left[wa] = 1
      BY <1>3 DEF RegisterAgent, MainGoto, CountInv
    <2>2. /\ DOMAIN left' = {wa, wb}
          /\ wa # wb => left'[wa] = 1 /\ left'[wb] = 1
          /\ wa = wb => left'[wa] = 2
      BY <1>3, <2>1 DEF RegisterAgent, register_milestone_consumer, Put
    <2>3. /\ \A w : Share(AgentA, w)' = IF wa = w THEN 1 ELSE 0
          /\ \A w : Share(AgentB, w)' = IF wb = w THEN 1 ELSE 0
      BY <1>1, <2>1, HarnessNodes DEF LocationInv, Share
    <2>4. \A w \in {wa, wb} :
            left'[w] = Share(AgentA, w)' + Share(AgentB, w)'
      BY <1>1, <2>2, <2>3
    <2> QED
      BY <1>1, <2>1, <2>2, <2>4 DEF CountInv
  <1> QED
    BY <1>2, <1>3

LEMMA ReturnCounts ==
  ASSUME NodeTypeOK, CountInv, NEW n \in Branches,
         signal_milestone_consumed(required_prefix_tokens(n)),
         pc[n] = "signal", pc'[n] = "returned",
         \A m \in Branches \ {n} : pc'[m] = pc[m],
         UNCHANGED <<pipeline, main>>,
         main \in {"spawn", "wait_a", "run_a", "wait_b", "run_b", "join",
                   "free", "returned"}
  PROVE  CountInv'
  <1> DEFINE left == milestone_consumers_remaining
             v == required_prefix_tokens(n)
  <1>1. /\ Watermarks' = Watermarks /\ v \in Watermarks
        /\ v \in Nat \ {0}
        /\ \A m \in Branches :
             required_prefix_tokens(m)' = required_prefix_tokens(m)
    BY HarnessNodes DEF Watermarks, required_prefix_tokens
  <1>2. /\ DOMAIN left = Watermarks
        /\ \A w \in Watermarks : left[w] = Share(AgentA, w) + Share(AgentB, w)
    BY DEF CountInv
  <1>3. /\ DOMAIN left' = Watermarks
        /\ \A w \in Watermarks : left'[w] = IF w = v THEN left[w] - 1
                                                     ELSE left[w]
    BY <1>1, <1>2 DEF signal_milestone_consumed, consume
  <1>4. ASSUME NEW w \in Watermarks
        PROVE  left'[w] = Share(AgentA, w)' + Share(AgentB, w)'
    <2>1. ASSUME NEW m \in Branches
          PROVE  Share(m, w)' = IF m = n /\ w = v THEN 0 ELSE Share(m, w)
      BY <1>1, <2>1 DEF Share
    <2>2. v = w => Share(n, w) = 1
      BY DEF Share
    <2>3. \A m \in Branches : Share(m, w) \in {0, 1}
      BY DEF Share
    <2>4. n = AgentA \/ n = AgentB
      BY HarnessNodes
    <2>5. AgentA \in Branches /\ AgentB \in Branches /\ AgentA # AgentB
      BY HarnessNodes
    <2> QED
      BY <1>2, <1>3, <2>1, <2>2, <2>3, <2>4, <2>5
  <1> QED
    BY <1>1, <1>3, <1>4 DEF CountInv

LEMMA CountInductive ==
  ASSUME NodeTypeOK, LocationInv, CountInv, [Next]_vars
  PROVE  CountInv'
  <1>0. /\ Prefiller \in Node /\ Prefiller \in Prefillers
        /\ Node = {Prefiller, AgentA, AgentB}
        /\ AgentA # AgentB /\ Prefiller # AgentA /\ Prefiller # AgentB
        /\ Branches = {AgentA, AgentB} /\ UNCHANGED pipeline
    BY HarnessNodes, HarnessAssumption, HarnessStep
  <1>1. CASE UNCHANGED vars
    BY <1>0, <1>1, CountFrame DEF vars, stateVars, milestoneVars
  <1>2. CASE MainThread
    <2>1. \A n \in Branches : pc'[n] = "returned" <=> pc[n] = "returned"
      BY <1>0, <1>2, MainLeaves DEF Goto, NodeTypeOK, PcTypeOK
    <2>2. CASE \/ RegisterAgent(AgentA, "register_a", "register_b")
               \/ RegisterAgent(AgentB, "register_b", "spawn")
      BY <1>0, <2>2, RegisterCounts DEF RegisterAgent
    <2>3. CASE UNCHANGED milestone_consumers_remaining
               /\ ~RegisterAgent(AgentA, "register_a", "register_b")
               /\ ~RegisterAgent(AgentB, "register_b", "spawn")
      BY <1>0, <1>2, <2>1, <2>3, CountFrame
      DEF MainThread, BuildDocument, CheckDocument, RunBaseline,
          AllocatePrefix, StartPrefiller, WaitForAgent, LeaveAgent,
          JoinPrefiller, FreePool, Fails, MainGoto
    <2> QED
      BY <1>2, <2>2, <2>3
      DEF MainThread, BuildDocument, CheckDocument, RunBaseline,
          AllocatePrefix, StartPrefiller, WaitForAgent, LeaveAgent,
          JoinPrefiller, FreePool, Alone, stateVars, milestoneVars,
          wait_for_watermark, sleep_for_watermark
  <1>3. CASE PrefillNodeExecute(Prefiller) /\ UNCHANGED main
    BY <1>0, <1>3, PrefillLeaves, NodeMoves, CountFrame DEF milestoneVars
  <1>4. ASSUME NEW n \in Branches, AnalyticalNodeExecute(n), UNCHANGED main
        PROVE  CountInv'
    <2>1. /\ pc[n] \notin {"idle", "returned"}
          /\ \A m \in Branches \ {n} : pc'[m] = pc[m]
      BY <1>0, <1>4, NodeMoves
    <2>2. CASE pc'[n] # "returned" /\ UNCHANGED milestone_consumers_remaining
      BY <1>0, <1>4, <2>1, <2>2, CountFrame
    <2>3. CASE /\ pc[n] = "signal" /\ pc'[n] = "returned"
               /\ signal_milestone_consumed(required_prefix_tokens(n))
      <3>1. CASE main \in {"spawn", "wait_a", "run_a", "wait_b", "run_b",
                           "join", "free", "returned"}
        BY <1>0, <1>4, <2>1, <2>3, <3>1, ReturnCounts
      <3>2. CASE main \notin {"spawn", "wait_a", "run_a", "wait_b", "run_b",
                              "join", "free", "returned"}
        BY <1>0, <1>4, <2>1, <3>2 DEF LocationInv, CountInv
      <3> QED
        BY <3>1, <3>2
    <2> QED
      BY <1>4, <2>2, <2>3, BranchLeaves
  <1> QED
    BY <1>1, <1>2, <1>3, <1>4, HarnessStep

LEMMA CountCorrect == Spec => []CountInv
  <1>1. Init => CountInv
    BY DEF Init, StateInit, EmptyMap, CountInv
  <1>2. HarnessTypeOK /\ LocationInv /\ CountInv /\ [Next]_vars => CountInv'
    BY CountInductive DEF HarnessTypeOK
  <1> QED
    BY <1>1, <1>2, HarnessTypeCorrect, LocationCorrect, PTL DEF Spec

-----------------------------------------------------------------------------
(* What the agents fork and answer.                                        *)

Forking == {"materialize", "open", "prepare", "decode", "output"}
Answered == {"close", "signal", "returned"}

\* Every snapshot has the length it is filed under; so an agent forks the
\* length it asked for, and names that length in its answer.  A context of
\* its own is left behind only when it throws.
AgentInv ==
  /\ \A w \in DOMAIN prefix_snapshots : prefix_snapshots[w].seq_len = w
  /\ \A n \in Branches :
       /\ pc[n] \in Forking => fork_prefix_len[n] = required_prefix_tokens(n)
       /\ pc[n] \in Answered =>
            /\ n \in DOMAIN node_outputs
            /\ node_outputs[n].prefix = required_prefix_tokens(n)
       /\ n \in live_ctx =>
            pc[n] \in {"prepare", "decode", "output", "close", "thrown"}

\* The order of an agent's steps, and its context.
LEMMA AgentOrder ==
  ASSUME NodeTypeOK, NEW n \in Branches, AnalyticalNodeExecute(n)
  PROVE  /\ pc'[n] \in Forking \ {"materialize"} => pc[n] \in Forking
         /\ pc'[n] \in Answered \ {"close"} => pc[n] \in Answered
         /\ n \in live_ctx' =>
              \/ pc'[n] \in {"prepare", "decode", "output", "close", "thrown"}
              \/ n \in live_ctx /\ pc[n] \notin {"prepare", "decode",
                                                  "output", "close", "thrown"}
  <1>1. ASSUME NEW from, NEW to, Goto(n, from, to)
        PROVE  pc[n] = from /\ pc'[n] = to
    BY <1>1, GotoDiscipline DEF Branches
  <1> QED
    BY <1>1
    DEF AnalyticalNodeExecute, EnterBranch, ForkSnapshot, ForkCanonical,
        Materialize, OpenBranchContext, PrepareBatch, DecodeBranch,
        PublishOutput, CloseBranchContext, SignalConsumed, ThrowUnderGuard,
        llama_open, llama_free, llama_decode, engineVars, Forking, Answered

\* Nothing of this changes while no agent moves and no prefix is frozen.
LEMMA AgentFrame ==
  ASSUME NodeTypeOK, AgentInv,
         UNCHANGED <<pipeline, fork_prefix_len, node_outputs>>,
         \A n \in Branches : /\ n \in live_ctx' => n \in live_ctx
                             /\ \/ pc'[n] = pc[n]
                                \/ pc[n] = "idle" /\ pc'[n] = "execute",
         \A w \in DOMAIN prefix_snapshots' : prefix_snapshots'[w].seq_len = w
  PROVE  AgentInv'
  BY DEF AgentInv, Forking, Answered, required_prefix_tokens

LEMMA AgentStep ==
  ASSUME NodeTypeOK, AgentInv, NEW n \in Branches, AnalyticalNodeExecute(n),
         UNCHANGED pipeline
  PROVE  AgentInv'
  <1>0. /\ n \in Node /\ UNCHANGED prefix_snapshots
        /\ live_ctx' \ {n} = live_ctx \ {n}
        /\ \A m \in Branches \ {n} : pc'[m] = pc[m]
        /\ \A m \in Branches :
             required_prefix_tokens(m)' = required_prefix_tokens(m)
        /\ forks_at_watermark(n)
        /\ fork_prefix_len \in [Branches -> Nat]
    BY HarnessNodes, BranchLeaves, BranchDiscipline
    DEF Disciplined, Unpublished, required_prefix_tokens, NodeTypeOK,
        ForkTypeOK
  <1>1. ASSUME NEW m \in Branches
        PROVE  pc'[m] \in Forking =>
                 fork_prefix_len'[m] = required_prefix_tokens(m)
    <2>1. CASE m # n
      <3>1. fork_prefix_len'[m] = fork_prefix_len[m]
        BY <1>0, <2>1, BranchForks
      <3> QED
        BY <1>0, <1>1, <2>1, <3>1 DEF AgentInv
    <2>2. CASE m = n
      BY <1>0, <2>2, BranchForks, AgentOrder
      DEF AgentInv, Forking, has_prefix_snapshot
    <2> QED
      BY <2>1, <2>2
  <1>2. ASSUME NEW m \in Branches, pc'[m] \in Answered
        PROVE  /\ m \in DOMAIN node_outputs'
               /\ node_outputs'[m].prefix = required_prefix_tokens(m)
    <2>1. CASE UNCHANGED node_outputs /\ pc'[n] # "close"
      BY <1>0, <1>2, <2>1, AgentOrder DEF AgentInv, Answered
    <2>2. CASE /\ pc[n] = "output"
               /\ publish_output(n, [n_tok |-> pipeline.prompt[n],
                                     prefix |-> fork_prefix_len[n],
                                     watermark |-> required_prefix_tokens(n)])
      <3> DEFINE out == [n_tok |-> pipeline.prompt[n],
                         prefix |-> fork_prefix_len[n],
                         watermark |-> required_prefix_tokens(n)]
      <3>1. /\ DOMAIN node_outputs' = DOMAIN node_outputs \cup {n}
            /\ node_outputs'[n] = out
            /\ m \in DOMAIN node_outputs /\ m # n =>
                 node_outputs'[m] = node_outputs[m]
        <4> HIDE DEF out
        <4>1. node_outputs' = Put(node_outputs, n, out)
          BY <2>2 DEF publish_output, out
        <4> QED
          BY <4>1 DEF Put
      <3>2. out.prefix = required_prefix_tokens(n)
        BY <2>2 DEF AgentInv, Forking
      <3> QED
        BY <1>0, <1>2, <3>1, <3>2 DEF AgentInv
    <2> QED
      BY <2>1, <2>2, BranchAnswers
  <1>3. ASSUME NEW m \in Branches, m \in live_ctx'
        PROVE  pc'[m] \in {"prepare", "decode", "output", "close", "thrown"}
    BY <1>0, <1>3, AgentOrder DEF AgentInv
  <1> QED
    BY <1>0, <1>1, <1>2, <1>3 DEF AgentInv

\* A prefix is frozen under its own length.
LEMMA FrozenLength ==
  ASSUME NodeTypeOK, AgentInv, NEW p \in Prefillers, PrefillNodeExecute(p)
  PROVE  \A w \in DOMAIN prefix_snapshots' : prefix_snapshots'[w].seq_len = w
  <1>1. CASE UNCHANGED prefix_snapshots
    BY <1>1 DEF AgentInv
  <1>2. CASE Freezes(p)
    BY <1>2 DEF AgentInv, Freezes, Put
  <1> QED
    BY <1>1, <1>2, PrefillProgress DEF Quiet, Advances, Announces, Unpublished

LEMMA AgentInductive ==
  ASSUME NodeTypeOK, AgentInv, [Next]_vars
  PROVE  AgentInv'
  <1>0. /\ Prefiller \in Prefillers /\ Prefiller \in Node
        /\ Branches = {AgentA, AgentB} /\ Branches \subseteq Node
        /\ Prefiller \notin Branches
        /\ UNCHANGED pipeline
    BY HarnessNodes, HarnessStep
  <1>1. CASE UNCHANGED vars
    BY <1>0, <1>1, AgentFrame
    DEF vars, stateVars, exportVars, forkVars, engineVars, AgentInv
  <1>2. CASE MainThread
    <2>1. \A n \in Branches : \/ pc'[n] = pc[n]
                              \/ pc[n] = "idle" /\ pc'[n] = "execute"
      BY <1>0, <1>2, MainLeaves DEF Goto, NodeTypeOK, PcTypeOK
    <2> QED
      BY <1>0, <1>2, <2>1, MainLeaves, AgentFrame
      DEF Unpublished, forkVars, engineVars, AgentInv
  <1>3. CASE PrefillNodeExecute(Prefiller) /\ UNCHANGED forkVars
    BY <1>0, <1>3, PrefillLeaves, NodeMoves, FrozenLength, AgentFrame
    DEF forkVars
  <1>4. ASSUME NEW n \in Branches, AnalyticalNodeExecute(n)
        PROVE  AgentInv'
    BY <1>0, <1>4, AgentStep
  <1> QED
    BY <1>1, <1>2, <1>3, <1>4, HarnessStep

LEMMA AgentCorrect == Spec => []AgentInv
  <1>1. Init => AgentInv
    BY DEF Init, StateInit, EngineInit, EmptyMap, Branches, AgentInv, Forking,
           Answered
  <1>2. HarnessTypeOK /\ AgentInv /\ [Next]_vars => AgentInv'
    BY AgentInductive DEF HarnessTypeOK
  <1> QED
    BY <1>1, <1>2, HarnessTypeCorrect, PTL DEF Spec

-----------------------------------------------------------------------------
(* The checks before the run.                                              *)

\* What was checked before the first node starts holds from then on, of a
\* document that is no shorter than the file.
BudgetInv ==
  /\ pipeline.total <= doc_n
  /\ main \in {"baseline", "allocate", "register_a", "register_b", "spawn",
               "wait_a", "run_a", "wait_b"} => BudgetsFit
  /\ (\E n \in Node : pc[n] # "idle") => BudgetsFit

LEMMA BudgetInductive ==
  ASSUME NodeTypeOK, LocationInv, BudgetInv, [Next]_vars
  PROVE  BudgetInv'
  <1>0. /\ UNCHANGED <<pipeline, doc_n>>
        /\ Prefiller \in Node /\ Branches \subseteq Node
        /\ Branches = {AgentA, AgentB} /\ Prefiller \in Prefillers
        /\ BudgetsFit' = BudgetsFit
    BY HarnessNodes, HarnessStep DEF BudgetsFit, required_prefix_tokens
  <1>1. CASE UNCHANGED vars
    BY <1>0, <1>1 DEF vars, BudgetInv
  <1>2. CASE MainThread
    <2>1. main' \in {"baseline", "allocate", "register_a", "register_b",
                     "spawn", "wait_a", "run_a", "wait_b"} => BudgetsFit
      BY <1>2
      DEF MainThread, BuildDocument, CheckDocument, RunBaseline,
          AllocatePrefix, RegisterAgent, StartPrefiller, WaitForAgent,
          LeaveAgent, JoinPrefiller, FreePool, Fails, MainGoto, BudgetInv
    <2>2. UNCHANGED pc \/ main = "spawn" \/ main = "wait_a" \/ main = "wait_b"
      BY <1>2, MainLeaves DEF MainGoto
    <2>3. ASSUME NEW n \in Node, pc'[n] # "idle"
          PROVE  BudgetsFit
      BY <2>2, <2>3 DEF BudgetInv
    <2> QED
      BY <1>0, <2>1, <2>3 DEF BudgetInv
  <1>3. ASSUME NEW n \in Node, UNCHANGED main,
               \/ n \in Prefillers /\ PrefillNodeExecute(n)
               \/ n \in Branches /\ AnalyticalNodeExecute(n)
        PROVE  BudgetInv'
    BY <1>0, <1>3, NodeMoves DEF BudgetInv
  <1> QED
    BY <1>0, <1>1, <1>2, <1>3, HarnessStep

LEMMA BudgetInvCorrect == Spec => []BudgetInv
  <1>1. Init => BudgetInv
    <2> SUFFICES ASSUME Init PROVE BudgetInv
      OBVIOUS
    <2>1. pipeline.total \in Nat
      BY HarnessInitType, HarnessNodes DEF HarnessTypeOK
    <2>2. pipeline.total <= doc_n
      BY <2>1, BudgetAssumption DEF Init
    <2> QED
      BY <2>2 DEF Init, BudgetInv
  <1>2. HarnessTypeOK /\ LocationInv /\ BudgetInv /\ [Next]_vars => BudgetInv'
    BY BudgetInductive DEF HarnessTypeOK
  <1> QED
    BY <1>1, <1>2, HarnessTypeCorrect, LocationCorrect, PTL DEF Spec

\* The checks before the run are enough, for any watermarks, prompts and
\* context size: the prefiller does not find its document too long, the
\* reserve covering its stricter comparison, and no agent finds that its
\* prompt does not fit behind the prefix it forked.
THEOREM BudgetCorrect == Spec => []BudgetCheckSuffices
  <1>1. HarnessTypeOK /\ BudgetInv /\ AgentInv => BudgetCheckSuffices
    <2> SUFFICES ASSUME HarnessTypeOK, BudgetInv, AgentInv
                 PROVE  BudgetCheckSuffices
      OBVIOUS
    <2>1. /\ Prefiller \in Node /\ Branches \subseteq Node
          /\ pipeline.total \in Nat /\ doc_n \in Nat
      BY HarnessNodes DEF HarnessTypeOK
    <2>2. ASSUME pc[Prefiller] = "tokenize"
          PROVE  pipeline.total < NCtx
      <3>1. pipeline.total <= doc_n /\ doc_n + 0 + Headroom <= NCtx
        BY <2>1, <2>2 DEF BudgetInv, BudgetsFit, validate_context_budget
      <3> QED
        BY <2>1, <3>1, BudgetAssumption
    <2>3. ASSUME NEW n \in Branches, pc[n] = "prepare"
          PROVE  fits_context_budget(n)
      <3>1. fork_prefix_len[n] = required_prefix_tokens(n)
        BY <2>3 DEF AgentInv, Forking
      <3>2. BudgetsFit
        BY <2>1, <2>3 DEF BudgetInv
      <3> QED
        BY <3>1, <3>2 DEF BudgetsFit, fits_context_budget
    <2> QED
      BY <2>2, <2>3 DEF BudgetCheckSuffices
  <1> QED
    BY <1>1, HarnessTypeCorrect, BudgetInvCorrect, AgentCorrect, PTL

-----------------------------------------------------------------------------
(* What exit status 0 means.                                               *)

\* The prefiller publishes what it decodes, leaves its loop with the whole
\* document and frees its context before it returns; the pool is emptied on
\* the way to exit status 0.
EndInv ==
  /\ ProgressInv
  /\ pc[Prefiller] \notin {"commit", "publish", "thrown"} =>
       watermark = prefilled[Prefiller]
  /\ pc[Prefiller] \in {"free", "returned"} =>
       prefill_complete /\ prefilled[Prefiller] = pipeline.total
  /\ pc[Prefiller] = "returned" => Prefiller \notin live_ctx
  /\ main = "returned" => active_buffers = {}

\* The last two steps of the prefiller.
LEMMA PrefillFinishes ==
  ASSUME NodeTypeOK, NEW p \in Prefillers, PrefillNodeExecute(p),
         pc'[p] \in {"free", "returned"}
  PROVE  /\ UNCHANGED prefilled
         /\ \/ /\ pc'[p] = "free" /\ prefill_complete'
               /\ prefilled[p] >= pipeline.total
            \/ /\ pc[p] = "free" /\ UNCHANGED prefill_complete
               /\ p \notin live_ctx'
  <1>1. ASSUME NEW from, NEW to, Goto(p, from, to)
        PROVE  pc[p] = from /\ pc'[p] = to
    BY <1>1, GotoDiscipline, NodesAssumption
  <1>2. CompletePrefill(p) \/ FreePrefill(p)
    BY <1>1
    DEF PrefillNodeExecute, PrefillInit, PrefillTokenize, BeginChunk,
        DecodeChunk, CommitChunk, ExportMilestone, PublishMilestone,
        ReleaseContext, AwaitConsumers, ResumeLock, RestorePrefix, Throw,
        ThrowUnderGuard
  <1> QED
    BY <1>1, <1>2
    DEF CompletePrefill, FreePrefill, mark_prefill_complete, llama_free,
        stateVars

LEMMA PrefillKeepsEnd ==
  ASSUME NodeTypeOK, LocationInv, EndInv, PrefillNodeExecute(Prefiller),
         UNCHANGED <<pipeline, main>>
  PROVE  EndInv'
  <1>0. /\ Prefiller \in Prefillers /\ Prefiller \in Node
        /\ pipeline.total \in Nat /\ prefilled[Prefiller] \in Nat
    BY HarnessNodes DEF NodeTypeOK
  <1>1. ProgressInv'
    BY <1>0, PrefillKeepsProgress DEF EndInv
  <1>2. pc'[Prefiller] \notin {"commit", "publish", "thrown"} =>
          watermark' = prefilled'[Prefiller]
    BY <1>0, NodeMoves, PrefillProgress
    DEF EndInv, Quiet, Advances, Announces, Freezes, Unpublished
  <1>3. ASSUME pc'[Prefiller] \in {"free", "returned"}
        PROVE  /\ prefill_complete' /\ prefilled'[Prefiller] = pipeline.total
               /\ pc'[Prefiller] = "returned" => Prefiller \notin live_ctx'
    <2>1. prefilled[Prefiller] <= pipeline.total
      BY <1>0 DEF EndInv, ProgressInv
    <2> QED
      BY <1>0, <1>3, <2>1, PrefillFinishes DEF EndInv
  <1>4. main # "returned"
    BY <1>0, NodeMoves DEF LocationInv
  <1> QED
    BY <1>1, <1>2, <1>3, <1>4 DEF EndInv

LEMMA EndInductive ==
  ASSUME NodeTypeOK, LocationInv, EndInv, [Next]_vars
  PROVE  EndInv'
  <1>0. /\ Prefiller \in Prefillers /\ Prefiller \in Node
        /\ Branches \subseteq Node /\ Prefiller \notin Branches
        /\ Branches = {AgentA, AgentB} /\ Prefillers = {Prefiller}
        /\ UNCHANGED pipeline
    BY HarnessNodes, HarnessStep
  <1>1. CASE UNCHANGED vars
    <2>1. ProgressInv'
      BY <1>1, ProgressFrame
      DEF EndInv, vars, stateVars, exportVars, Unpublished
    <2> QED
      BY <1>1, <2>1 DEF EndInv, vars, stateVars, engineVars
  <1>2. CASE MainThread
    <2>1. \/ pc'[Prefiller] = pc[Prefiller]
          \/ pc[Prefiller] = "idle" /\ pc'[Prefiller] = "execute"
      BY <1>0, <1>2, MainLeaves DEF Goto, NodeTypeOK, PcTypeOK
    <2>2. ProgressInv'
      BY <1>0, <1>2, <2>1, MainLeaves, ProgressFrame DEF EndInv
    <2>3. main' = "returned" => active_buffers' = {}
      BY <1>2
      DEF MainThread, BuildDocument, CheckDocument, RunBaseline,
          AllocatePrefix, RegisterAgent, StartPrefiller, WaitForAgent,
          LeaveAgent, JoinPrefiller, FreePool, free_all, Fails, MainGoto
    <2> QED
      BY <1>0, <1>2, <2>1, <2>2, <2>3, MainLeaves
      DEF EndInv, Unpublished, engineVars
  <1>3. CASE PrefillNodeExecute(Prefiller) /\ UNCHANGED main
    BY <1>0, <1>3, PrefillKeepsEnd
  <1>4. ASSUME NEW n \in Branches, AnalyticalNodeExecute(n),
               UNCHANGED <<prefilled, main>>
        PROVE  EndInv'
    <2>1. pc'[Prefiller] = pc[Prefiller] /\ pc[n] # "returned"
      BY <1>0, <1>4, NodeMoves
    <2>2. ProgressInv'
      BY <1>0, <1>4, <2>1, BranchLeaves, ProgressFrame DEF EndInv
    <2>3. main # "returned"
      BY <1>0, <1>4, <2>1 DEF LocationInv
    <2>4. Prefiller \in live_ctx' <=> Prefiller \in live_ctx
      BY <1>0, <1>4, BranchLeaves
    <2> QED
      BY <1>0, <1>4, <2>1, <2>2, <2>3, <2>4, BranchLeaves
      DEF EndInv, Unpublished
  <1> QED
    BY <1>1, <1>2, <1>3, <1>4, HarnessStep

LEMMA EndCorrect == Spec => []EndInv
  <1>1. Init => EndInv
    <2> SUFFICES ASSUME Init PROVE EndInv
      OBVIOUS
    <2>1. Prefiller \in Prefillers /\ Prefiller \in Node
          /\ Prefillers \subseteq Node /\ pipeline.total \in Nat
      BY HarnessInitType, HarnessNodes, NodesAssumption DEF HarnessTypeOK
    <2> QED
      BY <2>1
      DEF Init, StateInit, EngineInit, EmptyMap, EndInv, ProgressInv, Lag
  <1>2. HarnessTypeOK /\ LocationInv /\ EndInv /\ [Next]_vars => EndInv'
    BY EndInductive DEF HarnessTypeOK
  <1> QED
    BY <1>1, <1>2, HarnessTypeCorrect, LocationCorrect, PTL DEF Spec

\* Exit status 0 means that the run took place, whatever the watermarks of
\* the agents and even if they are one: at that point every node has
\* returned, which for the prefiller means the whole document published, for
\* an agent an answer from exactly its prefix and a share of its milestone
\* used up, and no share, context or buffer is left.
THEOREM ReturnCorrect == Spec => []ReturnMeansWholeRun
  <1>1. HarnessTypeOK /\ LocationInv /\ CountInv /\ AgentInv /\ EndInv
          => ReturnMeansWholeRun
    <2> SUFFICES ASSUME HarnessTypeOK, LocationInv, CountInv, AgentInv, EndInv,
                        main = "returned"
                 PROVE  /\ prefill_complete /\ watermark = pipeline.total
                        /\ \A n \in Branches :
                             /\ n \in DOMAIN node_outputs
                             /\ node_outputs[n].prefix =
                                  required_prefix_tokens(n)
                             /\ milestone_consumed(required_prefix_tokens(n))
                        /\ live_ctx = {} /\ active_buffers = {}
      BY DEF ReturnMeansWholeRun
    <2>1. /\ Node = {Prefiller, AgentA, AgentB} /\ Branches = {AgentA, AgentB}
          /\ \A n \in Node : pc[n] = "returned"
      BY HarnessNodes, HarnessAssumption DEF HarnessTypeOK, LocationInv
    <2>2. prefill_complete /\ watermark = pipeline.total
      BY <2>1 DEF EndInv
    <2>3. ASSUME NEW n \in Branches
          PROVE  /\ n \in DOMAIN node_outputs
                 /\ node_outputs[n].prefix = required_prefix_tokens(n)
                 /\ milestone_consumed(required_prefix_tokens(n))
      <3>1. /\ n \in DOMAIN node_outputs
            /\ node_outputs[n].prefix = required_prefix_tokens(n)
        BY <2>1, <2>3 DEF AgentInv, Answered
      <3>2. milestone_consumers_remaining[required_prefix_tokens(n)] = 0
        BY <2>1, <2>3 DEF CountInv, Share, Watermarks
      <3> QED
        BY <3>1, <3>2 DEF milestone_consumed
    <2>4. live_ctx = {}
      BY <2>1 DEF EndInv, AgentInv, HarnessTypeOK, NodeTypeOK, EngineTypeOK
    <2> QED
      BY <2>2, <2>3, <2>4 DEF EndInv
  <1> QED
    BY <1>1, HarnessTypeCorrect, LocationCorrect, CountCorrect, AgentCorrect,
       EndCorrect, PTL

=============================================================================
