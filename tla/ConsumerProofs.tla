--------------------------- MODULE ConsumerProofs --------------------------
(***************************************************************************)
(* The milestone barrier and what the end of a run means: the consumers of *)
(* a milestone are counted exactly, the prefiller does not pass it before  *)
(* they are done, every chunk boundary that a branch asked for is frozen,  *)
(* and a settled promise says truly whether the branch published.          *)
(***************************************************************************)
EXTENDS Drivers, Wiring, SafetyProofs

-----------------------------------------------------------------------------
(* Registration comes before everything else.                              *)

RegisteredInv ==
  /\ IsFiniteSet(registered)
  /\ main = "register" => \A n \in Node : pc[n] = "idle"
  /\ main # "register" => registered = Node
  /\ \A n \in registered :
       required_prefix_tokens(n) > 0 =>
         /\ required_prefix_tokens(n) \in snapshot_milestones
         /\ required_prefix_tokens(n) \in DOMAIN milestone_consumers_remaining

Consumed(n) == pc[n] \in {"returned", "done"}

\* A worker does not register milestones, and it gives up its share of a
\* count in the step that takes it to the end of its work, and only then.
LEMMA WorkerConsumes ==
  ASSUME TypeOK, NEW n \in Node, Worker(n)
  PROVE  /\ UNCHANGED snapshot_milestones
         /\ DOMAIN milestone_consumers_remaining' =
              DOMAIN milestone_consumers_remaining
         /\ \/ /\ UNCHANGED milestone_consumers_remaining
               /\ n \in Prefillers \/ (Consumed(n)' <=> Consumed(n))
            \/ /\ signal_milestone_consumed(required_prefix_tokens(n))
               /\ ~Consumed(n) /\ Consumed(n)'
  <1>1. ASSUME NEW from, NEW to, Goto(n, from, to)
        PROVE  pc[n] = from /\ pc'[n] = to
    BY <1>1 DEF Goto, TypeOK, NodeTypeOK, PcTypeOK
  <1>2. CASE Gate(n) \/ Settle(n)
    BY <1>1, <1>2
    DEF Gate, Settle, UnknownDependency, WaitWatermark, WaitCompletion,
        PassCompletion, AtDependency, BeginExecute, Fulfil, SettleAs,
        CatchException, wait_for_watermark, sleep_for_watermark,
        signal_milestone_consumed, consume, stateVars, milestoneVars, Consumed
  <1>3. CASE n \in Prefillers /\ PrefillNodeExecute(n)
    BY <1>3, PrefillLeaves DEF milestoneVars
  <1>4. CASE n \in Branches /\ AnalyticalNodeExecute(n)
    BY <1>4, NodeType, BranchLeaves, ExecuteMoves
    DEF BranchPC, Branches, Consumed
  <1> QED
    BY <1>2, <1>3, <1>4 DEF Worker, ExecuteStep

\* The calling thread registers, or leaves milestones and workers alone but
\* for launching one.
LEMMA MainConsumes ==
  ASSUME TypeOK, MainThread
  PROVE  \/ \E n \in Node : RegisterMilestone(n)
         \/ /\ UNCHANGED <<milestoneVars, registered>>
            /\ \A n \in Node : \/ pc'[n] = pc[n]
                               \/ pc[n] = "idle" /\ pc'[n] = "gate"
            /\ main = "register" => registered = Node /\ UNCHANGED pc
            /\ main' # "register"
  BY DEF MainThread, RegisterMilestone, SpawnWorker, BeginSpawn, SpawnFails,
         BeginJoin, JoinWorkers, Leave, FreePool, Goto, stateVars, TypeOK,
         NodeTypeOK, PcTypeOK

LEMMA RegisteredInductive ==
  ASSUME TypeOK, RegisteredInv, [Next]_vars
  PROVE  RegisteredInv'
  <1>0. UNCHANGED pipeline
    BY PipelineFixed
  <1>1. CASE UNCHANGED vars \/ Terminated
    BY <1>1 DEF vars, Terminated, mainVars, stateVars, milestoneVars,
                RegisteredInv, required_prefix_tokens
  <1>2. ASSUME NEW n \in Node, Worker(n)
        PROVE  RegisteredInv'
    <2>1. main # "register"
      BY <1>2, WorkerMoves DEF RegisteredInv
    <2>2. UNCHANGED <<main, registered, snapshot_milestones>>
      BY <1>2, WorkerLeavesMain, WorkerConsumes DEF mainVars
    <2> QED
      BY <1>0, <1>2, <2>1, <2>2, WorkerConsumes
      DEF RegisteredInv, required_prefix_tokens
  <1>3. ASSUME NEW n \in Node, RegisterMilestone(n)
        PROVE  RegisteredInv'
    <2>1. /\ UNCHANGED <<pc, main>> /\ main = "register"
          /\ registered' = registered \cup {n}
      BY <1>3 DEF RegisterMilestone
    <2>2. IsFiniteSet(registered')
      BY <2>1, FS_AddElement DEF RegisteredInv
    <2>3. /\ snapshot_milestones \subseteq snapshot_milestones'
          /\ DOMAIN milestone_consumers_remaining
               \subseteq DOMAIN milestone_consumers_remaining'
          /\ required_prefix_tokens(n) > 0 =>
               /\ required_prefix_tokens(n) \in snapshot_milestones'
               /\ required_prefix_tokens(n)
                    \in DOMAIN milestone_consumers_remaining'
      BY <1>3 DEF RegisterMilestone, register_snapshot_milestone,
                  register_milestone_consumer, milestoneVars, Put
    <2> QED
      BY <1>0, <2>1, <2>2, <2>3 DEF RegisteredInv, required_prefix_tokens
  <1>4. CASE MainThread
    BY <1>0, <1>3, <1>4, MainConsumes
    DEF RegisteredInv, required_prefix_tokens, milestoneVars
  <1> QED
    BY <1>1, <1>2, <1>4 DEF Next

LEMMA InitRegistered == Init => RegisteredInv
  BY FS_EmptySet DEF Init, RegisteredInv

\* Every milestone is registered before the first worker is launched.
LEMMA RegisteredCorrect == Spec => []RegisteredInv
  <1>1. TypeOK /\ RegisteredInv /\ [Next]_vars => RegisteredInv'
    BY RegisteredInductive
  <1> QED
    BY <1>1, InitRegistered, TypeCorrect, PTL DEF Spec

-----------------------------------------------------------------------------
(* The count of a milestone.                                               *)

\* A step that consumes nothing, or a registration already seen.
LEMMA CountFrame ==
  ASSUME TypeOK, ConsumersCounted,
         UNCHANGED <<pipeline, registered, milestone_consumers_remaining>>,
         \A n \in Node :
           required_prefix_tokens(n) > 0 => (Consumed(n)' <=> Consumed(n))
  PROVE  ConsumersCounted'
  <1>1. registered \subseteq Node
    BY DEF TypeOK, NodeTypeOK, MainTypeOK
  <1>2. ASSUME NEW w
        PROVE  Unconsumed(w)' = Unconsumed(w)
    BY <1>1 DEF Unconsumed, Consumed, required_prefix_tokens
  <1> QED
    BY <1>2 DEF ConsumersCounted

LEMMA RegisterCounts ==
  ASSUME TypeOK, RegisteredInv, ConsumersCounted, UNCHANGED pipeline,
         NEW n \in Node, RegisterMilestone(n)
  PROVE  ConsumersCounted'
  <1> DEFINE w == required_prefix_tokens(n)
             counts == milestone_consumers_remaining
  <1>1. /\ UNCHANGED pc /\ registered' = registered \cup {n}
        /\ n \notin registered
        /\ pc[n] = "idle"
    BY DEF RegisterMilestone, RegisteredInv
  <1>2. ASSUME NEW v \in Int, v # w \/ ~(w > 0)
        PROVE  Unconsumed(v)' = Unconsumed(v)
    BY <1>1, <1>2 DEF Unconsumed, required_prefix_tokens
  <1>3. CASE ~(w > 0)
    BY <1>2, <1>3
    DEF RegisterMilestone, milestoneVars, ConsumersCounted, TypeOK, NodeTypeOK,
        StateTypeOK
  <1>4. CASE w > 0
    <2>1. /\ DOMAIN counts' = DOMAIN counts \cup {w}
          /\ \A v \in DOMAIN counts : v # w => counts'[v] = counts[v]
          /\ counts'[w] = 1 + IF w \in DOMAIN counts THEN counts[w] ELSE 0
      BY <1>4 DEF RegisterMilestone, register_milestone_consumer, Put
    <2>2. IsFiniteSet(Unconsumed(w)) /\ n \notin Unconsumed(w)
      <3>1. Unconsumed(w) \subseteq registered
        BY DEF Unconsumed
      <3> QED
        BY <1>1, <3>1, FS_Subset DEF RegisteredInv
    <2>3. Unconsumed(w)' = Unconsumed(w) \cup {n}
      BY <1>1, <1>4 DEF Unconsumed, required_prefix_tokens
    <2>4. Cardinality(Unconsumed(w)') = Cardinality(Unconsumed(w)) + 1
      BY <2>2, <2>3, FS_AddElement
    <2>5. w \notin DOMAIN counts => Cardinality(Unconsumed(w)) = 0
      BY FS_EmptySet DEF RegisteredInv, Unconsumed
    <2>6. counts'[w] = Cardinality(Unconsumed(w)')
      <3>1. Cardinality(Unconsumed(w)) \in Nat
        BY <2>2, FS_CardinalityType
      <3> QED
        BY <2>1, <2>4, <2>5, <3>1 DEF ConsumersCounted
    <2>7. DOMAIN counts \subseteq Int /\ w' = w
      BY DEF TypeOK, NodeTypeOK, StateTypeOK, required_prefix_tokens
    <2> SUFFICES ASSUME NEW v \in DOMAIN counts'
                 PROVE  counts'[v] = Cardinality(Unconsumed(v)')
      BY DEF ConsumersCounted
    <2>8. CASE v = w
      BY <2>6, <2>7, <2>8
    <2>9. CASE v # w
      BY <1>2, <2>1, <2>7, <2>9 DEF ConsumersCounted
    <2> QED
      BY <2>8, <2>9
  <1> QED
    BY <1>3, <1>4

LEMMA SignalCounts ==
  ASSUME TypeOK, RegisteredInv, ConsumersCounted, NEW n \in Node, Worker(n),
         UNCHANGED pipeline,
         signal_milestone_consumed(required_prefix_tokens(n)),
         ~Consumed(n), Consumed(n)'
  PROVE  ConsumersCounted'
  <1> DEFINE w == required_prefix_tokens(n)
             counts == milestone_consumers_remaining
  <1>1. /\ \A m \in Node \ {n} : pc'[m] = pc[m]
        /\ UNCHANGED registered /\ registered = Node
    BY WorkerMoves, WorkerLeavesMain DEF mainVars, RegisteredInv
  <1>2. ASSUME NEW v, v # w \/ ~(w > 0)
        PROVE  Unconsumed(v)' = Unconsumed(v)
    BY <1>1, <1>2 DEF Unconsumed, required_prefix_tokens
  <1>3. CASE ~(w > 0)
    BY <1>2, <1>3
    DEF signal_milestone_consumed, consume, ConsumersCounted
  <1>4. CASE w > 0
    <2>1. w \in DOMAIN counts
      BY <1>1, <1>4 DEF RegisteredInv
    <2>2. /\ DOMAIN counts' = DOMAIN counts
          /\ \A v \in DOMAIN counts : v # w => counts'[v] = counts[v]
          /\ counts'[w] = counts[w] - 1
      BY <1>4, <2>1
      DEF signal_milestone_consumed, consume, TypeOK, NodeTypeOK, StateTypeOK
    <2>3. IsFiniteSet(Unconsumed(w)) /\ n \in Unconsumed(w)
      <3>1. Unconsumed(w) \subseteq registered
        BY DEF Unconsumed
      <3> QED
        BY <1>1, <1>4, <3>1, FS_Subset
        DEF RegisteredInv, Unconsumed, Consumed
    <2>4. Unconsumed(w)' = Unconsumed(w) \ {n}
      BY <1>1, <1>4 DEF Unconsumed, Consumed, required_prefix_tokens
    <2>5. Cardinality(Unconsumed(w)') = Cardinality(Unconsumed(w)) - 1
      BY <2>3, <2>4, FS_RemoveElement
    <2>6. w' = w
      BY DEF required_prefix_tokens
    <2> SUFFICES ASSUME NEW v \in DOMAIN counts'
                 PROVE  counts'[v] = Cardinality(Unconsumed(v)')
      BY DEF ConsumersCounted
    <2>7. CASE v = w
      <3>1. Cardinality(Unconsumed(w)) \in Nat
        BY <2>3, FS_CardinalityType
      <3> QED
        BY <2>1, <2>2, <2>5, <2>6, <2>7, <3>1 DEF ConsumersCounted
    <2>8. CASE v # w
      BY <1>2, <2>2, <2>8 DEF ConsumersCounted
    <2> QED
      BY <2>7, <2>8
  <1> QED
    BY <1>3, <1>4

\* The count of a milestone is the number of its branches that have not
\* ended: whether a branch returns or throws, it signals once.
THEOREM CountCorrect == Spec => []ConsumersCounted
  <1>1. Init => ConsumersCounted
    BY DEF Init, StateInit, EmptyMap, ConsumersCounted
  <1>2. TypeOK /\ RegisteredInv /\ ConsumersCounted /\ [Next]_vars
          => ConsumersCounted'
    <2> SUFFICES ASSUME TypeOK, RegisteredInv, ConsumersCounted, [Next]_vars
                 PROVE  ConsumersCounted'
      OBVIOUS
    <2>0. /\ UNCHANGED pipeline
          /\ \A p \in Prefillers : ~(required_prefix_tokens(p) > 0)
      BY PipelineFixed, NodeType, PipelineType
    <2>1. CASE UNCHANGED vars \/ Terminated
      BY <2>0, <2>1, CountFrame
      DEF vars, Terminated, mainVars, stateVars, milestoneVars, Consumed
    <2>2. CASE MainThread
      BY <2>0, <2>2, MainConsumes, RegisterCounts, CountFrame
      DEF milestoneVars, Consumed
    <2>3. ASSUME NEW n \in Node, Worker(n)
          PROVE  ConsumersCounted'
      <3>1. UNCHANGED registered /\ \A m \in Node \ {n} : pc'[m] = pc[m]
        BY <2>3, WorkerMoves, WorkerLeavesMain DEF mainVars
      <3> QED
        BY <2>0, <2>3, <3>1, WorkerConsumes, SignalCounts, CountFrame
        DEF Consumed
    <2> QED
      BY <2>1, <2>2, <2>3 DEF Next
  <1> QED
    BY <1>1, <1>2, TypeCorrect, RegisteredCorrect, PTL DEF Spec

-----------------------------------------------------------------------------
(* The barrier at a milestone.                                             *)

\* The prefiller is past milestone w: it decodes, or may go on to, beyond w.
Past(p, w) ==
  prefilled[p] > w \/ pc[p] \in {"resume", "restore", "loop", "decode"}

BarrierInv ==
  /\ DOMAIN prefix_snapshots \subseteq snapshot_milestones
  /\ \A p \in Prefillers :
       /\ pc[p] \in {"idle", "gate", "execute", "tokenize"} => prefilled[p] = 0
       /\ pc[p] = "publish" => prefilled[p] \in snapshot_milestones
       /\ \A n \in Branches :
            LET w == required_prefix_tokens(n) IN
            w \in DOMAIN prefix_snapshots /\ Past(p, w) => Consumed(n)

\* A step in which no prefiller moves on keeps the barrier, because a branch
\* that has consumed stays so.
LEMMA BarrierFrame ==
  ASSUME BarrierInv,
         UNCHANGED <<pipeline, prefilled, prefix_snapshots>>,
         snapshot_milestones \subseteq snapshot_milestones',
         \A n \in Branches : Consumed(n) => Consumed(n)',
         \A p \in Prefillers :
           \/ pc'[p] = pc[p]
           \/ pc[p] = "idle" /\ pc'[p] = "gate"
           \/ pc[p] = "gate" /\ pc'[p] = "execute"
           \/ pc'[p] \in {"done", "abandoned"}
  PROVE  BarrierInv'
  BY DEF BarrierInv, Past, required_prefix_tokens

\* An empty count means that every branch of the milestone has ended.
LEMMA EmptyCount ==
  ASSUME TypeOK, RegisteredInv, ConsumersCounted, registered = Node,
         NEW n \in Node, required_prefix_tokens(n) > 0,
         milestone_consumed(required_prefix_tokens(n))
  PROVE  Consumed(n)
  <1> DEFINE w == required_prefix_tokens(n)
  <1>1. w \in DOMAIN milestone_consumers_remaining
    BY DEF RegisteredInv
  <1>2. IsFiniteSet(Unconsumed(w))
    <2>1. Unconsumed(w) \subseteq registered
      BY DEF Unconsumed
    <2> QED
      BY <2>1, FS_Subset DEF RegisteredInv
  <1>3. Cardinality(Unconsumed(w)) = 0
    <2>1. Cardinality(Unconsumed(w)) <= 0
      BY <1>1 DEF ConsumersCounted, milestone_consumed
    <2> QED
      BY <1>2, <2>1, FS_CardinalityType
  <1>4. Unconsumed(w) = {}
    BY <1>2, <1>3, FS_EmptySet
  <1> QED
    BY <1>4 DEF Unconsumed, Consumed

LEMMA PrefillBarrier ==
  ASSUME TypeOK, ProgressInv, RegisteredInv, ConsumersCounted, BarrierInv,
         registered = Node, UNCHANGED pipeline,
         NEW p \in Prefillers, PrefillNodeExecute(p)
  PROVE  BarrierInv'
  <1>1. \A q \in Prefillers : q = p
    BY NodesAssumption
  <1>2. \A n \in Branches : pc'[n] = pc[n]
    BY WorkerMoves, NodesAssumption, NodeType, PrefillDiscipline
    DEF Branches, Disciplined
  <1>3. /\ prefilled[p] \in Nat /\ prefilled \in [Prefillers -> Nat]
        /\ DOMAIN prefix_snapshots \subseteq Nat \ {0}
        /\ snapshot_milestones \subseteq Nat \ {0}
        /\ \A w \in DOMAIN prefix_snapshots : Lag(w, p)
    BY DEF TypeOK, NodeTypeOK, StateTypeOK, ProgressInv, BarrierInv
  <1>4. SUFFICES
          /\ DOMAIN prefix_snapshots' \subseteq snapshot_milestones
          /\ pc'[p] = "tokenize" => prefilled'[p] = 0
          /\ \A n \in Branches :
               LET w == required_prefix_tokens(n) IN
               w \in DOMAIN prefix_snapshots' /\ Past(p, w)' => Consumed(n)
    BY <1>1, <1>2, NodeType, PrefillOrder
    DEF BarrierInv, Past, Consumed, required_prefix_tokens
  <1>5. pc'[p] = "tokenize" => prefilled'[p] = 0
    BY NodeType, PrefillOrder DEF BarrierInv
  <1>6. ASSUME NEW n \in Branches,
               required_prefix_tokens(n) \in DOMAIN prefix_snapshots,
               pc[p] = "tokenize"
        PROVE  FALSE
    BY <1>3, <1>6 DEF BarrierInv, Lag
  <1>7. CASE Quiet(p)
    <2>1. ASSUME NEW n \in Branches,
                 required_prefix_tokens(n) \in DOMAIN prefix_snapshots,
                 Past(p, required_prefix_tokens(n))',
                 ~Past(p, required_prefix_tokens(n))
          PROVE  Consumed(n)
      <3>1. UNCHANGED <<pipeline, prefilled>>
            /\ ~(prefilled[p] > required_prefix_tokens(n))
        BY <1>7, <2>1 DEF Quiet, Past
      <3>2. pc'[p] = "resume" \/ (pc'[p] = "loop" /\ pc[p] \in {"tokenize", "commit"})
        BY <2>1, <3>1, NodeType, PrefillOrder DEF Past, required_prefix_tokens
      <3>3. required_prefix_tokens(n) = prefilled[p]
        BY <1>3, <2>1, <3>1 DEF Lag
      <3>4. pc[p] # "commit"
        BY <1>3, <2>1, <3>1, <3>3 DEF Lag
      <3>5. pc'[p] = "resume"
        BY <1>6, <2>1, <3>2, <3>4
      <3> QED
        BY <1>3, <2>1, <3>3, <3>5, EmptyCount, NodeType, PrefillOrder
        DEF Branches
    <2> QED
      BY <1>4, <1>5, <1>7, <2>1 DEF Quiet, Unpublished, BarrierInv
  <1>8. CASE Advances(p)
    <2>1. \A n \in Branches :
            required_prefix_tokens(n) \in DOMAIN prefix_snapshots => Consumed(n)
      BY <1>8 DEF Advances, BarrierInv, Past
    <2> QED
      BY <1>4, <1>8, <2>1 DEF Advances, Unpublished, BarrierInv
  <1>9. CASE Announces(p)
    <2>1. \A w \in DOMAIN prefix_snapshots : Past(p, w)
      BY <1>3, <1>9 DEF Announces, Lag, Past
    <2> QED
      BY <1>4, <1>9, <2>1 DEF Announces, BarrierInv
  <1>10. CASE Freezes(p)
    <2>1. /\ DOMAIN prefix_snapshots' =
               DOMAIN prefix_snapshots \cup {prefilled[p]}
          /\ pc'[p] = "release" /\ UNCHANGED prefilled
          /\ prefilled[p] \in snapshot_milestones
      BY <1>10 DEF Freezes, Put, BarrierInv
    <2>2. \A n \in Branches :
            Past(p, required_prefix_tokens(n))' =>
              prefilled[p] > required_prefix_tokens(n)
      BY <2>1 DEF Past, required_prefix_tokens
    <2>3. \A n \in Branches :
            /\ required_prefix_tokens(n) \in DOMAIN prefix_snapshots'
            /\ prefilled[p] > required_prefix_tokens(n)
            => required_prefix_tokens(n) \in DOMAIN prefix_snapshots
      BY <1>3, <2>1
    <2> QED
      BY <1>4, <2>1, <2>2, <2>3 DEF BarrierInv, Past
  <1> QED
    BY <1>7, <1>8, <1>9, <1>10, NodeType, PrefillProgress

LEMMA BarrierInductive ==
  ASSUME TypeOK, ProgressInv, RegisteredInv, ConsumersCounted, BarrierInv,
         [Next]_vars
  PROVE  BarrierInv'
  <1>0. /\ UNCHANGED pipeline
        /\ \A p \in Prefillers : p \in Node /\ p \notin Branches
    BY PipelineFixed, NodesAssumption DEF Branches
  <1>1. CASE UNCHANGED vars \/ Terminated
    BY <1>1, BarrierFrame
    DEF vars, Terminated, stateVars, exportVars, milestoneVars, Consumed
  <1>2. CASE MainThread
    <2>1. UNCHANGED <<prefilled, prefix_snapshots>>
      BY <1>2, OthersDoNotPublish
      DEF MainThread, RegisterMilestone, SpawnWorker, BeginSpawn, SpawnFails,
          BeginJoin, JoinWorkers, Leave, FreePool, Unpublished
    <2>2. snapshot_milestones \subseteq snapshot_milestones'
      BY <1>2, MainConsumes
      DEF milestoneVars, RegisterMilestone, register_snapshot_milestone
    <2>3. \A n \in Node : pc'[n] = pc[n] \/ (pc[n] = "idle" /\ pc'[n] = "gate")
      BY <1>2, MainConsumes DEF RegisterMilestone
    <2> QED
      BY <1>0, <2>1, <2>2, <2>3, BarrierFrame DEF Branches, Consumed
  <1>3. ASSUME NEW n \in Node, Worker(n)
        PROVE  BarrierInv'
    <2>1. /\ registered = Node
          /\ UNCHANGED snapshot_milestones
          /\ \A m \in Node \ {n} : pc'[m] = pc[m]
          /\ \A m \in Branches : Consumed(m) => Consumed(m)'
      BY <1>0, <1>3, WorkerMoves, WorkerConsumes
      DEF RegisteredInv, Consumed, Branches
    <2>2. CASE n \in Prefillers /\ PrefillNodeExecute(n)
      BY <1>0, <2>1, <2>2, PrefillBarrier
    <2>3. CASE Gate(n) \/ Settle(n)
      <3>1. UNCHANGED <<prefilled, prefix_snapshots>>
        BY <2>3, OthersDoNotPublish
        DEF Gate, Settle, UnknownDependency, WaitWatermark, WaitCompletion,
            PassCompletion, BeginExecute, Fulfil, SettleAs, CatchException,
            Unpublished
      <3>2. \/ pc'[n] = pc[n]
            \/ pc[n] = "gate" /\ pc'[n] = "execute"
            \/ pc'[n] \in {"done", "abandoned"}
        BY <2>3
        DEF Gate, Settle, UnknownDependency, WaitWatermark, WaitCompletion,
            PassCompletion, BeginExecute, Fulfil, SettleAs, CatchException,
            Goto, TypeOK, NodeTypeOK, PcTypeOK
      <3> QED
        BY <1>0, <2>1, <3>1, <3>2, BarrierFrame
    <2>4. CASE n \in Branches /\ AnalyticalNodeExecute(n) /\ UNCHANGED prefilled
      BY <1>0, <2>1, <2>4, OthersDoNotPublish, BarrierFrame DEF Unpublished
    <2> QED
      BY <1>3, <2>2, <2>3, <2>4 DEF Worker, ExecuteStep
  <1> QED
    BY <1>1, <1>2, <1>3 DEF Next

LEMMA BarrierCorrect == Spec => []BarrierInv
  <1>1. Init => BarrierInv
    BY NodesAssumption DEF Init, StateInit, EmptyMap, BarrierInv
  <1>2. /\ TypeOK /\ ProgressInv /\ RegisteredInv /\ ConsumersCounted
        /\ BarrierInv /\ [Next]_vars
        => BarrierInv'
    BY BarrierInductive
  <1> QED
    BY <1>1, <1>2, TypeCorrect, ProgressCorrect, RegisteredCorrect,
       CountCorrect, PTL DEF Spec

\* The prefiller goes on past a milestone, with a context of its own again,
\* only when every branch that forks there has ended, however many they are
\* and whether they returned or threw.
THEOREM WaitCorrect == Spec => []PrefillWaitsForConsumers
  <1>1. BarrierInv => PrefillWaitsForConsumers
    BY DEF BarrierInv, PrefillWaitsForConsumers, Past, Consumed
  <1> QED
    BY <1>1, BarrierCorrect, PTL

-----------------------------------------------------------------------------
(* The contexts of the prefiller and of the branches of a milestone.       *)

\* While the prefiller has a context, every branch of a published milestone
\* has ended, except between the publication and the release.
OverlapInv ==
  \A p \in Prefillers, n \in Branches :
    /\ p \in live_ctx /\ pc[p] # "release"
    /\ has_prefix_snapshot(required_prefix_tokens(n))
    => Consumed(n)

\* The prefiller opens a context before the first milestone, or past one.
LEMMA PrefillOverlap ==
  ASSUME TypeOK, ProgressInv, BarrierInv, OverlapInv, UNCHANGED pipeline,
         NEW p \in Prefillers, PrefillNodeExecute(p)
  PROVE  OverlapInv'
  <1>0. /\ p \in Node /\ \A q \in Prefillers : q = p
        /\ \A n \in Branches : n \in Node /\ n # p
    BY NodesAssumption DEF Branches
  <1>1. ASSUME NEW from, NEW to, Goto(p, from, to)
        PROVE  pc[p] = from /\ pc'[p] = to
    BY <1>0, <1>1 DEF Goto, TypeOK, NodeTypeOK, PcTypeOK
  <1>2. \A n \in Branches : pc'[n] = pc[n]
    BY <1>0, NodeType, PrefillDiscipline DEF Disciplined
  <1>3. CASE PublishMilestone(p)
    BY <1>0, <1>1, <1>3 DEF PublishMilestone, OverlapInv
  <1>4. CASE ~PublishMilestone(p)
    <2>1. UNCHANGED prefix_snapshots
      BY <1>4
      DEF PrefillNodeExecute, PrefillInit, PrefillTokenize, BeginChunk,
          DecodeChunk, CommitChunk, ExportMilestone, ReleaseContext,
          AwaitConsumers, ResumeLock, RestorePrefix, CompletePrefill,
          FreePrefill, commit_plain, commit_export,
          wait_for_milestone_consumers, sleep_for_milestone_consumers,
          mark_prefill_complete, stateVars, exportVars
    <2>2. CASE PrefillInit(p)
      <3>1. prefilled[p] = 0
        BY <1>1, <2>2 DEF PrefillInit, Throw, BarrierInv
      <3>2. DOMAIN prefix_snapshots \subseteq Nat \ {0}
        BY DEF TypeOK, NodeTypeOK, StateTypeOK, BarrierInv
      <3>3. \A w \in DOMAIN prefix_snapshots : w \in Nat \ {0} /\ w <= 0
        BY <3>1, <3>2 DEF ProgressInv, Lag
      <3> QED
        BY <2>1, <3>3 DEF OverlapInv, has_prefix_snapshot
    <2>3. CASE RestorePrefix(p)
      <3>1. pc[p] = "restore"
        BY <1>1, <2>3 DEF RestorePrefix, ThrowUnderGuard
      <3> QED
        BY <1>0, <1>2, <2>1, <3>1
        DEF OverlapInv, BarrierInv, Past, Consumed, has_prefix_snapshot,
            required_prefix_tokens
    <2>4. CASE ~PrefillInit(p) /\ ~RestorePrefix(p)
      <3>1. p \in live_ctx' => p \in live_ctx /\ pc[p] # "release"
        BY <1>0, <1>1, <1>4, <2>4
        DEF PrefillNodeExecute, PrefillTokenize, BeginChunk, DecodeChunk,
            CommitChunk, ExportMilestone, ReleaseContext, AwaitConsumers,
            ResumeLock, CompletePrefill, FreePrefill, Throw, ThrowUnderGuard,
            llama_free, llama_decode, engineVars
      <3> QED
        BY <1>0, <1>2, <2>1, <3>1
        DEF OverlapInv, Consumed, has_prefix_snapshot, required_prefix_tokens
    <2> QED
      BY <2>2, <2>3, <2>4
  <1> QED
    BY <1>3, <1>4

LEMMA OverlapInductive ==
  ASSUME TypeOK, ProgressInv, BarrierInv, OverlapInv, [Next]_vars
  PROVE  OverlapInv'
  <1>0. /\ UNCHANGED pipeline
        /\ \A p \in Prefillers : p \in Node /\ p \notin Branches
    BY PipelineFixed, NodesAssumption DEF Branches
  <1>1. ASSUME UNCHANGED prefix_snapshots,
               \A n \in Branches : Consumed(n) => Consumed(n)',
               \A p \in Prefillers :
                 /\ p \in live_ctx' => p \in live_ctx
                 /\ pc'[p] # "release" => pc[p] # "release"
        PROVE  OverlapInv'
    BY <1>0, <1>1 DEF OverlapInv, has_prefix_snapshot, required_prefix_tokens
  <1>2. CASE UNCHANGED vars \/ Terminated
    BY <1>1, <1>2
    DEF vars, Terminated, stateVars, exportVars, engineVars, Consumed
  <1>3. CASE MainThread
    <2>1. UNCHANGED <<prefix_snapshots, live_ctx>>
      BY <1>3, OthersDoNotPublish
      DEF MainThread, RegisterMilestone, SpawnWorker, BeginSpawn, SpawnFails,
          BeginJoin, JoinWorkers, Leave, FreePool, engineVars, Unpublished
    <2>2. \A n \in Node : pc'[n] = pc[n] \/ (pc[n] = "idle" /\ pc'[n] = "gate")
      BY <1>3, MainConsumes DEF RegisterMilestone
    <2> QED
      BY <1>0, <1>1, <2>1, <2>2 DEF Branches, Consumed
  <1>4. ASSUME NEW n \in Node, Worker(n)
        PROVE  OverlapInv'
    <2>1. /\ \A m \in Node \ {n} : pc'[m] = pc[m]
          /\ \A m \in Branches : Consumed(m) => Consumed(m)'
      BY <1>4, WorkerMoves, WorkerConsumes DEF Consumed, Branches
    <2>2. CASE n \in Prefillers /\ PrefillNodeExecute(n)
      BY <1>0, <2>2, PrefillOverlap
    <2>3. CASE Gate(n) \/ Settle(n)
      <3>1. UNCHANGED <<prefix_snapshots, live_ctx>>
        BY <2>3, OthersDoNotPublish
        DEF Gate, Settle, UnknownDependency, WaitWatermark, WaitCompletion,
            PassCompletion, BeginExecute, Fulfil, SettleAs, CatchException,
            engineVars, Unpublished
      <3>2. pc[n] # "release"
        BY <2>3
        DEF Gate, Settle, UnknownDependency, WaitWatermark, WaitCompletion,
            PassCompletion, AtDependency, BeginExecute, Fulfil, SettleAs,
            CatchException, Goto
      <3> QED
        BY <1>0, <1>1, <2>1, <3>1, <3>2
    <2>4. CASE n \in Branches /\ AnalyticalNodeExecute(n) /\ UNCHANGED prefilled
      <3>1. UNCHANGED prefix_snapshots /\ live_ctx' \ {n} = live_ctx \ {n}
        BY <2>4, NodeType, BranchLeaves DEF Unpublished
      <3>2. \A p \in Prefillers : p # n /\ p \in Node
        BY <1>0, <2>4
      <3> QED
        BY <1>1, <2>1, <3>1, <3>2
    <2> QED
      BY <1>4, <2>2, <2>3, <2>4 DEF Worker, ExecuteStep
  <1> QED
    BY <1>2, <1>3, <1>4 DEF Next

\* A branch that forks a milestone is in memory together with the prefiller
\* only if it took the guard between the publication of the milestone and
\* the release of the prefiller's context, whatever fails: a context left
\* behind by a failed decode is of a prefiller whose branches have ended.
THEOREM OverlapCorrect == Spec => []OverlapOnlyBeforeRelease
  <1>1. Init => OverlapInv
    BY DEF Init, EngineInit, OverlapInv
  <1>2. /\ TypeOK /\ ProgressInv /\ BarrierInv /\ OverlapInv /\ [Next]_vars
        => OverlapInv'
    BY OverlapInductive
  <1>3. TypeOK /\ ForkedFromSnapshot /\ ProgressInv /\ BarrierInv /\ OverlapInv
        => OverlapOnlyBeforeRelease
    <2> SUFFICES ASSUME TypeOK, ForkedFromSnapshot, ProgressInv, BarrierInv,
                        OverlapInv, NEW p \in Prefillers, NEW n \in Branches,
                        p \in live_ctx, Forked(n),
                        required_prefix_tokens(n) > 0
                 PROVE  pc[p] = "release"
                        /\ prefilled[p] = required_prefix_tokens(n)
      BY DEF OverlapOnlyBeforeRelease
    <2>1. required_prefix_tokens(n) \in Int /\ prefilled[p] \in Nat
      BY NodeType, PipelineType DEF Branches, TypeOK, NodeTypeOK
    <2>2. has_prefix_snapshot(required_prefix_tokens(n)) /\ ~Consumed(n)
      BY <2>1
      DEF ForkedFromSnapshot, forks_at_watermark, Forked, BranchPC, Consumed
    <2>3. pc[p] = "release"
      BY <2>2 DEF OverlapInv
    <2>4. ~(prefilled[p] > required_prefix_tokens(n))
      BY <2>2 DEF BarrierInv, Past, has_prefix_snapshot
    <2>5. required_prefix_tokens(n) <= prefilled[p]
      BY <2>2 DEF ProgressInv, Lag, has_prefix_snapshot
    <2> QED
      BY <2>1, <2>3, <2>4, <2>5
  <1> QED
    BY <1>1, <1>2, <1>3, TypeCorrect, ProgressCorrect, BarrierCorrect, PTL
    DEF Spec

-----------------------------------------------------------------------------
(* The snapshots a branch may ask for.                                     *)

\* Division with remainder, and what it says of neighbouring multiples.
LEMMA DivMod ==
  ASSUME NEW C \in Nat \ {0}, NEW a \in Nat
  PROVE  /\ a = (C * (a \div C)) + (a % C)
         /\ a \div C \in Nat /\ a % C \in Nat /\ a % C < C
  OBVIOUS

LEMMA MultiplesApart ==
  \A C \in Nat \ {0}, q, r \in Nat : C * q < C * r => C * r >= C * q + C
  OBVIOUS

LEMMA NextMultiple ==
  ASSUME NEW C \in Nat \ {0}, NEW a \in Nat, NEW b \in Nat,
         a % C = 0
  PROVE  /\ (a + C) % C = 0
         /\ b % C = 0 /\ a < b => b >= a + C
  <1> DEFINE q == a \div C
             r == b \div C
             s == (a + C) \div C
             rest == (a + C) % C
  <1>1. a = C * q /\ q \in Nat
    BY DivMod
  <1>2. b % C = 0 => b = C * r /\ r \in Nat
    BY DivMod
  <1>3. a + C = C * s + rest /\ s \in Nat /\ rest \in Nat /\ rest < C
    <2>1. a + C \in Nat
      OBVIOUS
    <2> QED
      BY <2>1, DivMod
  <1> HIDE DEF q, r, s, rest
  <1>4. b % C = 0 /\ a < b => b >= a + C
    BY <1>1, <1>2, MultiplesApart
  <1>5. rest = 0
    <2>1. PICK t \in Nat : t = q + 1
      BY <1>1
    <2>2. C * t = C * s + rest
      BY <1>1, <1>3, <2>1
    <2>3. C * s < C * t => C * t >= C * s + C
      BY <1>3, MultiplesApart
    <2>4. C * s \in Nat /\ C * t \in Nat
      BY <1>3
    <2> QED
      BY <1>3, <2>2, <2>3, <2>4
  <1> QED
    BY <1>4, <1>5 DEF rest

\* The watermark is what the prefiller has decoded, one chunk less while the
\* chunk is being committed; it moves from one chunk boundary to the next, so
\* that no milestone at a boundary is passed without a snapshot.
Committing(p) == pc[p] \in {"commit", "publish"}

BoundaryInv ==
  /\ ChunkBoundary(watermark)
  /\ watermark > 0 => main # "register"
  /\ \A w \in snapshot_milestones :
       ChunkBoundary(w) /\ w <= watermark => has_prefix_snapshot(w)
  /\ \A p \in Prefillers :
       /\ pc[p] \notin {"commit", "publish", "thrown", "done"} =>
            watermark = prefilled[p]
       /\ Committing(p) =>
            /\ watermark < pipeline.total
            /\ \/ prefilled[p] = pipeline.total
               \/ prefilled[p] = watermark + ChunkTokens
            /\ prefilled[p] <= watermark + ChunkTokens

\* The boundary a commit reaches is the next one.
LEMMA NextBoundary ==
  ASSUME TypeOK, ProgressInv, BoundaryInv, NEW p \in Prefillers, Committing(p)
  PROVE  /\ ChunkBoundary(prefilled[p])
         /\ \A w \in snapshot_milestones :
              /\ ChunkBoundary(w)
              /\ w <= prefilled[p]
              => w <= watermark \/ w = prefilled[p]
  <1>1. /\ watermark \in Nat /\ prefilled[p] \in Nat /\ pipeline.total \in Nat
        /\ ChunkTokens \in Nat \ {0} /\ snapshot_milestones \subseteq Nat
        /\ prefilled[p] <= pipeline.total
    BY SizesAssumption, PipelineType
    DEF TypeOK, NodeTypeOK, StateTypeOK, ProgressInv
  <1>2. watermark % ChunkTokens = 0
    BY <1>1 DEF BoundaryInv, ChunkBoundary
  <1>3. (watermark + ChunkTokens) % ChunkTokens = 0
    BY <1>1, <1>2, NextMultiple
  <1>4. ASSUME NEW w \in snapshot_milestones,
               ChunkBoundary(w), w <= prefilled[p], ~(w <= watermark)
        PROVE  w = prefilled[p]
    <2>1. w = pipeline.total \/ w >= watermark + ChunkTokens
      <3>1. watermark < w /\ w \in Nat
        BY <1>1, <1>4
      <3>2. w % ChunkTokens = 0 => w >= watermark + ChunkTokens
        BY <1>1, <1>2, <3>1, NextMultiple
      <3> QED
        BY <1>4, <3>2 DEF ChunkBoundary
    <2> QED
      BY <1>1, <1>4, <2>1 DEF BoundaryInv
  <1> QED
    BY <1>3, <1>4 DEF BoundaryInv, ChunkBoundary

LEMMA PrefillBoundary ==
  ASSUME TypeOK, ProgressInv, BoundaryInv, UNCHANGED <<pipeline, main>>,
         main # "register", NEW p \in Prefillers, PrefillNodeExecute(p)
  PROVE  BoundaryInv'
  <1>1. \A q \in Prefillers : q = p
    BY NodesAssumption
  <1>2. /\ watermark \in Nat /\ prefilled[p] \in Nat /\ pipeline.total \in Nat
        /\ ChunkTokens \in Nat \ {0} /\ prefilled \in [Prefillers -> Nat]
        /\ UNCHANGED snapshot_milestones /\ snapshot_milestones \subseteq Nat
    BY SizesAssumption, PipelineType, PrefillOrder
    DEF TypeOK, NodeTypeOK, StateTypeOK
  <1>3. pc[p] \notin {"done", "thrown"}
    BY DEF PrefillNodeExecute, PrefillInit, PrefillTokenize, BeginChunk,
           DecodeChunk, CommitChunk, ExportMilestone, PublishMilestone,
           ReleaseContext, AwaitConsumers, ResumeLock, RestorePrefix,
           CompletePrefill, FreePrefill, Throw, ThrowUnderGuard, Goto
  <1>4. CASE Quiet(p)
    BY <1>1, <1>2, <1>3, <1>4
    DEF Quiet, BoundaryInv, Committing, ChunkBoundary, has_prefix_snapshot,
        Unpublished
  <1>5. CASE Advances(p)
    <2>1. /\ prefilled'[p] = prefilled[p] + chunk(p) /\ pc'[p] = "commit"
          /\ prefilled[p] < pipeline.total /\ watermark = prefilled[p]
          /\ Unpublished
      BY <1>2, <1>5 DEF Advances, ProgressInv, BoundaryInv
    <2>2. /\ prefilled'[p] <= prefilled[p] + ChunkTokens
          /\ \/ prefilled'[p] = pipeline.total
             \/ prefilled'[p] = prefilled[p] + ChunkTokens
      BY <1>2, <2>1 DEF chunk
    <2> QED
      BY <1>1, <1>2, <2>1, <2>2
      DEF BoundaryInv, Committing, ChunkBoundary, has_prefix_snapshot,
          Unpublished
  <1>6. CASE Announces(p) \/ Freezes(p)
    <2>1. /\ watermark' = prefilled[p] /\ UNCHANGED prefilled
          /\ Committing(p) /\ pc'[p] \in {"loop", "release"}
          /\ DOMAIN prefix_snapshots \subseteq DOMAIN prefix_snapshots'
          /\ prefilled[p] \in snapshot_milestones =>
               prefilled[p] \in DOMAIN prefix_snapshots'
      BY <1>6 DEF Announces, Freezes, Put, Committing, is_snapshot_milestone
    <2>2. /\ ChunkBoundary(prefilled[p])
          /\ \A w \in snapshot_milestones :
               ChunkBoundary(w) /\ w <= prefilled[p] =>
                 w \in DOMAIN prefix_snapshots'
      BY <2>1, NextBoundary DEF BoundaryInv, has_prefix_snapshot
    <2> QED
      BY <1>1, <1>2, <2>1, <2>2
      DEF BoundaryInv, Committing, ChunkBoundary, has_prefix_snapshot
  <1> QED
    BY <1>4, <1>5, <1>6, NodeType, PrefillProgress

\* A step that publishes nothing, decodes nothing and registers nothing.
LEMMA BoundaryFrame ==
  ASSUME BoundaryInv, Unpublished,
         UNCHANGED <<pipeline, prefilled, snapshot_milestones>>,
         main = "register" \/ main' # "register",
         \A p \in Prefillers :
           \/ pc'[p] = pc[p]
           \/ pc[p] \in {"idle", "gate", "returned"}
                /\ pc'[p] \in {"gate", "execute", "done", "abandoned"}
           \/ pc[p] = "thrown" /\ pc'[p] = "done"
  PROVE  BoundaryInv'
  BY DEF BoundaryInv, Committing, ChunkBoundary, has_prefix_snapshot,
         Unpublished

LEMMA BoundaryInductive ==
  ASSUME TypeOK, ProgressInv, RegisteredInv, BoundaryInv, [Next]_vars
  PROVE  BoundaryInv'
  <1>0. /\ UNCHANGED pipeline
        /\ \A p \in Prefillers : p \in Node /\ p \notin Branches
    BY PipelineFixed, NodesAssumption DEF Branches
  <1>1. CASE UNCHANGED vars \/ Terminated
    BY <1>1, BoundaryFrame
    DEF vars, Terminated, stateVars, exportVars, milestoneVars, mainVars,
        Unpublished
  <1>2. CASE MainThread
    <2>1. UNCHANGED prefilled /\ Unpublished
      BY <1>2, OthersDoNotPublish
      DEF MainThread, RegisterMilestone, SpawnWorker, BeginSpawn, SpawnFails,
          BeginJoin, JoinWorkers, Leave, FreePool
    <2>2. ASSUME NEW n \in Node, RegisterMilestone(n)
          PROVE  BoundaryInv'
      <3>1. /\ main = "register" /\ UNCHANGED <<main, pc>>
            /\ snapshot_milestones' \subseteq
                 snapshot_milestones \cup {required_prefix_tokens(n)}
        BY <2>2
        DEF RegisterMilestone, register_snapshot_milestone, milestoneVars
      <3>2. snapshot_milestones' \subseteq Nat \ {0}
        <4>1. required_prefix_tokens(n) \in Int
          BY NodeType, PipelineType
        <4> QED
          BY <2>2, <4>1
          DEF RegisterMilestone, register_snapshot_milestone, milestoneVars,
              TypeOK, NodeTypeOK, StateTypeOK
      <3>3. watermark = 0
        BY <3>1 DEF BoundaryInv, TypeOK, NodeTypeOK, StateTypeOK
      <3> QED
        <4>1. \A w \in snapshot_milestones' : ~(w <= watermark')
          BY <2>1, <3>2, <3>3 DEF Unpublished
        <4>2. UNCHANGED <<watermark, main, pc, prefilled, pipeline>>
          BY <1>0, <2>1, <3>1 DEF Unpublished
        <4> QED
          BY <4>1, <4>2 DEF BoundaryInv, Committing, ChunkBoundary
    <2> QED
      BY <1>0, <1>2, <2>1, <2>2, MainConsumes, BoundaryFrame DEF milestoneVars
  <1>3. ASSUME NEW n \in Node, Worker(n)
        PROVE  BoundaryInv'
    <2>1. /\ main # "register" /\ UNCHANGED <<main, snapshot_milestones>>
          /\ \A m \in Node \ {n} : pc'[m] = pc[m]
      BY <1>3, WorkerMoves, WorkerConsumes, WorkerLeavesMain
      DEF RegisteredInv, mainVars
    <2>2. CASE n \in Prefillers /\ PrefillNodeExecute(n)
      BY <1>0, <2>1, <2>2, PrefillBoundary
    <2>3. CASE Gate(n) \/ Settle(n)
      <3>1. UNCHANGED prefilled /\ Unpublished
        BY <2>3, OthersDoNotPublish
        DEF Gate, Settle, UnknownDependency, WaitWatermark, WaitCompletion,
            PassCompletion, BeginExecute, Fulfil, SettleAs, CatchException
      <3>2. \/ pc'[n] = pc[n]
            \/ pc[n] \in {"gate", "returned"}
                 /\ pc'[n] \in {"execute", "done", "abandoned"}
            \/ pc[n] = "thrown" /\ pc'[n] = "done"
        BY <2>3
        DEF Gate, Settle, UnknownDependency, WaitWatermark, WaitCompletion,
            PassCompletion, BeginExecute, Fulfil, SettleAs, CatchException,
            Goto, TypeOK, NodeTypeOK, PcTypeOK
      <3> QED
        BY <1>0, <2>1, <3>1, <3>2, BoundaryFrame
    <2>4. CASE n \in Branches /\ AnalyticalNodeExecute(n) /\ UNCHANGED prefilled
      BY <1>0, <2>1, <2>4, OthersDoNotPublish, BoundaryFrame
    <2> QED
      BY <1>3, <2>2, <2>3, <2>4 DEF Worker, ExecuteStep
  <1> QED
    BY <1>1, <1>2, <1>3 DEF Next

LEMMA BoundaryCorrect == Spec => []BoundaryInv
  <1>1. Init => BoundaryInv
    <2>1. 0 % ChunkTokens = 0
      BY SizesAssumption
    <2> QED
      BY <2>1, NodesAssumption
      DEF Init, StateInit, BoundaryInv, ChunkBoundary, Committing
  <1>2. TypeOK /\ ProgressInv /\ RegisteredInv /\ BoundaryInv /\ [Next]_vars
          => BoundaryInv'
    BY BoundaryInductive
  <1> QED
    BY <1>1, <1>2, TypeCorrect, ProgressCorrect, RegisteredCorrect,
       PTL DEF Spec

\* A branch that wakes up because the watermark reached its W finds the
\* snapshot of W when W is a chunk boundary, for every chunk length and
\* document.  (When W is no boundary it finds nothing: the branch throws.)
THEOREM SnapshotFound == Spec => []WokenBranchFindsSnapshot
  <1>1. TypeOK /\ RegisteredInv /\ BoundaryInv => WokenBranchFindsSnapshot
    <2> SUFFICES ASSUME TypeOK, RegisteredInv, BoundaryInv,
                        NEW n \in Branches,
                        required_prefix_tokens(n) > 0,
                        ChunkBoundary(required_prefix_tokens(n)),
                        watermark >= required_prefix_tokens(n)
                 PROVE  has_prefix_snapshot(required_prefix_tokens(n))
      BY DEF WokenBranchFindsSnapshot
    <2>1. n \in Node /\ required_prefix_tokens(n) \in Int /\ watermark \in Nat
      BY PipelineType DEF Branches, TypeOK, NodeTypeOK, StateTypeOK
    <2>2. registered = Node
      BY <2>1 DEF BoundaryInv, RegisteredInv
    <2> QED
      BY <2>1, <2>2 DEF BoundaryInv, RegisteredInv
  <1> QED
    BY <1>1, TypeCorrect, RegisteredCorrect, BoundaryCorrect, PTL

-----------------------------------------------------------------------------
(* The outcome of a branch.                                                *)

\* A branch has published from the end of its decode on, and its promise
\* holds a value when it returned.
HasPublished(n) ==
  pc[n] \in {"close", "signal", "returned"} \/ completion[n] = "value"

OutputInv ==
  \A n \in Branches :
    /\ n \in DOMAIN node_outputs <=> HasPublished(n)
    /\ completion[n] # "pending" <=> pc[n] = "done"

\* A step of one worker changes no other promise, and no other output.
LEMMA WorkerOutcome ==
  ASSUME TypeOK, NEW n \in Node, Worker(n)
  PROVE  /\ \A m \in Node \ {n} : completion'[m] = completion[m]
         /\ DOMAIN node_outputs \ {n} = DOMAIN node_outputs' \ {n}
         /\ n \in Prefillers => UNCHANGED node_outputs
  BY NodesAssumption
  DEF Worker, Gate, Settle, ExecuteStep, UnknownDependency, WaitWatermark,
      WaitCompletion, PassCompletion, BeginExecute, Fulfil, SettleAs,
      CatchException, wait_for_watermark, sleep_for_watermark,
      signal_milestone_consumed, consume, workerVars, TypeOK, NodeTypeOK,
      WorkerTypeOK, PrefillNodeExecute, PrefillInit, PrefillTokenize,
      BeginChunk, DecodeChunk, CommitChunk, ExportMilestone, PublishMilestone,
      ReleaseContext, AwaitConsumers, ResumeLock, RestorePrefix,
      CompletePrefill, FreePrefill, commit_plain, commit_export,
      commit_publish, publish, wait_for_milestone_consumers,
      sleep_for_milestone_consumers, mark_prefill_complete,
      AnalyticalNodeExecute, EnterBranch, ForkSnapshot, ForkCanonical,
      Materialize, OpenBranchContext, PrepareBatch, DecodeBranch,
      PublishOutput, CloseBranchContext, SignalConsumed, publish_output, Put,
      stateVars, Branches

\* What a branch's own step does to its output and its promise.
LEMMA BranchOutcome ==
  ASSUME TypeOK, OutputInv, NEW n \in Branches, Worker(n)
  PROVE  /\ n \in DOMAIN node_outputs' <=> HasPublished(n)'
         /\ completion'[n] # "pending" <=> pc'[n] = "done"
  <1>0. /\ n \in Node /\ n \notin Prefillers
        /\ completion \in [Node -> {"pending", "value", "exception"}]
    BY DEF Branches, TypeOK, NodeTypeOK, WorkerTypeOK
  <1>1. ASSUME NEW from, NEW to, Goto(n, from, to)
        PROVE  pc[n] = from /\ pc'[n] = to
    BY <1>0, <1>1, NodeType, GotoDiscipline
  <1>2. CASE Gate(n)
    BY <1>0, <1>1, <1>2
    DEF Gate, UnknownDependency, WaitWatermark, WaitCompletion,
        PassCompletion, AtDependency, BeginExecute, wait_for_watermark,
        sleep_for_watermark, workerVars, stateVars, OutputInv, HasPublished
  <1>3. CASE Settle(n)
    BY <1>0, <1>1, <1>3
    DEF Settle, Fulfil, SettleAs, CatchException, signal_milestone_consumed,
        consume, stateVars, OutputInv, HasPublished
  <1>4. CASE AnalyticalNodeExecute(n) /\ UNCHANGED completion
    <2>1. CASE PublishOutput(n)
      BY <1>0, <1>1, <1>4, <2>1
      DEF PublishOutput, publish_output, Put, OutputInv, HasPublished
    <2>2. CASE ~PublishOutput(n)
      BY <1>0, <1>1, <1>4, <2>2
      DEF AnalyticalNodeExecute, EnterBranch, ForkSnapshot, ForkCanonical,
          Materialize, OpenBranchContext, PrepareBatch, DecodeBranch,
          CloseBranchContext, SignalConsumed, ThrowUnderGuard,
          signal_milestone_consumed, consume, stateVars, OutputInv,
          HasPublished
    <2> QED
      BY <2>1, <2>2
  <1> QED
    BY <1>0, <1>2, <1>3, <1>4 DEF Worker, ExecuteStep, workerVars

LEMMA OutputInductive ==
  ASSUME TypeOK, OutputInv, [Next]_vars
  PROVE  OutputInv'
  <1>1. CASE UNCHANGED vars \/ Terminated
    BY <1>1 DEF vars, Terminated, stateVars, workerVars, OutputInv,
                HasPublished
  <1>2. CASE MainThread
    <2>1. UNCHANGED <<node_outputs, completion>>
      BY <1>2
      DEF MainThread, RegisterMilestone, SpawnWorker, BeginSpawn, SpawnFails,
          BeginJoin, JoinWorkers, Leave, FreePool, stateVars, workerVars
    <2>2. \A n \in Node : pc'[n] = pc[n] \/ (pc[n] = "idle" /\ pc'[n] = "gate")
      BY <1>2, MainConsumes DEF RegisterMilestone
    <2> QED
      BY <2>1, <2>2 DEF OutputInv, HasPublished, Branches
  <1>3. ASSUME NEW n \in Node, Worker(n)
        PROVE  OutputInv'
    <2>1. \A m \in Node \ {n} : pc'[m] = pc[m]
      BY <1>3, WorkerMoves
    <2> QED
      BY <1>3, <2>1, WorkerOutcome, BranchOutcome
      DEF OutputInv, HasPublished, Branches
  <1> QED
    BY <1>1, <1>2, <1>3 DEF Next

\* The promise of a branch tells the truth: it holds a value exactly when the
\* branch published its output, and an exception when it published nothing.
THEOREM OutputCorrect == Spec => []OutputMeansSuccess
  <1>1. Init => OutputInv
    BY DEF Init, StateInit, EmptyMap, OutputInv, HasPublished, Branches
  <1>2. TypeOK /\ OutputInv /\ [Next]_vars => OutputInv'
    BY OutputInductive
  <1>3. OutputInv => OutputMeansSuccess
    BY DEF OutputInv, HasPublished, OutputMeansSuccess
  <1> QED
    BY <1>1, <1>2, <1>3, TypeCorrect, PTL DEF Spec

-----------------------------------------------------------------------------
(* The context budget.                                                     *)

\* No length that a branch can fork exceeds the document.
LengthInv ==
  /\ prefix_seq_len <= pipeline.total
  /\ \A w \in DOMAIN prefix_snapshots :
       prefix_snapshots[w].seq_len <= pipeline.total
  /\ \A n \in Branches : fork_prefix_len[n] <= pipeline.total

\* The lengths are those of the prefiller's commits and of what was forked.
LEMMA LengthMoves ==
  ASSUME TypeOK, [Next]_vars
  PROVE  /\ \/ UNCHANGED <<prefix_seq_len, prefix_snapshots>>
            \/ \E p \in Prefillers :
                 /\ prefix_seq_len' = prefilled[p]
                 /\ \E blob :
                      prefix_snapshots' =
                        Put(prefix_snapshots, prefilled[p],
                            [data |-> blob, seq_len |-> prefilled[p]])
         /\ \A n \in Branches :
              \/ fork_prefix_len'[n] = fork_prefix_len[n]
              \/ fork_prefix_len'[n] = prefix_seq_len
              \/ \E w \in DOMAIN prefix_snapshots :
                   fork_prefix_len'[n] = prefix_snapshots[w].seq_len
  <1>1. CASE UNCHANGED vars \/ Terminated
    BY <1>1 DEF vars, Terminated, stateVars, exportVars, forkVars
  <1>2. CASE MainThread
    BY <1>2
    DEF MainThread, RegisterMilestone, SpawnWorker, BeginSpawn, SpawnFails,
        BeginJoin, JoinWorkers, Leave, FreePool, stateVars, exportVars,
        forkVars
  <1>3. CASE \E n \in Node : Gate(n) \/ Settle(n)
    BY <1>3
    DEF Gate, Settle, UnknownDependency, WaitWatermark, WaitCompletion,
        PassCompletion, BeginExecute, Fulfil, SettleAs, CatchException,
        wait_for_watermark, sleep_for_watermark, signal_milestone_consumed,
        consume, stateVars, exportVars, forkVars
  <1>4. ASSUME NEW p \in Prefillers, PrefillNodeExecute(p), UNCHANGED forkVars
        PROVE  /\ \/ UNCHANGED <<prefix_seq_len, prefix_snapshots>>
                  \/ /\ prefix_seq_len' = prefilled[p]
                     /\ \E blob :
                          prefix_snapshots' =
                            Put(prefix_snapshots, prefilled[p],
                                [data |-> blob, seq_len |-> prefilled[p]])
               /\ UNCHANGED fork_prefix_len
    BY <1>4
    DEF PrefillNodeExecute, PrefillInit, PrefillTokenize, BeginChunk,
        DecodeChunk, CommitChunk, ExportMilestone, PublishMilestone,
        ReleaseContext, AwaitConsumers, ResumeLock, RestorePrefix,
        CompletePrefill, FreePrefill, commit_plain, commit_export,
        commit_publish, publish, Exported, wait_for_milestone_consumers,
        sleep_for_milestone_consumers, mark_prefill_complete, stateVars,
        exportVars, forkVars
  <1>5. ASSUME NEW n \in Branches, AnalyticalNodeExecute(n)
        PROVE  /\ UNCHANGED <<prefix_seq_len, prefix_snapshots>>
               /\ \/ UNCHANGED fork_prefix_len
                  \/ fork_prefix_len' =
                       [fork_prefix_len EXCEPT ![n] = prefix_seq_len]
                  \/ \E w \in DOMAIN prefix_snapshots :
                       fork_prefix_len' =
                         [fork_prefix_len EXCEPT
                            ![n] = prefix_snapshots[w].seq_len]
    BY <1>5
    DEF AnalyticalNodeExecute, EnterBranch, ForkSnapshot, ForkCanonical,
        Materialize, OpenBranchContext, PrepareBatch, DecodeBranch,
        PublishOutput, CloseBranchContext, SignalConsumed, publish_output,
        has_prefix_snapshot, signal_milestone_consumed, consume, stateVars,
        exportVars, forkVars
  <1>6. fork_prefix_len \in [Branches -> Nat]
    BY DEF TypeOK, NodeTypeOK, ForkTypeOK
  <1> QED
    BY <1>1, <1>2, <1>3, <1>4, <1>5, <1>6 DEF Next, Worker, ExecuteStep

LEMMA LengthCorrect == Spec => []LengthInv
  <1>1. Init => LengthInv
    BY PipelinesAssumption
    DEF Init, StateInit, EmptyMap, LengthInv, Pipeline
  <1>2. TypeOK /\ ProgressInv /\ LengthInv /\ [Next]_vars => LengthInv'
    <2> SUFFICES ASSUME TypeOK, ProgressInv, LengthInv, [Next]_vars
                 PROVE  LengthInv'
      OBVIOUS
    <2>1. /\ UNCHANGED pipeline
          /\ \A p \in Prefillers : prefilled[p] <= pipeline.total
      BY PipelineFixed DEF ProgressInv
    <2>2. /\ prefix_seq_len' <= pipeline.total
          /\ \A w \in DOMAIN prefix_snapshots' :
               prefix_snapshots'[w].seq_len <= pipeline.total
      <3>1. CASE UNCHANGED <<prefix_seq_len, prefix_snapshots>>
        BY <3>1 DEF LengthInv
      <3>2. ASSUME NEW p \in Prefillers, NEW blob,
                   prefix_seq_len' = prefilled[p],
                   prefix_snapshots' =
                     Put(prefix_snapshots, prefilled[p],
                         [data |-> blob, seq_len |-> prefilled[p]]),
                   NEW w \in DOMAIN prefix_snapshots'
            PROVE  /\ prefix_seq_len' <= pipeline.total
                   /\ prefix_snapshots'[w].seq_len <= pipeline.total
        BY <2>1, <3>2 DEF LengthInv, Put
      <3>3. ASSUME NEW p \in Prefillers, prefix_seq_len' = prefilled[p]
            PROVE  prefix_seq_len' <= pipeline.total
        BY <2>1, <3>3
      <3> QED
        BY <3>1, <3>2, <3>3, LengthMoves
    <2>3. \A n \in Branches : fork_prefix_len'[n] <= pipeline.total
      BY LengthMoves DEF LengthInv
    <2> QED
      BY <2>1, <2>2, <2>3 DEF LengthInv
  <1> QED
    BY <1>1, <1>2, TypeCorrect, ProgressCorrect, PTL DEF Spec

\* The check made before the run is enough: a document and prompts that fit
\* together fit at every fork, since no prefix is longer than the document,
\* and the prefiller's stricter comparison is covered by the headroom.
THEOREM AdmissionCorrect == Spec => []AdmittedNeverRefused
  <1>1. TypeOK /\ LengthInv => AdmittedNeverRefused
    <2> SUFFICES ASSUME TypeOK, LengthInv, AdmittedByAudit
                 PROVE  /\ pipeline.total < NCtx
                        /\ \A n \in Branches : fits_context_budget(n)
      BY DEF AdmittedNeverRefused
    <2>1. /\ pipeline.total \in Nat /\ NCtx \in Nat /\ Headroom \in Nat \ {0}
          /\ \A n \in Branches : /\ pipeline.prompt[n] \in Nat
                                 /\ fork_prefix_len[n] \in Nat
                                 /\ fork_prefix_len[n] <= pipeline.total
      BY PipelineType, BudgetAssumption
      DEF TypeOK, NodeTypeOK, ForkTypeOK, LengthInv, Branches
    <2>2. /\ pipeline.total + 0 + Headroom <= NCtx
          /\ \A n \in Branches :
               pipeline.total + pipeline.prompt[n] + Headroom <= NCtx
      BY DEF AdmittedByAudit, validate_context_budget
    <2>3. pipeline.total < NCtx
      BY <2>1, <2>2
    <2>4. ASSUME NEW n \in Branches
          PROVE  fits_context_budget(n)
      BY <2>1, <2>2 DEF fits_context_budget, validate_context_budget
    <2> QED
      BY <2>3, <2>4
  <1> QED
    BY <1>1, TypeCorrect, LengthCorrect, PTL

-----------------------------------------------------------------------------
(* What the end of a run tells of the wiring.                              *)

\* Past the gate, with every dependency satisfied.
Started(n) == pc[n] \notin {"idle", "gate", "abandoned"}

\* Every worker was launched before the join; a promise is settled by the
\* last step of its worker; a worker abandons its node at an unknown name;
\* and a prefiller that returns has published the whole document.
SettleInv ==
  /\ main \in {"join", "free", "returned"} => spawned = Node
  /\ \A n \in Node :
       /\ completion[n] # "pending" <=> pc[n] = "done"
       /\ pc[n] = "abandoned" =>
            /\ next_dep[n] \in DOMAIN dependencies(n)
            /\ CurrentDependency(n) \notin Node
  /\ \A p \in Prefillers :
       /\ pc[p] \in {"free", "returned"} => prefilled[p] = pipeline.total
       /\ completion[p] = "value" => watermark = pipeline.total

\* What one worker's step does to its own promise and its own wait.
LEMMA WorkerSettles ==
  ASSUME TypeOK, SettleInv, NEW n \in Node, Worker(n), UNCHANGED pipeline
  PROVE  /\ completion'[n] # "pending" <=> pc'[n] = "done"
         /\ completion'[n] = "value" => pc[n] = "returned"
         /\ pc'[n] = "abandoned" =>
              /\ next_dep'[n] \in DOMAIN dependencies(n)
              /\ dependencies(n)[next_dep'[n]] \notin Node
         /\ \A m \in Node \ {n} : next_dep'[m] = next_dep[m]
  <1>1. ASSUME NEW from, NEW to, Goto(n, from, to)
        PROVE  pc[n] = from /\ pc'[n] = to
    BY <1>1, NodeType, GotoDiscipline
  <1>2. /\ pc[n] \notin {"idle", "done", "abandoned"}
        /\ completion[n] = "pending"
        /\ next_dep[n] \in Nat \ {0} /\ dependencies(n) \in Seq(Name)
    BY WorkerMoves, PipelineType
    DEF SettleInv, TypeOK, NodeTypeOK, WorkerTypeOK
  <1>3. CASE Gate(n)
    <2>1. CASE UnknownDependency(n)
      BY <1>1, <1>2, <2>1
      DEF UnknownDependency, AtDependency, CurrentDependency, workerVars
    <2>2. CASE WaitWatermark(n) \/ WaitCompletion(n) \/ BeginExecute(n)
      BY <1>1, <1>2, <2>2
      DEF WaitWatermark, WaitCompletion, PassCompletion, AtDependency,
          BeginExecute, workerVars, TypeOK, NodeTypeOK, WorkerTypeOK
    <2> QED
      BY <1>3, <2>1, <2>2 DEF Gate
  <1>4. CASE Settle(n)
    BY <1>1, <1>2, <1>4
    DEF Settle, Fulfil, SettleAs, CatchException, TypeOK, NodeTypeOK,
        WorkerTypeOK
  <1>5. CASE ExecuteStep(n) /\ UNCHANGED workerVars
    <2>1. pc'[n] \notin {"done", "abandoned"}
      <3>1. CASE PrefillNodeExecute(n)
        BY <1>1, <3>1
        DEF PrefillNodeExecute, PrefillInit, PrefillTokenize, BeginChunk,
            DecodeChunk, CommitChunk, ExportMilestone, PublishMilestone,
            ReleaseContext, AwaitConsumers, ResumeLock, RestorePrefix,
            CompletePrefill, FreePrefill, Throw, ThrowUnderGuard
      <3>2. CASE AnalyticalNodeExecute(n)
        BY <1>1, <3>2
        DEF AnalyticalNodeExecute, EnterBranch, ForkSnapshot, ForkCanonical,
            Materialize, OpenBranchContext, PrepareBatch, DecodeBranch,
            PublishOutput, CloseBranchContext, SignalConsumed,
            ThrowUnderGuard
      <3> QED
        BY <1>5, <3>1, <3>2 DEF ExecuteStep
    <2> QED
      BY <1>2, <1>5, <2>1 DEF workerVars
  <1> QED
    BY <1>3, <1>4, <1>5 DEF Worker

\* The prefiller leaves its loop with the whole document decoded.
LEMMA PrefillEnds ==
  ASSUME TypeOK, ProgressInv, SettleInv, NEW p \in Prefillers,
         PrefillNodeExecute(p), pc'[p] \in {"free", "returned"}
  PROVE  prefilled'[p] = pipeline.total
  <1>1. ASSUME NEW from, NEW to, Goto(p, from, to)
        PROVE  pc[p] = from /\ pc'[p] = to
    BY <1>1, NodeType, GotoDiscipline, NodesAssumption
  <1>2. CompletePrefill(p) \/ FreePrefill(p)
    BY <1>1
    DEF PrefillNodeExecute, PrefillInit, PrefillTokenize, BeginChunk,
        DecodeChunk, CommitChunk, ExportMilestone, PublishMilestone,
        ReleaseContext, AwaitConsumers, ResumeLock, RestorePrefix, Throw,
        ThrowUnderGuard
  <1>3. CASE CompletePrefill(p)
    <2>1. prefilled[p] \in Nat /\ pipeline.total \in Nat
      BY PipelineType DEF TypeOK, NodeTypeOK
    <2> QED
      BY <1>3, <2>1 DEF CompletePrefill, ProgressInv
  <1>4. CASE FreePrefill(p)
    BY <1>1, <1>4 DEF FreePrefill, SettleInv
  <1> QED
    BY <1>2, <1>3, <1>4

LEMMA SettleInductive ==
  ASSUME TypeOK, ProgressInv, BoundaryInv, SettleInv, [Next]_vars
  PROVE  SettleInv'
  <1>0. /\ UNCHANGED pipeline
        /\ \A p \in Prefillers : p \in Node /\ p \notin Branches
    BY PipelineFixed, NodesAssumption DEF Branches
  <1>1. CASE UNCHANGED vars \/ Terminated
    BY <1>1 DEF vars, Terminated, mainVars, workerVars, stateVars, SettleInv,
                dependencies, CurrentDependency
  <1>2. CASE MainThread
    <2>1. /\ UNCHANGED <<workerVars, prefilled, watermark>>
          /\ \A n \in Node : \/ pc'[n] = pc[n]
                             \/ pc[n] = "idle" /\ pc'[n] = "gate"
      BY <1>2, MainConsumes, OthersDoNotPublish
      DEF MainThread, RegisterMilestone, SpawnWorker, BeginSpawn, SpawnFails,
          BeginJoin, JoinWorkers, Leave, FreePool, Unpublished
    <2>2. main' \in {"join", "free", "returned"} => spawned' = Node
      BY <1>2
      DEF MainThread, RegisterMilestone, SpawnWorker, BeginSpawn, SpawnFails,
          BeginJoin, JoinWorkers, Leave, FreePool, SettleInv
    <2> QED
      BY <1>0, <2>1, <2>2
      DEF SettleInv, workerVars, dependencies, CurrentDependency
  <1>3. ASSUME NEW n \in Node, Worker(n)
        PROVE  SettleInv'
    <2>1. /\ UNCHANGED <<main, spawned>>
          /\ \A m \in Node \ {n} : /\ pc'[m] = pc[m]
                                   /\ completion'[m] = completion[m]
      BY <1>3, WorkerMoves, WorkerLeavesMain, WorkerOutcome DEF mainVars
    <2>2. \A m \in Node :
            /\ completion'[m] # "pending" <=> pc'[m] = "done"
            /\ pc'[m] = "abandoned" =>
                 /\ next_dep'[m] \in DOMAIN dependencies(m)'
                 /\ CurrentDependency(m)' \notin Node
      BY <1>0, <1>3, <2>1, WorkerSettles
      DEF SettleInv, dependencies, CurrentDependency
    <2>3. CASE n \in Prefillers
      <3>1. \A q \in Prefillers : q = n
        BY <2>3, NodesAssumption
      <3>2. CASE PrefillNodeExecute(n) /\ UNCHANGED workerVars
        <4>1. completion'[n] = "pending"
          BY <1>3, <3>2, WorkerMoves
          DEF SettleInv, workerVars, TypeOK, NodeTypeOK, WorkerTypeOK
        <4> QED
          BY <1>0, <2>1, <2>2, <3>1, <3>2, <4>1, PrefillEnds DEF SettleInv
      <3>3. CASE Gate(n) \/ Settle(n)
        <4>1. UNCHANGED <<prefilled, watermark>>
          BY <3>3, OthersDoNotPublish
          DEF Gate, Settle, UnknownDependency, WaitWatermark, WaitCompletion,
              PassCompletion, BeginExecute, Fulfil, SettleAs, CatchException,
              Unpublished
        <4>2. pc'[n] \notin {"free", "returned"}
          BY <3>3
          DEF Gate, Settle, UnknownDependency, WaitWatermark, WaitCompletion,
              PassCompletion, AtDependency, BeginExecute, Fulfil, SettleAs,
              CatchException, Goto, TypeOK, NodeTypeOK, PcTypeOK
        <4>3. completion'[n] = "value" => watermark = pipeline.total
          <5>1. completion'[n] = "value" => pc[n] = "returned"
            BY <1>0, <1>3, WorkerSettles
          <5> QED
            BY <2>3, <5>1 DEF SettleInv, BoundaryInv
        <4> QED
          BY <1>0, <2>1, <2>2, <3>1, <4>1, <4>2, <4>3 DEF SettleInv
      <3> QED
        BY <1>3, <2>3, <3>2, <3>3 DEF Worker, ExecuteStep, Branches
    <2>4. CASE n \in Branches
      <3>1. UNCHANGED <<prefilled, watermark>>
        BY <1>3, <2>4, OthersDoNotPublish
        DEF Worker, ExecuteStep, Branches, Gate, Settle, UnknownDependency,
            WaitWatermark, WaitCompletion, PassCompletion, BeginExecute,
            Fulfil, SettleAs, CatchException, Unpublished
      <3> QED
        BY <1>0, <2>1, <2>2, <2>4, <3>1 DEF SettleInv
    <2> QED
      BY <2>3, <2>4 DEF Branches
  <1> QED
    BY <1>1, <1>2, <1>3 DEF Next

LEMMA SettleCorrect == Spec => []SettleInv
  <1>1. Init => SettleInv
    BY NodesAssumption DEF Init, SettleInv
  <1>2. TypeOK /\ ProgressInv /\ BoundaryInv /\ SettleInv /\ [Next]_vars
          => SettleInv'
    BY SettleInductive
  <1> QED
    BY <1>1, <1>2, TypeCorrect, ProgressCorrect, BoundaryCorrect, PTL DEF Spec

\* A worker that started, or met an unknown name, has waited for the nodes
\* it awaits.
LEMMA AwaitedSatisfied ==
  ASSUME TypeOK, GateInv, SettleInv, NEW n \in Node,
         Started(n) \/ pc[n] = "abandoned",
         NEW d \in Awaited(pipeline, n)
  PROVE  /\ d \in Node
         /\ IF GatedByWatermark(n, d)
            THEN watermark >= required_prefix_tokens(n)
            ELSE completion[d] # "pending"
  <1>1. /\ dependencies(n) \in Seq(Name)
        /\ next_dep[n] \in Nat \ {0}
    BY PipelineType DEF TypeOK, NodeTypeOK, WorkerTypeOK
  <1>2. PICK i \in DOMAIN dependencies(n) :
          /\ d = dependencies(n)[i]
          /\ \A j \in 1..i : dependencies(n)[j] \in Node
    BY DEF Awaited, dependencies
  <1>3. i < next_dep[n]
    <2>1. CASE Started(n)
      BY <1>1, <2>1 DEF GateInv, Started
    <2>2. CASE pc[n] = "abandoned"
      <3>1. next_dep[n] \notin 1..i
        BY <1>2, <2>2 DEF SettleInv, CurrentDependency
      <3> QED
        BY <1>1, <3>1
    <2> QED
      BY <2>1, <2>2
  <1>4. SatisfiedDep(n, i)
    BY <1>3 DEF GateInv
  <1>5. i \in 1..i
    BY <1>1
  <1> QED
    BY <1>2, <1>4, <1>5 DEF SatisfiedDep

\* A worker that started knows every name it was given.
LEMMA StartedKnowsAll ==
  ASSUME TypeOK, GateInv, NEW n \in Node, Started(n)
  PROVE  ~Abandons(pipeline, n)
  <1> SUFFICES ASSUME NEW i \in DOMAIN dependencies(n)
               PROVE  dependencies(n)[i] \in Node
    BY DEF Abandons, dependencies
  <1>1. dependencies(n) \in Seq(Name) /\ next_dep[n] \in Nat
    BY PipelineType DEF TypeOK, NodeTypeOK, WorkerTypeOK
  <1>2. SatisfiedDep(n, i)
    BY <1>1 DEF GateInv, Started
  <1> QED
    BY <1>2, NodesAssumption
    DEF SatisfiedDep, GatedByWatermark, is_prefill_provider

\* Above a branch that started, every branch has ended its wait too: those
\* that started are closed under waiting, and Upstream is the least such set.
LEMMA UpstreamStarted ==
  ASSUME TypeOK, GateInv, SettleInv, NEW n \in Branches, Started(n)
  PROVE  \A m \in Upstream(pipeline, n) : m \in Branches /\ Started(m)
  <1> DEFINE S == {m \in Branches : Started(m)}
  <1>1. ASSUME NEW m \in S, NEW d \in Awaited(pipeline, m) \cap Branches
        PROVE  d \in S
    <2>1. m \in Node /\ d \in Node /\ d \notin Prefillers
      BY <1>1 DEF Branches
    <2>2. completion[d] # "pending"
      BY <1>1, <2>1, AwaitedSatisfied DEF GatedByWatermark, is_prefill_provider
    <2>3. pc[d] = "done"
      BY <2>1, <2>2 DEF SettleInv
    <2> QED
      BY <1>1, <2>3 DEF Started
  <1>2. S \in SUBSET Branches /\ n \in S /\ ClosedUpstream(pipeline, S)
    BY <1>1 DEF ClosedUpstream
  <1> HIDE DEF S
  <1>3. \A m \in Upstream(pipeline, n) : m \in S
    BY <1>2 DEF Upstream
  <1> QED
    BY <1>3 DEF S

\* What a branch that started had to wait for has come about.
LEMMA WaitsReached ==
  ASSUME TypeOK, GateInv, SettleInv, NEW n \in Branches, Started(n),
         \A p \in Prefillers : pc[p] # "done",
         NEW w \in Waits(pipeline, n)
  PROVE  watermark >= w
  <1>1. PICK m \in Upstream(pipeline, n) :
          /\ Awaited(pipeline, m) \cap Prefillers # {}
          /\ w = Asks(pipeline, m)
    BY DEF Waits
  <1>2. m \in Node /\ Started(m)
    BY UpstreamStarted DEF Branches
  <1>3. PICK p \in Prefillers : p \in Awaited(pipeline, m)
    BY <1>1
  <1>4. p \in Node /\ completion[p] = "pending"
    BY NodesAssumption DEF SettleInv
  <1>5. required_prefix_tokens(m) >= 0 /\ watermark >= required_prefix_tokens(m)
    BY <1>2, <1>3, <1>4, AwaitedSatisfied
    DEF GatedByWatermark, is_prefill_provider
  <1> QED
    BY <1>1, <1>5 DEF Asks, required_prefix_tokens

\* The prefiller does not pause at milestone w any more.
Cleared(p, w) ==
  \/ Past(p, w)
  \/ pc[p] \in {"free", "returned"}
  \/ completion[p] = "value"

\* It goes on past a milestone only if nothing hinders the branches there.
ClearedInv ==
  \A p \in Prefillers, n \in Branches :
    /\ required_prefix_tokens(n) \in DOMAIN prefix_snapshots
    /\ Cleared(p, required_prefix_tokens(n))
    => Unhindered(pipeline, n)

LEMMA PrefillClears ==
  ASSUME TypeOK, ProgressInv, GateInv, BarrierInv, BoundaryInv, SettleInv,
         ClearedInv, BarrierInv', UNCHANGED <<pipeline, workerVars>>,
         NEW p \in Prefillers, PrefillNodeExecute(p), Worker(p),
         NEW n \in Branches,
         required_prefix_tokens(n) \in DOMAIN prefix_snapshots',
         Cleared(p, required_prefix_tokens(n))'
  PROVE  Unhindered(pipeline, n)
  <1> DEFINE w == required_prefix_tokens(n)
  <1>1. /\ p \in Node /\ n \in Node /\ n # p
        /\ pc[p] \notin {"done", "abandoned"} /\ pc'[n] = pc[n]
      BY WorkerMoves, NodesAssumption DEF Branches
  <1>2. /\ w \in Int /\ prefilled[p] \in Nat /\ w' = w
        /\ completion[p] = "pending" /\ completion'[p] = "pending"
    BY <1>1, PipelineType
    DEF TypeOK, NodeTypeOK, SettleInv, workerVars, required_prefix_tokens
  <1>3. w \in DOMAIN prefix_snapshots => Lag(w, p)
    BY DEF ProgressInv
  <1>4. CASE w \in DOMAIN prefix_snapshots /\ Cleared(p, w)
    BY <1>4 DEF ClearedInv
  <1>5. CASE Quiet(p) /\ w \in DOMAIN prefix_snapshots /\ ~Cleared(p, w)
    <2>1. ASSUME NEW from, NEW to, Goto(p, from, to)
          PROVE  pc[p] = from /\ pc'[p] = to
      BY <1>1, <2>1, NodeType, GotoDiscipline
    <2>2. pc'[p] \notin {"free", "returned"}
      BY <1>5, <2>1
      DEF PrefillNodeExecute, PrefillInit, PrefillTokenize, BeginChunk,
          DecodeChunk, CommitChunk, ExportMilestone, PublishMilestone,
          ReleaseContext, AwaitConsumers, ResumeLock, RestorePrefix,
          CompletePrefill, FreePrefill, Throw, ThrowUnderGuard, Cleared, Past
    <2>3. Past(p, w)'
      BY <1>2, <2>2 DEF Cleared
    <2>4. Started(n)
      <3>1. Consumed(n)'
        BY <1>2, <2>3 DEF BarrierInv
      <3> QED
        BY <1>1, <3>1 DEF Consumed, Started
    <2>5. prefilled[p] = w /\ pc[p] \notin {"commit", "publish"}
      BY <1>2, <1>3, <1>5 DEF Cleared, Past, Lag
    <2>6. pc[p] # "thrown"
      BY DEF PrefillNodeExecute, PrefillInit, PrefillTokenize, BeginChunk,
             DecodeChunk, CommitChunk, ExportMilestone, PublishMilestone,
             ReleaseContext, AwaitConsumers, ResumeLock, RestorePrefix,
             CompletePrefill, FreePrefill, Throw, ThrowUnderGuard, Goto
    <2>7. watermark = w
      BY <1>1, <2>5, <2>6 DEF BoundaryInv
    <2>8. \A q \in Prefillers : pc[q] # "done"
      BY <1>1, NodesAssumption
    <2>9. ~Abandons(pipeline, n)
      BY <1>1, <2>4, StartedKnowsAll
    <2>10. \A x \in Waits(pipeline, n) : watermark >= x
      BY <2>4, <2>8, WaitsReached
    <2>11. \A x \in Waits(pipeline, n) : x \in Int
      <3>1. \A m \in Branches : Asks(pipeline, m) \in Int
        BY NodeType, PipelineType DEF Asks, required_prefix_tokens, Branches
      <3> QED
        BY <3>1 DEF Waits, Upstream
    <2> QED
      BY <1>2, <2>7, <2>9, <2>10, <2>11 DEF Unhindered, required_prefix_tokens
  <1>6. Advances(p) => w \in DOMAIN prefix_snapshots /\ Cleared(p, w)
    BY DEF Advances, Unpublished, Cleared, Past
  <1>7. Announces(p) => w \in DOMAIN prefix_snapshots /\ Cleared(p, w)
    BY <1>2, <1>3 DEF Announces, Cleared, Past, Lag
  <1>8. Freezes(p) => w \in DOMAIN prefix_snapshots /\ Cleared(p, w)
    <2>1. ASSUME Freezes(p)
          PROVE  /\ DOMAIN prefix_snapshots' =
                      DOMAIN prefix_snapshots \cup {prefilled[p]}
                 /\ pc'[p] = "release" /\ UNCHANGED prefilled
                 /\ pc[p] = "publish"
      BY <2>1 DEF Freezes, Put
    <2>2. Freezes(p) => prefilled[p] > w
      BY <1>2, <2>1 DEF Cleared, Past
    <2> QED
      BY <1>2, <2>1, <2>2 DEF Cleared, Past
  <1>9. Quiet(p) => w \in DOMAIN prefix_snapshots
    BY DEF Quiet, Unpublished
  <1> QED
    BY <1>4, <1>5, <1>6, <1>7, <1>8, <1>9, NodeType, PrefillProgress

\* Steps of the others clear nothing.
LEMMA ClearedFrame ==
  ASSUME ClearedInv, UNCHANGED <<pipeline, prefilled, prefix_snapshots>>,
         \A p \in Prefillers :
           /\ \/ pc'[p] = pc[p]
              \/ pc'[p] \in {"gate", "execute", "done", "abandoned"}
           /\ completion'[p] = "value" =>
                completion[p] = "value" \/ pc[p] = "returned"
  PROVE  ClearedInv'
  BY DEF ClearedInv, Cleared, Past, required_prefix_tokens

LEMMA ClearedInductive ==
  ASSUME TypeOK, ProgressInv, GateInv, BarrierInv, BoundaryInv, SettleInv,
         ClearedInv, BarrierInv', [Next]_vars
  PROVE  ClearedInv'
  <1>0. /\ UNCHANGED pipeline
        /\ \A p \in Prefillers : p \in Node /\ p \notin Branches
    BY PipelineFixed, NodesAssumption DEF Branches
  <1>1. CASE UNCHANGED vars \/ Terminated
    BY <1>1, ClearedFrame
    DEF vars, Terminated, stateVars, exportVars, workerVars
  <1>2. CASE MainThread
    <2>1. /\ UNCHANGED <<completion, prefilled, prefix_snapshots>>
          /\ \A n \in Node : pc'[n] = pc[n] \/ pc'[n] = "gate"
      BY <1>2, MainConsumes, OthersDoNotPublish
      DEF MainThread, RegisterMilestone, SpawnWorker, BeginSpawn, SpawnFails,
          BeginJoin, JoinWorkers, Leave, FreePool, Unpublished, workerVars
    <2> QED
      BY <1>0, <2>1, ClearedFrame
  <1>3. ASSUME NEW n \in Node, Worker(n)
        PROVE  ClearedInv'
    <2>1. \A m \in Node \ {n} : /\ pc'[m] = pc[m]
                                /\ completion'[m] = completion[m]
      BY <1>3, WorkerMoves, WorkerOutcome
    <2>2. completion'[n] = "value" => pc[n] = "returned"
      BY <1>0, <1>3, WorkerSettles
    <2>3. CASE n \in Prefillers /\ PrefillNodeExecute(n) /\ UNCHANGED workerVars
      <3>1. \A q \in Prefillers : q = n
        BY <2>3, NodesAssumption
      <3>2. \A m \in Branches :
              /\ required_prefix_tokens(m) \in DOMAIN prefix_snapshots'
              /\ Cleared(n, required_prefix_tokens(m))'
              => Unhindered(pipeline, m)
        BY <1>0, <1>3, <2>3, PrefillClears
      <3> QED
        BY <1>0, <3>1, <3>2 DEF ClearedInv, required_prefix_tokens
    <2>4. CASE Gate(n) \/ Settle(n)
      <3>1. UNCHANGED <<prefilled, prefix_snapshots>>
        BY <2>4, OthersDoNotPublish
        DEF Gate, Settle, UnknownDependency, WaitWatermark, WaitCompletion,
            PassCompletion, BeginExecute, Fulfil, SettleAs, CatchException,
            Unpublished
      <3>2. pc'[n] = pc[n] \/ pc'[n] \in {"execute", "done", "abandoned"}
        BY <2>4
        DEF Gate, Settle, UnknownDependency, WaitWatermark, WaitCompletion,
            PassCompletion, BeginExecute, Fulfil, SettleAs, CatchException,
            Goto, TypeOK, NodeTypeOK, PcTypeOK
      <3> QED
        BY <1>0, <2>1, <2>2, <3>1, <3>2, ClearedFrame
    <2>5. CASE n \in Branches /\ AnalyticalNodeExecute(n)
               /\ UNCHANGED <<prefilled, workerVars>>
      BY <1>0, <2>1, <2>5, OthersDoNotPublish, ClearedFrame
      DEF Unpublished
    <2> QED
      BY <1>3, <2>3, <2>4, <2>5 DEF Worker, ExecuteStep
  <1> QED
    BY <1>1, <1>2, <1>3 DEF Next

LEMMA ClearedCorrect == Spec => []ClearedInv
  <1>1. Init => ClearedInv
    BY DEF Init, StateInit, EmptyMap, ClearedInv
  <1>2. /\ TypeOK /\ ProgressInv /\ GateInv /\ BarrierInv /\ BoundaryInv
        /\ SettleInv /\ ClearedInv /\ BarrierInv' /\ [Next]_vars
        => ClearedInv'
    BY ClearedInductive
  <1> QED
    BY <1>1, <1>2, TypeCorrect, ProgressCorrect, GateInvCorrect,
       BarrierCorrect, BoundaryCorrect, SettleCorrect, PTL DEF Spec

\* After a run that ended with the whole document prefilled, the wiring is
\* seen to have been satisfiable.
LEMMA ReturnedSatisfiable ==
  ASSUME TypeOK, RegisteredInv, JoinInv, GateInv, BoundaryInv, SettleInv,
         ClearedInv, NEW p \in Prefillers,
         main = "returned", completion[p] = "value"
  PROVE  Satisfiable(pipeline)
  <1>1. /\ spawned = Node /\ registered = Node /\ watermark = pipeline.total
        /\ pipeline.total \in Nat
    BY NodeType, PipelineType DEF SettleInv, RegisteredInv
  <1>2. \A n \in Node : pc[n] \in {"done", "abandoned"}
    BY <1>1 DEF JoinInv, Settled
  <1>3. \A n \in Node : Started(n) \/ pc[n] = "abandoned"
    BY <1>2 DEF Started
  <1>4. ASSUME NEW n \in Branches, Awaited(pipeline, n) \cap Prefillers # {}
        PROVE  pipeline.required[n] <= pipeline.total
    <2>1. PICK q \in Prefillers : q \in Awaited(pipeline, n)
      BY <1>4
    <2>2. n \in Node /\ required_prefix_tokens(n) \in Int
      BY NodeType, PipelineType DEF Branches
    <2>3. required_prefix_tokens(n) >= 0 =>
            watermark >= required_prefix_tokens(n)
      BY <1>3, <2>1, <2>2, AwaitedSatisfied
      DEF GatedByWatermark, is_prefill_provider
    <2> QED
      BY <1>1, <2>2, <2>3 DEF required_prefix_tokens
  <1>5. ASSUME NEW n \in Branches, IsMilestone(pipeline, pipeline.required[n])
        PROVE  Unhindered(pipeline, n)
    <2>1. /\ n \in Node
          /\ required_prefix_tokens(n) > 0
          /\ ChunkBoundary(required_prefix_tokens(n))
          /\ required_prefix_tokens(n) <= watermark
      BY <1>1, <1>5
      DEF IsMilestone, ChunkBoundary, required_prefix_tokens, Branches
    <2>2. required_prefix_tokens(n) \in DOMAIN prefix_snapshots
      BY <1>1, <2>1 DEF RegisteredInv, BoundaryInv, has_prefix_snapshot
    <2> QED
      BY <2>2 DEF ClearedInv, Cleared
  <1>6. ASSUME NEW n \in Branches, NEW m \in Node, n \in Awaited(pipeline, m)
        PROVE  ~Abandons(pipeline, n)
    <2>1. n \in Node /\ n \notin Prefillers
      BY DEF Branches
    <2>2. completion[n] # "pending"
      BY <1>3, <1>6, <2>1, AwaitedSatisfied
      DEF GatedByWatermark, is_prefill_provider
    <2>3. Started(n)
      BY <2>1, <2>2 DEF SettleInv, Started
    <2> QED
      BY <2>1, <2>3, StartedKnowsAll
  <1> QED
    BY <1>4, <1>5, <1>6 DEF Satisfiable

\* A pipeline in which a branch needs more of the document than the prefiller
\* reaches before it pauses for it, more than there is, or a node that never
\* starts, does not return from execute_pipeline when the prefiller works,
\* under any schedule and any failure of the branches.
THEOREM UnsatisfiableCorrect == Spec => []UnsatisfiableNeverReturns
  <1>1. /\ TypeOK /\ RegisteredInv /\ JoinInv /\ GateInv /\ BoundaryInv
        /\ SettleInv /\ ClearedInv
        => UnsatisfiableNeverReturns
    BY ReturnedSatisfiable DEF UnsatisfiableNeverReturns
  <1> QED
    BY <1>1, TypeCorrect, RegisteredCorrect, JoinInvCorrect, GateInvCorrect,
       BoundaryCorrect, SettleCorrect, ClearedCorrect, PTL

=============================================================================
