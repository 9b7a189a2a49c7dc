----------------------------- MODULE NodeProofs ----------------------------
(***************************************************************************)
(* What the methods of the blackboard preserve, and what one step of a     *)
(* node does to all that the nodes share, for use in the proofs about the  *)
(* programs that run them: Orchestrator and BenchmarkHarness.              *)
(***************************************************************************)
EXTENDS NodeProperties, FiniteSetTheorems, TLAPS

-----------------------------------------------------------------------------
(* The blackboard.                                                         *)

\* Assigning one entry of a map keeps it a map between the same sets.
LEMMA PutType ==
  ASSUME NEW D, NEW R, NEW map, DOMAIN map \subseteq D,
         map \in [DOMAIN map -> R], NEW k \in D, NEW v \in R
  PROVE  /\ DOMAIN Put(map, k, v) = DOMAIN map \cup {k}
         /\ DOMAIN Put(map, k, v) \subseteq D
         /\ Put(map, k, v) \in [DOMAIN Put(map, k, v) -> R]
  BY DEF Put

\* What Put does to each entry.
LEMMA PutApply ==
  ASSUME NEW map, NEW k, NEW v
  PROVE  /\ Put(map, k, v)[k] = v
         /\ \A x \in DOMAIN map : x # k => Put(map, k, v)[x] = map[x]
  BY DEF Put

\* A blob has a size.
LEMMA CellsSize == \A c \in Cells : Cardinality(c) \in Nat
  BY FS_CardinalityType DEF Cells

LEMMA StateInitType == StateInit => StateTypeOK
  <1>1. {} \in Cells
    BY FS_EmptySet DEF Cells
  <1>2. ASSUME NEW R
        PROVE  DOMAIN EmptyMap = {} /\ EmptyMap \in [{} -> R]
    BY DEF EmptyMap
  <1>3. SUFFICES ASSUME StateInit PROVE StateTypeOK
    OBVIOUS
  <1>4. /\ DOMAIN prefix_snapshots = {}
        /\ prefix_snapshots \in [DOMAIN prefix_snapshots -> PrefixKvSnapshot]
    BY <1>2, <1>3 DEF StateInit
  <1>5. /\ DOMAIN milestone_consumers_remaining = {}
        /\ milestone_consumers_remaining \in
             [DOMAIN milestone_consumers_remaining -> Int]
    BY <1>2, <1>3 DEF StateInit
  <1> QED
    BY <1>1, <1>3, <1>4, <1>5 DEF StateInit, StateTypeOK

\* Registering a positive milestone.
LEMMA RegisterType ==
  ASSUME StateTypeOK, NEW w \in Nat \ {0},
         register_snapshot_milestone(w), register_milestone_consumer(w),
         UNCHANGED <<materialized_branch_buffer, exportVars, watermark,
                     prefill_complete>>
  PROVE  StateTypeOK'
  <1>1. 1 + (IF w \in DOMAIN milestone_consumers_remaining
             THEN milestone_consumers_remaining[w] ELSE 0) \in Int
    BY DEF StateTypeOK
  <1>2. /\ DOMAIN milestone_consumers_remaining' \subseteq Nat \ {0}
        /\ milestone_consumers_remaining' \in
             [DOMAIN milestone_consumers_remaining' -> Int]
    <2> DEFINE m == milestone_consumers_remaining
               v == 1 + (IF w \in DOMAIN m THEN m[w] ELSE 0)
    <2>1. DOMAIN m \subseteq Nat \ {0} /\ m \in [DOMAIN m -> Int]
      BY DEF StateTypeOK
    <2>2. /\ DOMAIN Put(m, w, v) \subseteq Nat \ {0}
          /\ Put(m, w, v) \in [DOMAIN Put(m, w, v) -> Int]
      <3> HIDE DEF m, v
      <3>1. v \in Int
        BY <1>1 DEF v, m
      <3> QED
        BY <2>1, <3>1, PutType
    <2> QED
      BY <2>2 DEF register_milestone_consumer
  <1> QED
    BY <1>2 DEF StateTypeOK, register_snapshot_milestone, exportVars

LEMMA CommitPlainType ==
  ASSUME StateTypeOK, NEW t \in Nat, commit_plain(t)
  PROVE  StateTypeOK'
  BY DEF StateTypeOK, commit_plain, exportVars, milestoneVars

LEMMA CommitExportType ==
  ASSUME StateTypeOK, NEW t, NEW cells \in Cells, commit_export(t, cells)
  PROVE  StateTypeOK'
  BY DEF StateTypeOK, commit_export, exportVars, milestoneVars

LEMMA CommitPublishType ==
  ASSUME StateTypeOK, NEW t \in Nat, commit_publish(t)
  PROVE  StateTypeOK'
  <1>1. [data |-> materialized_branch_buffer, seq_len |-> t]
           \in PrefixKvSnapshot
    BY DEF StateTypeOK, PrefixKvSnapshot
  <1>2. /\ DOMAIN prefix_snapshots' \subseteq Nat
        /\ prefix_snapshots' \in [DOMAIN prefix_snapshots' -> PrefixKvSnapshot]
    <2> DEFINE m == prefix_snapshots
               v == [data |-> materialized_branch_buffer, seq_len |-> t]
    <2>1. DOMAIN m \subseteq Nat /\ m \in [DOMAIN m -> PrefixKvSnapshot]
      BY DEF StateTypeOK
    <2>2. /\ DOMAIN Put(m, t, v) \subseteq Nat
          /\ Put(m, t, v) \in [DOMAIN Put(m, t, v) -> PrefixKvSnapshot]
      <3> HIDE DEF m, v
      <3>1. v \in PrefixKvSnapshot
        BY <1>1 DEF v
      <3> QED
        BY <2>1, <3>1, PutType
    <2> QED
      BY <2>2 DEF commit_publish, publish, Exported
  <1>3. Cardinality(materialized_branch_buffer) \in Nat
    BY CellsSize DEF StateTypeOK
  <1> QED
    BY <1>2, <1>3 DEF StateTypeOK, commit_publish, publish, Exported,
                      milestoneVars

LEMMA MarkCompleteType ==
  ASSUME StateTypeOK, mark_prefill_complete
  PROVE  StateTypeOK'
  BY DEF StateTypeOK, mark_prefill_complete, exportVars, milestoneVars

LEMMA SignalType ==
  ASSUME StateTypeOK, NEW w, signal_milestone_consumed(w)
  PROVE  StateTypeOK'
  <1>1. /\ DOMAIN milestone_consumers_remaining' =
             DOMAIN milestone_consumers_remaining
        /\ milestone_consumers_remaining' \in
             [DOMAIN milestone_consumers_remaining -> Int]
    BY DEF StateTypeOK, signal_milestone_consumed, consume
  <1> QED
    BY <1>1 DEF StateTypeOK, signal_milestone_consumed, consume, exportVars

\* The waits, the wake-ups and the outputs leave the typed fields alone.
LEMMA SleepType ==
  ASSUME StateTypeOK, NEW t, NEW w,
         \/ sleep_for_watermark(t, w)
         \/ sleep_for_milestone_consumers(t, w)
         \/ publish_output(t, w)
  PROVE  StateTypeOK'
  BY DEF StateTypeOK, sleep_for_watermark, sleep_for_milestone_consumers,
         publish_output, exportVars, milestoneVars

LEMMA StateStutterType ==
  ASSUME StateTypeOK, UNCHANGED stateVars
  PROVE  StateTypeOK'
  BY DEF StateTypeOK, stateVars, exportVars, milestoneVars

-----------------------------------------------------------------------------
(* Types.                                                                  *)

\* What the assumptions say of the pipeline the caller configured.
LEMMA PipelineType ==
  ASSUME NodeTypeOK
  PROVE  /\ pipeline \in Pipeline
         /\ pipeline.total \in Nat
         /\ \A n \in Node : pipeline.prompt[n] \in Nat
         /\ \A n \in Node : required_prefix_tokens(n) \in Int
         /\ \A n \in Node : dependencies(n) \in Seq(Name)
         /\ \A p \in Prefillers : required_prefix_tokens(p) = -1
  BY PipelinesAssumption, NodesAssumption
  DEF NodeTypeOK, Pipeline, required_prefix_tokens, dependencies,
      WaitForPrefillComplete

\* The cells a context holds after a decode.
LEMMA DecodedCells ==
  ASSUME NEW c \in Cells, NEW pos \in Nat, NEW count \in Int
  PROVE  c \cup Positions(pos, count) \in Cells
  <1>1. IsFiniteSet(Positions(pos, count))
    BY FS_Interval DEF Positions
  <1>2. Positions(pos, count) \subseteq Nat
    BY DEF Positions
  <1> QED
    BY <1>1, <1>2, FS_Union DEF Cells

LEMMA NoCells == {} \in Cells
  BY FS_EmptySet DEF Cells

\* A copy of part of a blob is a blob.
LEMMA CopiedCells ==
  ASSUME NEW c \in Cells, NEW n
  PROVE  memcpy(c, n) \in Cells /\ materialize_branch_cache(c, n) \in Cells
  <1>1. ASSUME NEW m
        PROVE  memcpy(c, m) \in Cells
    <2>1. memcpy(c, m) \subseteq c /\ c \subseteq Nat /\ IsFiniteSet(c)
      BY DEF memcpy, Cells
    <2> QED
      BY <2>1, FS_Subset DEF Cells
  <1> QED
    BY <1>1 DEF materialize_branch_cache

\* The length of a chunk the prefiller is about to decode.
LEMMA ChunkType ==
  ASSUME NodeTypeOK, NEW p \in Prefillers
  PROVE  /\ prefilled[p] \in Nat
         /\ prefilled[p] <= pipeline.total => chunk(p) \in Nat
         /\ prefilled[p] < pipeline.total =>
              /\ chunk(p) > 0
              /\ prefilled[p] + chunk(p) <= pipeline.total
  <1>1. pipeline.total \in Nat /\ prefilled[p] \in Nat
    BY PipelineType DEF NodeTypeOK
  <1> QED
    BY <1>1, SizesAssumption DEF chunk

\* What a step leaves alone keeps its type.
LEMMA NodeFrame ==
  ASSUME NodeTypeOK
  PROVE  /\ UNCHANGED pipeline => (pipeline \in Pipelines)'
         /\ UNCHANGED stateVars => StateTypeOK' /\ WaitTypeOK'
         /\ UNCHANGED engineVars => EngineTypeOK'
         /\ UNCHANGED active_buffers =>
              (active_buffers \subseteq Branches \cup {Staging})'
         /\ UNCHANGED pc => PcTypeOK'
         /\ UNCHANGED prefilled => (prefilled \in [Prefillers -> Nat])'
         /\ UNCHANGED forkVars => ForkTypeOK'
  <1>1. UNCHANGED stateVars => StateTypeOK' /\ WaitTypeOK'
    BY StateStutterType DEF NodeTypeOK, stateVars, WaitTypeOK
  <1>2. UNCHANGED engineVars => EngineTypeOK'
    BY DEF NodeTypeOK, engineVars, EngineTypeOK
  <1>3. UNCHANGED forkVars => ForkTypeOK'
    BY DEF NodeTypeOK, forkVars, ForkTypeOK
  <1>4. UNCHANGED pc => PcTypeOK'
    BY DEF NodeTypeOK, PcTypeOK
  <1> QED
    BY <1>1, <1>2, <1>3, <1>4 DEF NodeTypeOK

\* A move of one worker to a location of its own program.
LEMMA GotoType ==
  ASSUME NodeTypeOK, NEW n \in Node, NEW from,
         NEW to \in WorkerPC \cup NodePC(n), Goto(n, from, to)
  PROVE  PcTypeOK'
  BY DEF NodeTypeOK, Goto, NodePC, PcTypeOK

\* The engine after a context was opened, extended or freed.
LEMMA EngineType ==
  ASSUME NodeTypeOK, NEW n \in Node, llama_guard' \in Node \cup {NoThread},
         \/ UNCHANGED <<live_ctx, kv>>
         \/ \E c \in Cells : llama_open(n, c)
         \/ \E pos \in Nat, count \in Int : llama_decode(n, pos, count)
         \/ llama_free(n)
  PROVE  EngineTypeOK'
  <1>1. CASE UNCHANGED <<live_ctx, kv>>
    BY <1>1 DEF NodeTypeOK, EngineTypeOK
  <1>2. CASE \E c \in Cells : llama_open(n, c)
    BY <1>2 DEF NodeTypeOK, EngineTypeOK, llama_open
  <1>3. CASE \E pos \in Nat, count \in Int : llama_decode(n, pos, count)
    <2>1. PICK pos \in Nat, count \in Int : llama_decode(n, pos, count)
      BY <1>3
    <2>2. kv[n] \cup Positions(pos, count) \in Cells
      BY DecodedCells DEF NodeTypeOK, EngineTypeOK
    <2> QED
      BY <2>1, <2>2 DEF NodeTypeOK, EngineTypeOK, llama_decode
  <1>4. CASE llama_free(n)
    BY <1>4, NoCells DEF NodeTypeOK, EngineTypeOK, llama_free
  <1> QED
    BY <1>1, <1>2, <1>3, <1>4

\* The mutex after a step that takes it, drops it or leaves it.
LEMMA GuardType ==
  ASSUME NodeTypeOK, NEW n \in Node,
         LockGuard(n) \/ UnlockGuard \/ UNCHANGED llama_guard
  PROVE  llama_guard' \in Node \cup {NoThread}
  BY DEF NodeTypeOK, EngineTypeOK, LockGuard, UnlockGuard

\* The waiters after a method of the blackboard.
LEMMA WaitType ==
  ASSUME NodeTypeOK, NEW n \in Node, UNCHANGED node_outputs,
         watermark_cv' \in {{}, watermark_cv, watermark_cv \cup {n}},
         \/ prefill_resume_cv' \in {{}, prefill_resume_cv}
         \/ n \in Prefillers /\ prefill_resume_cv' = prefill_resume_cv \cup {n}
  PROVE  WaitTypeOK'
  BY DEF NodeTypeOK, WaitTypeOK

LEMMA PrefillStepType ==
  ASSUME NodeTypeOK, NEW p \in Prefillers, PrefillNodeExecute(p),
         UNCHANGED <<pipeline, forkVars>>
  PROVE  NodeTypeOK'
  <1> DEFINE Locations == {"thrown", "returned"} \cup PrefillPC
  <1>0. /\ p \in Node
        /\ Locations \subseteq WorkerPC \cup NodePC(p)
    BY NodesAssumption DEF WorkerPC, NodePC
  <1>g. ASSUME NEW from, NEW to \in Locations, Goto(p, from, to)
        PROVE  PcTypeOK'
    BY <1>0, <1>g, GotoType
  <1>f. (pipeline \in Pipelines)' /\ ForkTypeOK'
    BY NodeFrame
  <1> HIDE DEF Locations
  <1>1. CASE PrefillInit(p)
    <2>1. PcTypeOK'
      BY <1>1, <1>g DEF PrefillInit, Throw, Locations, PrefillPC
    <2>2. EngineTypeOK'
      BY <1>0, <1>1, GuardType, EngineType, NoCells DEF PrefillInit, Throw
    <2> QED
      BY <1>1, <1>f, <2>1, <2>2, NodeFrame DEF PrefillInit, NodeTypeOK
  <1>2. CASE PrefillTokenize(p)
    <2>1. PcTypeOK'
      BY <1>2, <1>g DEF PrefillTokenize, Throw, Locations, PrefillPC
    <2>2. EngineTypeOK'
      BY <1>0, <1>2, GuardType, EngineType DEF PrefillTokenize, Throw,
                                               engineVars
    <2> QED
      BY <1>2, <1>f, <2>1, <2>2, NodeFrame DEF PrefillTokenize, NodeTypeOK
  <1>3. CASE BeginChunk(p)
    <2>1. PcTypeOK'
      BY <1>3, <1>g DEF BeginChunk, Locations, PrefillPC
    <2>2. EngineTypeOK'
      BY <1>0, <1>3, GuardType, EngineType DEF BeginChunk
    <2> QED
      BY <1>3, <1>f, <2>1, <2>2, NodeFrame DEF BeginChunk, NodeTypeOK
  <1>4. CASE DecodeChunk(p)
    <2>1. PcTypeOK'
      BY <1>4, <1>g DEF DecodeChunk, ThrowUnderGuard, Locations, PrefillPC
    <2>2. /\ prefilled[p] \in Nat /\ chunk(p) \in Int
          /\ prefilled[p] + chunk(p) \in Nat
      BY PipelineType, SizesAssumption DEF NodeTypeOK, chunk
    <2>3. EngineTypeOK'
      BY <1>0, <1>4, <2>2, GuardType, EngineType DEF DecodeChunk,
                                                     ThrowUnderGuard
    <2>4. prefilled' \in [Prefillers -> Nat]
      BY <1>4, <2>2 DEF DecodeChunk, NodeTypeOK
    <2> QED
      BY <1>4, <1>f, <2>1, <2>3, <2>4, NodeFrame DEF DecodeChunk, NodeTypeOK
  <1>5. CASE CommitChunk(p)
    <2>1. PcTypeOK'
      BY <1>5, <1>g DEF CommitChunk, Locations, PrefillPC
    <2>2. EngineTypeOK'
      BY <1>0, <1>5, GuardType, EngineType DEF CommitChunk
    <2>3. StateTypeOK'
      BY <1>5, CommitPlainType DEF CommitChunk, NodeTypeOK
    <2>4. WaitTypeOK'
      BY <1>0, <1>5, WaitType DEF CommitChunk, commit_plain
    <2> QED
      BY <1>5, <1>f, <2>1, <2>2, <2>3, <2>4, NodeFrame
      DEF CommitChunk, NodeTypeOK
  <1>6. CASE ExportMilestone(p)
    <2>1. PcTypeOK'
      BY <1>6, <1>g DEF ExportMilestone, ThrowUnderGuard, Locations, PrefillPC
    <2>2. EngineTypeOK'
      BY <1>0, <1>6, GuardType, EngineType DEF ExportMilestone, ThrowUnderGuard
    <2>3. CASE UNCHANGED stateVars
      BY <1>6, <1>f, <2>1, <2>2, <2>3, NodeFrame
      DEF ExportMilestone, NodeTypeOK
    <2>4. CASE \E c \in Cells : commit_export(prefilled[p], c)
      <3>1. StateTypeOK'
        BY <2>4, CommitExportType DEF NodeTypeOK
      <3>2. WaitTypeOK'
        BY <1>0, <2>4, WaitType DEF commit_export
      <3> QED
        BY <1>6, <1>f, <2>1, <2>2, <3>1, <3>2, NodeFrame DEF ExportMilestone,
                                                         NodeTypeOK
    <2>5. kv[p] \in Cells
      BY <1>0 DEF NodeTypeOK, EngineTypeOK
    <2> QED
      BY <1>6, <2>3, <2>4, <2>5, NoCells DEF ExportMilestone
  <1>7. CASE PublishMilestone(p)
    <2>1. PcTypeOK'
      BY <1>7, <1>g DEF PublishMilestone, Locations, PrefillPC
    <2>2. EngineTypeOK'
      BY <1>0, <1>7, GuardType, EngineType DEF PublishMilestone
    <2>3. StateTypeOK'
      BY <1>7, CommitPublishType DEF PublishMilestone, NodeTypeOK
    <2>4. WaitTypeOK'
      BY <1>0, <1>7, WaitType DEF PublishMilestone, commit_publish, publish,
                                  Exported
    <2> QED
      BY <1>7, <1>f, <2>1, <2>2, <2>3, <2>4, NodeFrame
      DEF PublishMilestone, NodeTypeOK
  <1>8. CASE ReleaseContext(p)
    <2>1. PcTypeOK'
      BY <1>8, <1>g DEF ReleaseContext, Locations, PrefillPC
    <2>2. EngineTypeOK'
      BY <1>0, <1>8, GuardType, EngineType DEF ReleaseContext
    <2> QED
      BY <1>8, <1>f, <2>1, <2>2, NodeFrame DEF ReleaseContext, NodeTypeOK
  <1>9. CASE AwaitConsumers(p)
    <2>1. PcTypeOK'
      BY <1>9, <1>g DEF AwaitConsumers, Locations, PrefillPC
    <2>2. CASE wait_for_milestone_consumers(p, prefilled[p])
      BY <1>9, <1>f, <2>1, <2>2, NodeFrame
      DEF AwaitConsumers, wait_for_milestone_consumers, NodeTypeOK
    <2>3. CASE sleep_for_milestone_consumers(p, prefilled[p])
      <3>1. StateTypeOK'
        BY <2>3, SleepType DEF NodeTypeOK
      <3>2. WaitTypeOK'
        BY <1>0, <2>3, WaitType DEF sleep_for_milestone_consumers
      <3> QED
        BY <1>9, <1>f, <2>1, <3>1, <3>2, NodeFrame
        DEF AwaitConsumers, NodeTypeOK
    <2> QED
      BY <1>9, <2>2, <2>3 DEF AwaitConsumers
  <1>10. CASE ResumeLock(p)
    <2>1. PcTypeOK'
      BY <1>10, <1>g DEF ResumeLock, Locations, PrefillPC
    <2>2. EngineTypeOK'
      BY <1>0, <1>10, GuardType, EngineType DEF ResumeLock
    <2> QED
      BY <1>10, <1>f, <2>1, <2>2, NodeFrame DEF ResumeLock, NodeTypeOK
  <1>11. CASE RestorePrefix(p)
    <2>1. PcTypeOK'
      BY <1>11, <1>g DEF RestorePrefix, ThrowUnderGuard, Locations, PrefillPC
    <2>2. has_prefix_snapshot(prefilled[p]) =>
             prefix_snapshots[prefilled[p]].data \in Cells
      BY DEF NodeTypeOK, StateTypeOK, has_prefix_snapshot, PrefixKvSnapshot
    <2>3. EngineTypeOK'
      BY <1>0, <1>11, <2>2, GuardType, EngineType, NoCells
      DEF RestorePrefix, ThrowUnderGuard
    <2> QED
      BY <1>11, <1>f, <2>1, <2>3, NodeFrame DEF RestorePrefix, NodeTypeOK
  <1>12. CASE CompletePrefill(p)
    <2>1. PcTypeOK'
      BY <1>12, <1>g DEF CompletePrefill, Locations, PrefillPC
    <2>2. StateTypeOK'
      BY <1>12, MarkCompleteType DEF CompletePrefill, NodeTypeOK
    <2>3. WaitTypeOK'
      BY <1>0, <1>12, WaitType DEF CompletePrefill, mark_prefill_complete
    <2> QED
      BY <1>12, <1>f, <2>1, <2>2, <2>3, NodeFrame
      DEF CompletePrefill, NodeTypeOK
  <1>13. CASE FreePrefill(p)
    <2>1. PcTypeOK'
      BY <1>13, <1>g DEF FreePrefill, Locations
    <2>2. EngineTypeOK'
      BY <1>0, <1>13, GuardType, EngineType DEF FreePrefill
    <2> QED
      BY <1>13, <1>f, <2>1, <2>2, NodeFrame DEF FreePrefill, NodeTypeOK
  <1> QED
    BY <1>1, <1>2, <1>3, <1>4, <1>5, <1>6, <1>7, <1>8, <1>9, <1>10, <1>11,
       <1>12, <1>13 DEF PrefillNodeExecute

\* The snapshot of a watermark branch that has forked is there to the end.
\* The types are inductive only together with this: a map is read at a key it
\* has.
ForkedFromSnapshot ==
  \A n \in Branches :
    Forked(n) /\ forks_at_watermark(n) =>
      has_prefix_snapshot(required_prefix_tokens(n))

LEMMA BranchStepType ==
  ASSUME NodeTypeOK, ForkedFromSnapshot, NEW n \in Branches,
  AnalyticalNodeExecute(n),
         UNCHANGED <<pipeline, prefilled>>
  PROVE  NodeTypeOK'
  <1> DEFINE Locations == {"thrown", "returned"} \cup BranchPC
  <1>0. /\ n \in Node /\ n \notin Prefillers
        /\ Locations \subseteq WorkerPC \cup NodePC(n)
    BY DEF Branches, WorkerPC, NodePC
  <1>g. ASSUME NEW from, NEW to \in Locations, Goto(n, from, to)
        PROVE  PcTypeOK'
    BY <1>0, <1>g, GotoType
  <1>t. ASSUME NEW from, ThrowUnderGuard(n, from)
        PROVE  PcTypeOK' /\ llama_guard' \in Node \cup {NoThread}
    BY <1>0, <1>t, <1>g, GuardType DEF ThrowUnderGuard, Locations
  <1>f. (pipeline \in Pipelines)' /\ (prefilled \in [Prefillers -> Nat])'
    BY NodeFrame
  <1>w. required_prefix_tokens(n) \in Int
    BY <1>0, PipelineType
  <1> HIDE DEF Locations
  <1>1. CASE EnterBranch(n)
    <2>1. PcTypeOK'
      BY <1>1, <1>g DEF EnterBranch, Locations, BranchPC
    <2>2. EngineTypeOK'
      BY <1>0, <1>1, GuardType, EngineType DEF EnterBranch
    <2> QED
      BY <1>1, <1>f, <2>1, <2>2, NodeFrame DEF EnterBranch, NodeTypeOK
  <1>2. CASE ForkSnapshot(n)
    <2>1. PcTypeOK'
      BY <1>2, <1>g, <1>t DEF ForkSnapshot, Locations, BranchPC
    <2>2. EngineTypeOK'
      BY <1>0, <1>2, <1>t, GuardType, EngineType DEF ForkSnapshot
    <2>3. ASSUME has_prefix_snapshot(required_prefix_tokens(n))
          PROVE  LET s == prefix_snapshots[required_prefix_tokens(n)]
                 IN  s.seq_len \in Nat /\ Cardinality(s.data) \in Nat
      BY <2>3, CellsSize
      DEF NodeTypeOK, StateTypeOK, has_prefix_snapshot, PrefixKvSnapshot
    <2>4. ForkTypeOK'
      BY <1>2, <2>3, NodeFrame
      DEF ForkSnapshot, NodeTypeOK, ForkTypeOK, forkVars
    <2> QED
      BY <1>2, <1>f, <2>1, <2>2, <2>4, NodeFrame DEF ForkSnapshot, NodeTypeOK
  <1>3. CASE ForkCanonical(n)
    <2>1. PcTypeOK'
      BY <1>3, <1>g, <1>t DEF ForkCanonical, Locations, BranchPC
    <2>2. EngineTypeOK'
      BY <1>0, <1>3, <1>t, GuardType, EngineType DEF ForkCanonical
    <2>3. ForkTypeOK'
      BY <1>3 DEF ForkCanonical, NodeTypeOK, StateTypeOK, ForkTypeOK
    <2> QED
      BY <1>3, <1>f, <2>1, <2>2, <2>3, NodeFrame DEF ForkCanonical, NodeTypeOK
  <1>4. CASE Materialize(n)
    <2>1. PcTypeOK'
      BY <1>4, <1>g, <1>t DEF Materialize, Locations, BranchPC
    <2>2. EngineTypeOK'
      BY <1>0, <1>4, <1>t, GuardType, EngineType DEF Materialize
    <2>3. (active_buffers \subseteq Branches \cup {Staging})'
      BY <1>4 DEF Materialize, allocate_cache, NodeTypeOK
    <2>4. forks_at_watermark(n) =>
            prefix_snapshots[required_prefix_tokens(n)].data \in Cells
      BY <1>4 DEF Materialize, Goto, ThrowUnderGuard, ForkedFromSnapshot, Forked,
                  BranchPC,
                  has_prefix_snapshot, NodeTypeOK, StateTypeOK,
                  PrefixKvSnapshot
    <2>5. ForkTypeOK'
      BY <1>4, <2>4, CopiedCells
      DEF Materialize, NodeTypeOK, StateTypeOK, ForkTypeOK
    <2> QED
      BY <1>4, <1>f, <2>1, <2>2, <2>3, <2>5, NodeFrame
      DEF Materialize, NodeTypeOK
  <1>5. CASE OpenBranchContext(n)
    <2>1. PcTypeOK'
      BY <1>5, <1>g, <1>t DEF OpenBranchContext, Locations, BranchPC
    <2>2. branch_buf[n] \in Cells
      BY DEF NodeTypeOK, ForkTypeOK
    <2>3. EngineTypeOK'
      BY <1>0, <1>5, <1>t, <2>2, GuardType, EngineType DEF OpenBranchContext
    <2> QED
      BY <1>5, <1>f, <2>1, <2>3, NodeFrame DEF OpenBranchContext, NodeTypeOK
  <1>6. CASE PrepareBatch(n)
    <2>1. PcTypeOK'
      BY <1>6, <1>g, <1>t DEF PrepareBatch, Locations, BranchPC
    <2>2. EngineTypeOK'
      BY <1>0, <1>6, <1>t, GuardType, EngineType DEF PrepareBatch, engineVars
    <2> QED
      BY <1>6, <1>f, <2>1, <2>2, NodeFrame DEF PrepareBatch, NodeTypeOK
  <1>7. CASE DecodeBranch(n)
    <2>1. PcTypeOK'
      BY <1>7, <1>g, <1>t DEF DecodeBranch, Locations, BranchPC
    <2>2. fork_prefix_len[n] \in Nat /\ pipeline.prompt[n] \in Nat
      BY <1>0, PipelineType DEF NodeTypeOK, ForkTypeOK
    <2>3. EngineTypeOK'
      BY <1>0, <1>7, <1>t, <2>2, GuardType, EngineType DEF DecodeBranch
    <2> QED
      BY <1>7, <1>f, <2>1, <2>3, NodeFrame DEF DecodeBranch, NodeTypeOK
  <1>8. CASE PublishOutput(n)
    <2>1. PcTypeOK'
      BY <1>8, <1>g DEF PublishOutput, Locations, BranchPC
    <2>2. PICK out : publish_output(n, out)
      BY <1>8 DEF PublishOutput
    <2>3. StateTypeOK'
      BY <2>2, SleepType DEF NodeTypeOK
    <2>4. WaitTypeOK'
      BY <2>2 DEF publish_output, Put, NodeTypeOK, WaitTypeOK
    <2> QED
      BY <1>8, <1>f, <2>1, <2>3, <2>4, NodeFrame DEF PublishOutput, NodeTypeOK
  <1>9. CASE CloseBranchContext(n)
    <2>1. PcTypeOK'
      BY <1>9, <1>g DEF CloseBranchContext, Locations, BranchPC
    <2>2. EngineTypeOK'
      BY <1>0, <1>9, GuardType, EngineType DEF CloseBranchContext
    <2> QED
      BY <1>9, <1>f, <2>1, <2>2, NodeFrame DEF CloseBranchContext, NodeTypeOK
  <1>10. CASE SignalConsumed(n)
    <2>1. PcTypeOK'
      BY <1>10, <1>g DEF SignalConsumed, Locations
    <2>2. EngineTypeOK'
      BY <1>0, <1>10, GuardType, EngineType DEF SignalConsumed
    <2>3. StateTypeOK'
      BY <1>10, SignalType DEF SignalConsumed, NodeTypeOK
    <2>4. WaitTypeOK'
      BY <1>0, <1>10, WaitType DEF SignalConsumed, signal_milestone_consumed,
                                   consume
    <2> QED
      BY <1>10, <1>f, <2>1, <2>2, <2>3, <2>4, NodeFrame
      DEF SignalConsumed, NodeTypeOK
  <1> QED
    BY <1>1, <1>2, <1>3, <1>4, <1>5, <1>6, <1>7, <1>8, <1>9, <1>10
    DEF AnalyticalNodeExecute

-----------------------------------------------------------------------------
(* LlamaGuard: every lock has an unlock on every path, whatever fails.     *)

Inside(n) == pc[n] \in GuardedPC(n)

\* What a step of worker n may do to the mutex: nothing, outside or inside
\* its scope; take it on the way in; drop it on the way out.
Disciplined(n) ==
  /\ \A m \in Node \ {n} : pc'[m] = pc[m]
  /\ \/ ~Inside(n) /\ ~Inside(n)' /\ UNCHANGED llama_guard
     \/ ~Inside(n) /\ Inside(n)' /\ LockGuard(n)
     \/ Inside(n) /\ Inside(n)' /\ UNCHANGED llama_guard
     \/ Inside(n) /\ ~Inside(n)' /\ UnlockGuard

LEMMA DisciplineKeepsGuard ==
  ASSUME NodeTypeOK, GuardHeldInScope, NEW n \in Node, Disciplined(n)
  PROVE  GuardHeldInScope'
  BY NoThreadAssumption
  DEF NodeTypeOK, EngineTypeOK, GuardHeldInScope, Disciplined, Inside,
      GuardedPC,
      LockGuard, UnlockGuard

LEMMA GotoDiscipline ==
  ASSUME NodeTypeOK, NEW n \in Node, NEW from, NEW to, Goto(n, from, to)
  PROVE  /\ pc[n] = from /\ pc'[n] = to
         /\ \A m \in Node \ {n} : pc'[m] = pc[m]
  BY DEF Goto, NodeTypeOK, PcTypeOK

LEMMA PrefillDiscipline ==
  ASSUME NodeTypeOK, NEW p \in Prefillers, PrefillNodeExecute(p)
  PROVE  Disciplined(p)
  <1>0. p \in Node
    BY NodesAssumption
  <1>1. CASE PrefillInit(p) \/ PrefillTokenize(p)
    BY <1>0, <1>1, GotoDiscipline
    DEF PrefillInit, PrefillTokenize, Throw, engineVars, Disciplined, Inside,
        GuardedPC
  <1>2. CASE BeginChunk(p) \/ ResumeLock(p)
    BY <1>0, <1>2, GotoDiscipline
    DEF BeginChunk, ResumeLock, Disciplined, Inside, GuardedPC
  <1>3. CASE DecodeChunk(p) \/ ExportMilestone(p) \/ RestorePrefix(p)
    BY <1>0, <1>3, GotoDiscipline
    DEF DecodeChunk, ExportMilestone, RestorePrefix, ThrowUnderGuard,
        Disciplined, Inside, GuardedPC
  <1>4. CASE CommitChunk(p) \/ PublishMilestone(p)
    BY <1>0, <1>4, GotoDiscipline
    DEF CommitChunk, PublishMilestone, Disciplined, Inside, GuardedPC
  <1>5. CASE ReleaseContext(p) \/ AwaitConsumers(p) \/ CompletePrefill(p)
               \/ FreePrefill(p)
    BY <1>0, <1>5, GotoDiscipline
    DEF ReleaseContext, AwaitConsumers, CompletePrefill, FreePrefill,
        engineVars, Disciplined, Inside, GuardedPC
  <1> QED
    BY <1>1, <1>2, <1>3, <1>4, <1>5 DEF PrefillNodeExecute

LEMMA BranchDiscipline ==
  ASSUME NodeTypeOK, NEW n \in Branches, AnalyticalNodeExecute(n)
  PROVE  Disciplined(n)
  <1>0. n \in Node /\ n \notin Prefillers
    BY DEF Branches
  <1>1. CASE EnterBranch(n) \/ SignalConsumed(n)
    BY <1>0, <1>1, GotoDiscipline
    DEF EnterBranch, SignalConsumed, Disciplined, Inside, GuardedPC, BranchPC
  <1>2. CASE ForkSnapshot(n) \/ ForkCanonical(n) \/ Materialize(n)
    BY <1>0, <1>2, GotoDiscipline
    DEF ForkSnapshot, ForkCanonical, Materialize, ThrowUnderGuard,
        Disciplined, Inside, GuardedPC, BranchPC
  <1>3. CASE OpenBranchContext(n) \/ PrepareBatch(n) \/ DecodeBranch(n)
    BY <1>0, <1>3, GotoDiscipline
    DEF OpenBranchContext, PrepareBatch, DecodeBranch, ThrowUnderGuard,
        engineVars, Disciplined, Inside, GuardedPC, BranchPC
  <1>4. CASE PublishOutput(n) \/ CloseBranchContext(n)
    BY <1>0, <1>4, GotoDiscipline
    DEF PublishOutput, CloseBranchContext, engineVars, Disciplined, Inside,
        GuardedPC, BranchPC
  <1> QED
    BY <1>1, <1>2, <1>3, <1>4 DEF AnalyticalNodeExecute

-----------------------------------------------------------------------------
(* Progress of the prefiller.                                              *)

\* What has been published lags behind what the prefiller has decoded, and
\* strictly so while the chunk just decoded is being committed.
Lag(w, p) ==
  /\ w <= prefilled[p]
  /\ pc[p] \in {"commit", "publish"} => w < prefilled[p]

ProgressInv ==
  \A p \in Prefillers :
    /\ prefilled[p] <= pipeline.total
    /\ pc[p] = "decode" => prefilled[p] < pipeline.total
    /\ Lag(watermark, p)
    /\ \A w \in DOMAIN prefix_snapshots : Lag(w, p)

\* The blackboard as a step of anyone but the committing prefiller leaves it.
Unpublished == UNCHANGED <<watermark, prefix_snapshots>>

\* The steps of the prefiller, by what they do to its progress: nothing, a
\* chunk decoded, its watermark published, its snapshot published.
Quiet(p) ==
  /\ Unpublished
  /\ UNCHANGED prefilled
  /\ pc[p] \in {"commit", "publish"} => pc'[p] \in {"publish", "thrown"}
  /\ pc'[p] \in {"commit", "publish"} => pc[p] \in {"commit", "publish"}
  /\ pc'[p] = "decode" => prefilled[p] < pipeline.total
Advances(p) ==
  /\ Unpublished
  /\ pc[p] = "decode" /\ pc'[p] = "commit"
  /\ prefilled' = [prefilled EXCEPT ![p] = @ + chunk(p)]
Announces(p) ==
  /\ UNCHANGED <<prefilled, prefix_snapshots>>
  /\ watermark' = prefilled[p]
  /\ ~is_snapshot_milestone(prefilled[p])
  /\ pc[p] = "commit" /\ pc'[p] = "loop"
Freezes(p) ==
  /\ UNCHANGED prefilled
  /\ watermark' = prefilled[p]
  /\ prefix_snapshots' =
       Put(prefix_snapshots, prefilled[p],
           [data |-> materialized_branch_buffer, seq_len |-> prefilled[p]])
  /\ pc[p] = "publish" /\ pc'[p] = "release"

LEMMA PrefillProgress ==
  ASSUME NodeTypeOK, NEW p \in Prefillers, PrefillNodeExecute(p)
  PROVE  Quiet(p) \/ Advances(p) \/ Announces(p) \/ Freezes(p)
  <1>0. ASSUME NEW from, NEW to, Goto(p, from, to)
        PROVE  pc[p] = from /\ pc'[p] = to
    BY <1>0, NodesAssumption DEF Goto, NodeTypeOK, PcTypeOK
  <1>1. CASE PrefillInit(p) \/ PrefillTokenize(p) \/ BeginChunk(p)
             \/ ReleaseContext(p) \/ ResumeLock(p) \/ RestorePrefix(p)
             \/ FreePrefill(p)
    BY <1>0, <1>1
    DEF PrefillInit, PrefillTokenize, BeginChunk, ReleaseContext, ResumeLock,
        RestorePrefix, FreePrefill, Throw, ThrowUnderGuard, stateVars,
        exportVars, Unpublished, Quiet
  <1>2. CASE AwaitConsumers(p) \/ CompletePrefill(p) \/ ExportMilestone(p)
    BY <1>0, <1>2
    DEF AwaitConsumers, CompletePrefill, ExportMilestone, ThrowUnderGuard,
        wait_for_milestone_consumers, sleep_for_milestone_consumers,
        mark_prefill_complete, commit_export, stateVars, exportVars,
        Unpublished, Quiet
  <1>3. CASE DecodeChunk(p)
    BY <1>0, <1>3
    DEF DecodeChunk, ThrowUnderGuard, stateVars, exportVars, Unpublished,
        Quiet, Advances
  <1>4. CASE CommitChunk(p) \/ PublishMilestone(p)
    BY <1>0, <1>4
    DEF CommitChunk, PublishMilestone, commit_plain, commit_publish, publish,
        Exported,
        exportVars, Announces, Freezes
  <1> QED
    BY <1>1, <1>2, <1>3, <1>4 DEF PrefillNodeExecute

\* The order of the prefiller's steps, and what it checked on the way.
LEMMA PrefillOrder ==
  ASSUME NodeTypeOK, NEW p \in Prefillers, PrefillNodeExecute(p)
  PROVE  /\ UNCHANGED snapshot_milestones
         /\ pc'[p] \notin {"idle", "gate", "execute"}
         /\ pc'[p] = "tokenize" => pc[p] = "execute" /\ UNCHANGED prefilled
         /\ pc'[p] = "loop" => pc[p] \in {"tokenize", "commit", "restore"}
         /\ pc'[p] = "decode" => pc[p] = "loop"
         /\ pc'[p] = "publish" =>
              UNCHANGED prefilled /\ prefilled[p] \in snapshot_milestones
         /\ pc'[p] = "resume" => milestone_consumed(prefilled[p])
         /\ pc'[p] = "restore" => pc[p] = "resume"
  <1>1. ASSUME NEW from, NEW to, Goto(p, from, to)
        PROVE  pc[p] = from /\ pc'[p] = to
    BY <1>1, NodesAssumption DEF Goto, NodeTypeOK, PcTypeOK
  <1> QED
    BY <1>1
    DEF PrefillNodeExecute, PrefillInit, PrefillTokenize, BeginChunk,
        DecodeChunk, CommitChunk, ExportMilestone, PublishMilestone,
        ReleaseContext, AwaitConsumers, ResumeLock, RestorePrefix,
        CompletePrefill, FreePrefill, commit_plain, commit_export,
        is_snapshot_milestone, commit_publish, publish,
        wait_for_milestone_consumers, sleep_for_milestone_consumers,
        mark_prefill_complete, Throw, ThrowUnderGuard, stateVars,
        milestoneVars

\* A step of the prefiller keeps what is published at or below what is
\* decoded.
LEMMA PrefillKeepsProgress ==
  ASSUME NodeTypeOK, ProgressInv, NEW p \in Prefillers, PrefillNodeExecute(p),
         UNCHANGED pipeline
  PROVE  ProgressInv'
  <1>1. \A q \in Prefillers : q = p
    BY NodesAssumption
  <1>2. /\ pipeline.total \in Nat /\ watermark \in Nat /\ prefilled[p] \in Nat
        /\ prefilled[p] < pipeline.total =>
             /\ chunk(p) > 0 /\ chunk(p) \in Nat
             /\ prefilled[p] + chunk(p) <= pipeline.total
        /\ prefilled \in [Prefillers -> Nat]
        /\ DOMAIN prefix_snapshots \subseteq Nat
    BY PipelineType, ChunkType DEF NodeTypeOK, StateTypeOK
  <1>3. SUFFICES /\ prefilled'[p] <= pipeline.total
                 /\ pc'[p] = "decode" => prefilled'[p] < pipeline.total
                 /\ Lag(watermark, p)'
                 /\ \A w \in DOMAIN prefix_snapshots' : Lag(w, p)'
    BY <1>1 DEF ProgressInv, Lag
  <1> USE <1>2
  <1>4. CASE Quiet(p)
    BY <1>4 DEF Quiet, ProgressInv, Lag, Unpublished
  <1>5. CASE Advances(p)
    <2>1. prefilled'[p] = prefilled[p] + chunk(p)
      BY <1>5 DEF Advances
    <2> QED
      BY <1>5, <2>1 DEF Advances, ProgressInv, Lag, Unpublished
  <1>6. CASE Announces(p)
    BY <1>6 DEF Announces, ProgressInv, Lag
  <1>7. CASE Freezes(p)
    <2>1. DOMAIN prefix_snapshots' =
            DOMAIN prefix_snapshots \cup {prefilled[p]}
      BY <1>7 DEF Freezes, Put
    <2> QED
      BY <1>7, <2>1 DEF Freezes, ProgressInv, Lag
  <1> QED
    BY <1>4, <1>5, <1>6, <1>7, PrefillProgress

\* What is published is not changed by anyone but a prefiller that commits,
\* and what is frozen stays frozen.
LEMMA ProgressFrame ==
  ASSUME ProgressInv, Unpublished, UNCHANGED <<pipeline, prefilled>>,
         \A p \in Prefillers :
           pc'[p] = pc[p] \/ pc'[p] \notin {"decode", "commit", "publish"}
  PROVE  ProgressInv'
  BY DEF ProgressInv, Lag, Unpublished

LEMMA SnapshotsGrow ==
  ASSUME NodeTypeOK, NEW p \in Prefillers, PrefillNodeExecute(p)
  PROVE  DOMAIN prefix_snapshots \subseteq DOMAIN prefix_snapshots'
  BY PrefillProgress
  DEF Quiet, Advances, Announces, Freezes, Unpublished, Put

-----------------------------------------------------------------------------
(* What the step of one node leaves to the others.                         *)

\* A step of execute() is taken inside it.
LEMMA ExecuteMoves ==
  ASSUME NodeTypeOK, NEW n \in Node
  PROVE  /\ n \in Prefillers /\ PrefillNodeExecute(n) =>
              /\ pc[n] \in PrefillPC
              /\ pc'[n] \notin {"idle", "gate", "execute", "done"}
         /\ n \in Branches /\ AnalyticalNodeExecute(n) =>
              /\ pc[n] \in BranchPC
              /\ pc'[n] \notin {"idle", "gate", "execute", "done"}
  <1>1. ASSUME NEW from, NEW to, Goto(n, from, to)
        PROVE  pc[n] = from /\ pc'[n] = to
    BY <1>1, GotoDiscipline
  <1>2. ASSUME PrefillNodeExecute(n)
        PROVE  /\ pc[n] \in PrefillPC
               /\ pc'[n] \notin {"idle", "gate", "execute", "done"}
    BY <1>1, <1>2
    DEF PrefillNodeExecute, PrefillInit, PrefillTokenize, BeginChunk,
        DecodeChunk, CommitChunk, ExportMilestone, PublishMilestone,
        ReleaseContext, AwaitConsumers, ResumeLock, RestorePrefix,
        CompletePrefill, FreePrefill, Throw, ThrowUnderGuard, PrefillPC
  <1>3. ASSUME AnalyticalNodeExecute(n)
        PROVE  /\ pc[n] \in BranchPC
               /\ pc'[n] \notin {"idle", "gate", "execute", "done"}
    BY <1>1, <1>3
    DEF AnalyticalNodeExecute, EnterBranch, ForkSnapshot, ForkCanonical,
        Materialize, OpenBranchContext, PrepareBatch, DecodeBranch,
        PublishOutput, CloseBranchContext, SignalConsumed, ThrowUnderGuard,
        BranchPC
  <1> QED
    BY <1>2, <1>3

\* The prefiller registers nothing, consumes nothing, answers nothing and
\* touches neither a buffer of the pool nor another context.
LEMMA PrefillLeaves ==
  ASSUME NEW p, PrefillNodeExecute(p)
  PROVE  /\ UNCHANGED <<milestoneVars, node_outputs, active_buffers>>
         /\ live_ctx' \ {p} = live_ctx \ {p}
  BY DEF PrefillNodeExecute, PrefillInit, PrefillTokenize, BeginChunk,
         DecodeChunk, CommitChunk, ExportMilestone, PublishMilestone,
         ReleaseContext, AwaitConsumers, ResumeLock, RestorePrefix,
         CompletePrefill, FreePrefill, commit_plain, commit_export,
         commit_publish, publish, wait_for_milestone_consumers,
         sleep_for_milestone_consumers, mark_prefill_complete, llama_open,
         llama_free, llama_decode, engineVars, stateVars

\* A branch publishes no prefix and touches no other context; it gives up
\* its share of a milestone in the step that ends it, and only there.
LEMMA BranchLeaves ==
  ASSUME NodeTypeOK, NEW n \in Branches, AnalyticalNodeExecute(n)
  PROVE  /\ Unpublished
         /\ UNCHANGED <<prefix_seq_len, prefill_complete, snapshot_milestones>>
         /\ live_ctx' \ {n} = live_ctx \ {n}
         /\ DOMAIN milestone_consumers_remaining' =
              DOMAIN milestone_consumers_remaining
         /\ \/ /\ pc[n] = "signal" /\ pc'[n] = "returned"
               /\ signal_milestone_consumed(required_prefix_tokens(n))
            \/ /\ pc'[n] # "returned"
               /\ UNCHANGED milestone_consumers_remaining
  <1>1. ASSUME NEW from, NEW to, Goto(n, from, to)
        PROVE  pc[n] = from /\ pc'[n] = to
    BY <1>1, GotoDiscipline DEF Branches
  <1>2. CASE SignalConsumed(n)
    BY <1>1, <1>2
    DEF SignalConsumed, signal_milestone_consumed, consume, exportVars,
        Unpublished
  <1>3. CASE ~SignalConsumed(n)
    BY <1>1, <1>3
    DEF AnalyticalNodeExecute, EnterBranch, ForkSnapshot, ForkCanonical,
        Materialize, OpenBranchContext, PrepareBatch, DecodeBranch,
        PublishOutput, CloseBranchContext, ThrowUnderGuard, publish_output,
        llama_open, llama_free, llama_decode, engineVars, stateVars,
        exportVars, milestoneVars, Unpublished
  <1> QED
    BY <1>2, <1>3

\* A branch answers in one step, with the length it forked.
LEMMA BranchAnswers ==
  ASSUME NodeTypeOK, NEW n \in Branches, AnalyticalNodeExecute(n)
  PROVE  \/ /\ pc[n] = "output" /\ pc'[n] = "close"
            /\ publish_output(n, [n_tok |-> pipeline.prompt[n],
                                  prefix |-> fork_prefix_len[n],
                                  watermark |-> required_prefix_tokens(n)])
            /\ UNCHANGED fork_prefix_len
         \/ pc[n] # "output" /\ pc'[n] # "close" /\ UNCHANGED node_outputs
  <1>1. ASSUME NEW from, NEW to, Goto(n, from, to)
        PROVE  pc[n] = from /\ pc'[n] = to
    BY <1>1, GotoDiscipline DEF Branches
  <1>2. CASE PublishOutput(n)
    BY <1>1, <1>2 DEF PublishOutput, forkVars
  <1>3. CASE ~PublishOutput(n)
    BY <1>1, <1>3
    DEF AnalyticalNodeExecute, EnterBranch, ForkSnapshot, ForkCanonical,
        Materialize, OpenBranchContext, PrepareBatch, DecodeBranch,
        CloseBranchContext, SignalConsumed, ThrowUnderGuard,
        signal_milestone_consumed, consume, stateVars
  <1> QED
    BY <1>2, <1>3

\* A branch looks up the length it forks once, and a watermark branch in the
\* snapshot of its watermark.
LEMMA BranchForks ==
  ASSUME NodeTypeOK, NEW n \in Branches, AnalyticalNodeExecute(n)
  PROVE  \/ /\ pc[n] # "fork" /\ pc'[n] # "materialize"
            /\ UNCHANGED fork_prefix_len
         \/ /\ pc[n] = "fork" /\ pc'[n] = "thrown"
            /\ \/ UNCHANGED fork_prefix_len
               \/ /\ ~forks_at_watermark(n)
                  /\ fork_prefix_len' =
                       [fork_prefix_len EXCEPT ![n] = prefix_seq_len]
         \/ /\ pc[n] = "fork" /\ pc'[n] = "materialize"
            /\ \/ /\ ~forks_at_watermark(n)
                  /\ fork_prefix_len' =
                       [fork_prefix_len EXCEPT ![n] = prefix_seq_len]
               \/ /\ forks_at_watermark(n)
                  /\ has_prefix_snapshot(required_prefix_tokens(n))
                  /\ fork_prefix_len' =
                       [fork_prefix_len EXCEPT
                          ![n] = prefix_snapshots
                                   [required_prefix_tokens(n)].seq_len]
  <1>1. ASSUME NEW from, NEW to, Goto(n, from, to)
        PROVE  pc[n] = from /\ pc'[n] = to
    BY <1>1, GotoDiscipline DEF Branches
  <1>2. CASE ForkSnapshot(n) \/ ForkCanonical(n)
    BY <1>1, <1>2
    DEF ForkSnapshot, ForkCanonical, ThrowUnderGuard, forkVars
  <1>3. CASE ~(ForkSnapshot(n) \/ ForkCanonical(n))
    BY <1>1, <1>3
    DEF AnalyticalNodeExecute, EnterBranch, Materialize, OpenBranchContext,
        PrepareBatch, DecodeBranch, PublishOutput, CloseBranchContext,
        SignalConsumed, ThrowUnderGuard, forkVars
  <1> QED
    BY <1>2, <1>3

\* A watermark branch goes on to copy only a snapshot it has found.
LEMMA ForkFinds ==
  ASSUME NodeTypeOK, NEW n \in Branches, AnalyticalNodeExecute(n),
         ~Forked(n), Forked(n)', forks_at_watermark(n)
  PROVE  has_prefix_snapshot(required_prefix_tokens(n))
  <1>1. ASSUME NEW from, NEW to, Goto(n, from, to)
        PROVE  pc[n] = from /\ pc'[n] = to
    BY <1>1, GotoDiscipline DEF Branches
  <1>2. ForkSnapshot(n) \/ ForkCanonical(n)
    BY <1>1
    DEF AnalyticalNodeExecute, EnterBranch, Materialize, OpenBranchContext,
        PrepareBatch, DecodeBranch, PublishOutput, CloseBranchContext,
        SignalConsumed, ThrowUnderGuard, Forked, BranchPC
  <1> QED
    BY <1>1, <1>2
    DEF ForkSnapshot, ForkCanonical, ThrowUnderGuard, Forked, BranchPC

=============================================================================
