-------------------------- MODULE RefinementProofs -------------------------
(***************************************************************************)
(* The KV cache a node decodes after is exactly the document prefix before *)
(* the position it decodes at, and with that every step of the composed    *)
(* pipeline is a step of SharedPrefix, or moves nothing that SharedPrefix  *)
(* shows; both provided that the engine never reports an export of 0 bytes.*)
(***************************************************************************)
EXTENDS OrchestratorRefinement, ConsumerProofs

-----------------------------------------------------------------------------
(* What a context, the staging buffer, a snapshot and a branch buffer hold *)
(* at each location of execute().                                          *)

LEMMA PositionsSize ==
  ASSUME NEW w \in Nat
  PROVE  Cardinality(Positions(0, w)) = w
  <1>1. Cardinality(0 .. w - 1) = w
    BY FS_Interval
  <1> QED
    BY <1>1 DEF Positions

\* Decoding the next chunk extends a prefix to a longer one.
LEMMA PositionsJoin ==
  ASSUME NEW w \in Nat, NEW c \in Nat
  PROVE  Positions(0, w) \cup Positions(w, c) = Positions(0, w + c)
  BY DEF Positions

\* A copy of all the bytes of a prefix is that prefix.
LEMMA PositionsCopied ==
  ASSUME NEW w \in Nat \ {0}
  PROVE  /\ memcpy(Positions(0, w), w) = Positions(0, w)
         /\ materialize_branch_cache(Positions(0, w), w) = Positions(0, w)
  <1>1. ASSUME NEW c \in Positions(0, w)
        PROVE  Cardinality({d \in Positions(0, w) : d < c}) < w
    <2>1. c \in Nat /\ c < w
      BY <1>1 DEF Positions
    <2>2. {d \in Positions(0, w) : d < c} = Positions(0, c)
      BY <2>1 DEF Positions
    <2> QED
      BY <2>1, <2>2, PositionsSize
  <1> QED
    BY <1>1 DEF memcpy, materialize_branch_cache

LEMMA NoPositions == Positions(0, 0) = {}
  BY DEF Positions

\* The context of a prefiller holds the document up to what it has decoded.
PrefillKV(p) ==
  /\ pc[p] \in {"idle", "gate", "execute", "tokenize"} => prefilled[p] = 0
  /\ pc[p] \in {"tokenize", "loop", "decode", "commit", "publish"} =>
       kv[p] = Positions(0, prefilled[p])

\* The last canonical export is that of the longest snapshot.
LongestExported ==
  /\ prefix_seq_len \in DOMAIN prefix_snapshots
       \/ (prefix_seq_len = 0 /\ DOMAIN prefix_snapshots = {})
  /\ \A w \in DOMAIN prefix_snapshots : w <= prefix_seq_len

\* A snapshot of w holds w tokens, and the staging buffer the tokens of the
\* last canonical export, except between the export and its publication.
ExportKV ==
  /\ LongestExported
  /\ \A w \in DOMAIN prefix_snapshots :
       prefix_snapshots[w] = [data |-> Positions(0, w), seq_len |-> w]
  /\ prefix_kv_serial_bytes = prefix_seq_len
  /\ \A p \in Prefillers :
       pc[p] = "publish" =>
         materialized_branch_buffer = Positions(0, prefilled[p])
  /\ (\A p \in Prefillers : pc[p] # "publish") =>
       materialized_branch_buffer = Positions(0, prefix_seq_len)

\* What a branch has read, copied and restored at each step of its fork.
ForkKV(n) ==
  /\ pc[n] \in {"idle", "gate", "execute", "fork", "materialize"} =>
       branch_buf[n] = {}
  /\ pc[n] = "materialize" => fork_kv_bytes[n] = fork_prefix_len[n]
  /\ pc[n] \in {"materialize", "open"} /\ ~forks_at_watermark(n) =>
       fork_prefix_len[n] = prefix_seq_len
  /\ /\ pc[n] \in {"materialize", "open", "prepare", "decode"}
     /\ forks_at_watermark(n)
     => fork_prefix_len[n] = required_prefix_tokens(n)
  /\ pc[n] = "open" => branch_buf[n] = Positions(0, fork_prefix_len[n])
  /\ pc[n] \in {"prepare", "decode"} => kv[n] = Positions(0, fork_prefix_len[n])
  /\ pc[n] = "output" =>
       kv[n] = Positions(0, fork_prefix_len[n] + pipeline.prompt[n])

PrefixInv ==
  /\ \A p \in Prefillers : PrefillKV(p)
  /\ ExportKV
  /\ \A n \in Branches : ForkKV(n)

-----------------------------------------------------------------------------
(* A step of the prefiller.                                                *)

\* The part of the blackboard that carries KV, and what a branch keeps.
kvBoard == <<materialized_branch_buffer, exportVars>>

LEMMA PrefillKVInductive ==
  ASSUME TypeOK, ProgressInv, PrefixInv, "export" \notin PrefillFaults,
         NEW p \in Prefillers, PrefillNodeExecute(p)
  PROVE  PrefillKV(p)'
  <1>0. /\ p \in Node /\ prefilled[p] \in Nat
        /\ prefilled \in [Prefillers -> Nat] /\ kv \in [Node -> Cells]
    BY NodesAssumption DEF TypeOK, NodeTypeOK, EngineTypeOK
  <1>1. ASSUME NEW from, NEW to, Goto(p, from, to)
        PROVE  pc[p] = from /\ pc'[p] = to
    BY <1>0, <1>1 DEF Goto, TypeOK, NodeTypeOK, PcTypeOK
  <1>2. PrefillKV(p)
    BY DEF PrefixInv
  <1>3. CASE PrefillInit(p)
    BY <1>0, <1>1, <1>2, <1>3, NoPositions
    DEF PrefillInit, Throw, llama_open, PrefillKV
  <1>4. CASE PrefillTokenize(p) \/ BeginChunk(p)
    BY <1>0, <1>1, <1>2, <1>4
    DEF PrefillTokenize, BeginChunk, Throw, engineVars, PrefillKV
  <1>5. CASE DecodeChunk(p)
    <2>1. CASE pc'[p] = "thrown"
      BY <2>1 DEF PrefillKV
    <2>2. CASE pc'[p] # "thrown"
      <3>1. /\ pc[p] = "decode" /\ pc'[p] = "commit"
            /\ llama_decode(p, prefilled[p], chunk(p))
            /\ prefilled'[p] = prefilled[p] + chunk(p)
        BY <1>0, <1>1, <1>5, <2>2 DEF DecodeChunk, ThrowUnderGuard
      <3>2. chunk(p) \in Nat
        BY <3>1, NodeType, ChunkType DEF ProgressInv
      <3>3. kv'[p] = Positions(0, prefilled[p]) \cup Positions(prefilled[p], chunk(p))
        BY <1>0, <1>2, <3>1 DEF llama_decode, PrefillKV
      <3> QED
        BY <1>0, <3>1, <3>2, <3>3, PositionsJoin DEF PrefillKV
    <2> QED
      BY <2>1, <2>2
  <1>6. CASE CommitChunk(p) \/ ExportMilestone(p)
    BY <1>0, <1>1, <1>2, <1>6
    DEF CommitChunk, ExportMilestone, ThrowUnderGuard, PrefillKV
  <1>7. CASE PublishMilestone(p) \/ ReleaseContext(p) \/ AwaitConsumers(p)
             \/ ResumeLock(p) \/ CompletePrefill(p) \/ FreePrefill(p)
    BY <1>1, <1>7
    DEF PublishMilestone, ReleaseContext, AwaitConsumers, ResumeLock,
        CompletePrefill, FreePrefill, PrefillKV
  <1>8. CASE RestorePrefix(p)
    <2>1. CASE pc'[p] = "thrown"
      BY <2>1 DEF PrefillKV
    <2>2. CASE pc'[p] # "thrown"
      <3>1. /\ pc'[p] = "loop" /\ prefilled'[p] = prefilled[p]
            /\ has_prefix_snapshot(prefilled[p])
            /\ kv'[p] = prefix_snapshots[prefilled[p]].data
        BY <1>0, <1>1, <1>8, <2>2
        DEF RestorePrefix, ThrowUnderGuard, llama_open
      <3> QED
        BY <3>1 DEF PrefixInv, ExportKV, has_prefix_snapshot, PrefillKV
    <2> QED
      BY <2>1, <2>2
  <1> QED
    BY <1>3, <1>4, <1>5, <1>6, <1>7, <1>8 DEF PrefillNodeExecute

LEMMA ExportKVInductive ==
  ASSUME TypeOK, ProgressInv, PrefixInv, "export" \notin PrefillFaults,
         NEW p \in Prefillers, PrefillNodeExecute(p)
  PROVE  ExportKV'
  <1>0. /\ p \in Node /\ prefilled[p] \in Nat
        /\ \A q \in Prefillers : q = p
    BY NodesAssumption DEF TypeOK, NodeTypeOK
  <1>1. ASSUME NEW from, NEW to, Goto(p, from, to)
        PROVE  pc[p] = from /\ pc'[p] = to
    BY <1>0, <1>1 DEF Goto, TypeOK, NodeTypeOK, PcTypeOK
  <1>2. ExportKV /\ PrefillKV(p)
    BY DEF PrefixInv
  <1>3. ASSUME UNCHANGED kvBoard, pc[p] # "publish", pc'[p] # "publish"
        PROVE  ExportKV'
    BY <1>0, <1>2, <1>3 DEF ExportKV, LongestExported, kvBoard, exportVars
  <1>4. CASE PrefillInit(p) \/ PrefillTokenize(p) \/ BeginChunk(p)
             \/ DecodeChunk(p) \/ ReleaseContext(p) \/ ResumeLock(p)
             \/ RestorePrefix(p) \/ FreePrefill(p)
    BY <1>1, <1>3, <1>4
    DEF PrefillInit, PrefillTokenize, BeginChunk, DecodeChunk, ReleaseContext,
        ResumeLock, RestorePrefix, FreePrefill, Throw, ThrowUnderGuard,
        stateVars, kvBoard
  <1>5. CASE CommitChunk(p) \/ AwaitConsumers(p) \/ CompletePrefill(p)
    BY <1>1, <1>3, <1>5
    DEF CommitChunk, AwaitConsumers, CompletePrefill, commit_plain,
        wait_for_milestone_consumers, sleep_for_milestone_consumers,
        mark_prefill_complete, stateVars, kvBoard
  <1>6. CASE ExportMilestone(p)
    <2>1. CASE UNCHANGED stateVars /\ pc'[p] = "thrown"
      BY <1>1, <1>3, <1>6, <2>1
      DEF ExportMilestone, ThrowUnderGuard, stateVars, kvBoard
    <2>2. CASE commit_export(prefilled[p], kv[p]) /\ pc'[p] = "publish"
      <3>1. pc[p] = "commit" /\ UNCHANGED prefilled
        BY <1>1, <1>6 DEF ExportMilestone, ThrowUnderGuard
      <3> QED
        BY <1>0, <1>2, <2>2, <3>1
        DEF commit_export, exportVars, ExportKV, LongestExported, PrefillKV
    <2> QED
      BY <1>1, <1>6, <2>1, <2>2 DEF ExportMilestone, ThrowUnderGuard
  <1>7. CASE PublishMilestone(p)
    <2>1. /\ pc[p] = "publish" /\ pc'[p] = "release" /\ UNCHANGED prefilled
          /\ commit_publish(prefilled[p])
      BY <1>1, <1>7 DEF PublishMilestone
    <2>2. materialized_branch_buffer = Positions(0, prefilled[p])
      BY <1>2, <2>1 DEF ExportKV
    <2>3. Cardinality(materialized_branch_buffer) = prefilled[p]
      BY <1>0, <2>2, PositionsSize
    <2>4. ASSUME NEW w \in DOMAIN prefix_snapshots'
          PROVE  prefix_snapshots'[w] = [data |-> Positions(0, w), seq_len |-> w]
      BY <1>2, <2>1, <2>2, <2>4 DEF commit_publish, publish, Exported, Put,
                                    ExportKV
    <2>5. LongestExported'
      <3>1. \A w \in DOMAIN prefix_snapshots : w \in Nat /\ w <= prefilled[p]
        BY <2>1 DEF TypeOK, NodeTypeOK, StateTypeOK, ProgressInv, Lag
      <3> QED
        BY <1>0, <2>1, <3>1
        DEF commit_publish, publish, Put, LongestExported
    <2> QED
      BY <1>0, <2>1, <2>2, <2>3, <2>4, <2>5
      DEF commit_publish, publish, Exported, ExportKV
  <1> QED
    BY <1>4, <1>5, <1>6, <1>7 DEF PrefillNodeExecute

\* A prefiller cannot publish an export while a branch is between reading
\* the lengths of the last one and copying its bytes: both hold the guard.
LEMMA PrefillLeavesForks ==
  ASSUME TypeOK, GuardHeldInScope, PrefixInv, NEW p \in Prefillers,
         PrefillNodeExecute(p), UNCHANGED <<pipeline, forkVars>>,
         NEW n \in Branches
  PROVE  ForkKV(n)'
  <1>0. p \in Node /\ n \in Node /\ n # p /\ n \notin Prefillers
    BY NodesAssumption DEF Branches
  <1>1. pc'[n] = pc[n]
    BY <1>0, NodeType, PrefillDiscipline DEF Disciplined
  <1>2. kv'[n] = kv[n]
    BY <1>0
    DEF PrefillNodeExecute, PrefillInit, PrefillTokenize, BeginChunk,
        DecodeChunk, CommitChunk, ExportMilestone, PublishMilestone,
        ReleaseContext, AwaitConsumers, ResumeLock, RestorePrefix,
        CompletePrefill, FreePrefill, llama_open, llama_decode, llama_free,
        engineVars, TypeOK, NodeTypeOK, EngineTypeOK
  <1>3. ASSUME pc[n] \in {"materialize", "open"}
        PROVE  UNCHANGED prefix_seq_len
    <2>1. pc[p] # "publish"
      BY <1>0, <1>3, NoThreadAssumption
      DEF GuardHeldInScope, GuardedPC, BranchPC
    <2>2. ~PublishMilestone(p)
      BY <2>1 DEF PublishMilestone, Goto
    <2> QED
      BY <2>2
      DEF PrefillNodeExecute, PrefillInit, PrefillTokenize, BeginChunk,
          DecodeChunk, CommitChunk, ExportMilestone, ReleaseContext,
          AwaitConsumers, ResumeLock, RestorePrefix, CompletePrefill,
          FreePrefill, commit_plain, commit_export,
          wait_for_milestone_consumers, sleep_for_milestone_consumers,
          mark_prefill_complete, stateVars, exportVars
  <1>4. UNCHANGED <<fork_prefix_len, fork_kv_bytes, branch_buf, pipeline>>
    BY DEF forkVars
  <1>5. ForkKV(n)
    BY DEF PrefixInv
  <1> QED
    BY <1>1, <1>2, <1>3, <1>4, <1>5
    DEF ForkKV, forks_at_watermark, required_prefix_tokens

-----------------------------------------------------------------------------
(* A step of a branch.                                                     *)

LEMMA BranchLeavesOthers ==
  ASSUME TypeOK, PrefixInv, NEW n \in Branches, AnalyticalNodeExecute(n),
         UNCHANGED <<pipeline, prefilled>>
  PROVE  /\ ExportKV'
         /\ \A p \in Prefillers : PrefillKV(p)'
         /\ \A m \in Branches \ {n} : ForkKV(m)'
  <1>0. n \in Node /\ n \notin Prefillers /\ Prefillers \subseteq Node
    BY NodesAssumption DEF Branches
  <1>1. \A m \in Node \ {n} : pc'[m] = pc[m]
    BY NodeType, BranchDiscipline DEF Disciplined
  <1>2. UNCHANGED kvBoard
    BY DEF AnalyticalNodeExecute, EnterBranch, ForkSnapshot, ForkCanonical,
           Materialize, OpenBranchContext, PrepareBatch, DecodeBranch,
           PublishOutput, CloseBranchContext, SignalConsumed, publish_output,
           signal_milestone_consumed, consume, stateVars, exportVars, kvBoard
  <1>3. \A m \in Node \ {n} : kv'[m] = kv[m]
    BY DEF AnalyticalNodeExecute, EnterBranch, ForkSnapshot, ForkCanonical,
           Materialize, OpenBranchContext, PrepareBatch, DecodeBranch,
           PublishOutput, CloseBranchContext, SignalConsumed, llama_open,
           llama_decode, llama_free, engineVars, TypeOK, NodeTypeOK,
           EngineTypeOK
  <1>4. \A m \in Branches \ {n} :
          /\ fork_prefix_len'[m] = fork_prefix_len[m]
          /\ fork_kv_bytes'[m] = fork_kv_bytes[m]
          /\ branch_buf'[m] = branch_buf[m]
    BY DEF AnalyticalNodeExecute, EnterBranch, ForkSnapshot, ForkCanonical,
           Materialize, OpenBranchContext, PrepareBatch, DecodeBranch,
           PublishOutput, CloseBranchContext, SignalConsumed, forkVars, TypeOK,
           NodeTypeOK, ForkTypeOK
  <1>5. ExportKV'
    BY <1>0, <1>1, <1>2
    DEF PrefixInv, ExportKV, LongestExported, kvBoard, exportVars
  <1>6. \A p \in Prefillers : PrefillKV(p)'
    BY <1>0, <1>1, <1>3 DEF PrefixInv, PrefillKV
  <1>7. ASSUME NEW m \in Branches \ {n}
        PROVE  ForkKV(m)'
    <2>1. pc'[m] = pc[m] /\ kv'[m] = kv[m] /\ ForkKV(m)
      BY <1>0, <1>1, <1>3 DEF PrefixInv, Branches
    <2>2. UNCHANGED prefix_seq_len
      BY <1>2 DEF kvBoard, exportVars
    <2> QED
      BY <1>4, <2>1, <2>2
      DEF ForkKV, forks_at_watermark, required_prefix_tokens
  <1> QED
    BY <1>5, <1>6, <1>7

LEMMA ForkKVInductive ==
  ASSUME TypeOK, ForkedFromSnapshot, GuardHeldInScope, PrefixInv,
         NEW n \in Branches, AnalyticalNodeExecute(n),
         UNCHANGED <<pipeline, prefilled>>
  PROVE  ForkKV(n)'
  <1>0. /\ n \in Node /\ required_prefix_tokens(n) \in Int
        /\ kv \in [Node -> Cells] /\ prefix_seq_len \in Nat
        /\ fork_prefix_len \in [Branches -> Nat]
        /\ fork_kv_bytes \in [Branches -> Nat]
        /\ branch_buf \in [Branches -> Cells]
        /\ DOMAIN prefix_snapshots \subseteq Nat
    BY PipelineType
    DEF Branches, TypeOK, NodeTypeOK, StateTypeOK, EngineTypeOK, ForkTypeOK
  <1>1. ASSUME NEW from, NEW to, Goto(n, from, to)
        PROVE  pc[n] = from /\ pc'[n] = to
    BY <1>0, <1>1 DEF Goto, TypeOK, NodeTypeOK, PcTypeOK
  <1>2. ForkKV(n) /\ ExportKV
    BY DEF PrefixInv
  <1>3. /\ required_prefix_tokens(n)' = required_prefix_tokens(n)
        /\ forks_at_watermark(n)' <=> forks_at_watermark(n)
    BY DEF forks_at_watermark, required_prefix_tokens
  <1>4. CASE EnterBranch(n)
    BY <1>0, <1>1, <1>2, <1>4 DEF EnterBranch, forkVars, ForkKV
  <1>5. CASE ForkSnapshot(n)
    <2>1. CASE pc'[n] = "thrown"
      BY <2>1 DEF ForkKV
    <2>2. CASE pc'[n] # "thrown"
      <3> DEFINE w == required_prefix_tokens(n)
      <3>1. /\ pc[n] = "fork" /\ pc'[n] = "materialize"
            /\ forks_at_watermark(n)
            /\ w \in DOMAIN prefix_snapshots
            /\ fork_prefix_len'[n] = prefix_snapshots[w].seq_len
            /\ fork_kv_bytes'[n] = Cardinality(prefix_snapshots[w].data)
            /\ branch_buf'[n] = branch_buf[n]
        BY <1>0, <1>1, <1>5, <2>2
        DEF ForkSnapshot, ThrowUnderGuard, has_prefix_snapshot
      <3>2. fork_prefix_len'[n] = w /\ fork_kv_bytes'[n] = w
        BY <1>0, <1>2, <3>1, PositionsSize DEF ExportKV
      <3> QED
        BY <1>2, <1>3, <3>1, <3>2 DEF ForkKV
    <2> QED
      BY <2>1, <2>2
  <1>6. CASE ForkCanonical(n)
    <2>1. CASE pc'[n] = "thrown"
      BY <2>1 DEF ForkKV
    <2>2. CASE pc'[n] # "thrown"
      <3>1. /\ pc[n] = "fork" /\ pc'[n] = "materialize"
            /\ ~forks_at_watermark(n)
            /\ fork_prefix_len'[n] = prefix_seq_len
            /\ fork_kv_bytes'[n] = prefix_kv_serial_bytes
            /\ branch_buf'[n] = branch_buf[n]
            /\ UNCHANGED prefix_seq_len
        BY <1>0, <1>1, <1>6, <2>2
        DEF ForkCanonical, ThrowUnderGuard, stateVars, exportVars
      <3> QED
        BY <1>2, <1>3, <3>1 DEF ForkKV, ExportKV
    <2> QED
      BY <2>1, <2>2
  <1>7. CASE Materialize(n)
    <2>1. CASE pc'[n] = "thrown"
      BY <2>1 DEF ForkKV
    <2>2. CASE pc'[n] # "thrown"
      <3>1. /\ pc[n] = "materialize" /\ pc'[n] = "open"
            /\ fork_prefix_len'[n] = fork_prefix_len[n]
            /\ UNCHANGED prefix_seq_len
        BY <1>0, <1>1, <1>7, <2>2
        DEF Materialize, ThrowUnderGuard, stateVars, exportVars
      <3>2. CASE fork_kv_bytes[n] = 0
        <4>1. branch_buf'[n] = {}
          BY <1>0, <1>2, <1>7, <2>2, <3>1, <3>2
          DEF Materialize, ThrowUnderGuard, ForkKV
        <4> QED
          BY <1>2, <1>3, <3>1, <3>2, <4>1, NoPositions DEF ForkKV
      <3>3. CASE fork_kv_bytes[n] > 0 /\ forks_at_watermark(n)
        <4> DEFINE data == prefix_snapshots[required_prefix_tokens(n)].data
        <4>1. branch_buf'[n] = memcpy(data, fork_kv_bytes[n])
          BY <1>0, <1>1, <1>7, <2>2, <3>3 DEF Materialize, ThrowUnderGuard
        <4>2. required_prefix_tokens(n) \in DOMAIN prefix_snapshots
          BY <3>1, <3>3
          DEF ForkedFromSnapshot, Forked, BranchPC, has_prefix_snapshot
        <4>3. /\ fork_kv_bytes[n] = fork_prefix_len[n]
              /\ data = Positions(0, fork_prefix_len[n])
          BY <1>2, <3>1, <3>3, <4>2 DEF ForkKV, ExportKV
        <4>4. branch_buf'[n] = Positions(0, fork_prefix_len[n])
          BY <1>0, <3>3, <4>1, <4>3, PositionsCopied
        <4> QED
          BY <1>2, <1>3, <3>1, <3>3, <4>4 DEF ForkKV
      <3>4. CASE fork_kv_bytes[n] > 0 /\ ~forks_at_watermark(n)
        <4>1. branch_buf'[n] = materialize_branch_cache(
                                 materialized_branch_buffer, fork_kv_bytes[n])
          BY <1>0, <1>1, <1>7, <2>2, <3>4 DEF Materialize, ThrowUnderGuard
        <4>2. \A p \in Prefillers : pc[p] # "publish"
          BY <1>0, <3>1, NoThreadAssumption, NodesAssumption
          DEF GuardHeldInScope, GuardedPC, BranchPC, Branches
        <4>3. /\ fork_kv_bytes[n] = fork_prefix_len[n]
              /\ materialized_branch_buffer = Positions(0, fork_prefix_len[n])
          BY <1>2, <3>1, <3>4, <4>2 DEF ForkKV, ExportKV
        <4>4. branch_buf'[n] = Positions(0, fork_prefix_len[n])
          BY <1>0, <3>4, <4>1, <4>3, PositionsCopied
        <4> QED
          BY <1>2, <1>3, <3>1, <3>4, <4>4 DEF ForkKV
      <3> QED
        BY <1>0, <3>2, <3>3, <3>4
    <2> QED
      BY <2>1, <2>2
  <1>8. CASE OpenBranchContext(n)
    BY <1>0, <1>1, <1>2, <1>3, <1>8
    DEF OpenBranchContext, ThrowUnderGuard, llama_open, forkVars, ForkKV
  <1>9. CASE PrepareBatch(n)
    BY <1>0, <1>1, <1>2, <1>3, <1>9
    DEF PrepareBatch, ThrowUnderGuard, engineVars, forkVars, ForkKV
  <1>10. CASE DecodeBranch(n)
    <2>1. CASE pc'[n] = "thrown"
      BY <2>1 DEF ForkKV
    <2>2. CASE pc'[n] # "thrown"
      <3>1. /\ pc[n] = "decode" /\ pc'[n] = "output" /\ UNCHANGED forkVars
            /\ llama_decode(n, fork_prefix_len[n], pipeline.prompt[n])
        BY <1>1, <1>10, <2>2 DEF DecodeBranch, ThrowUnderGuard
      <3>2. kv'[n] = Positions(0, fork_prefix_len[n])
                     \cup Positions(fork_prefix_len[n], pipeline.prompt[n])
        BY <1>0, <1>2, <3>1 DEF llama_decode, ForkKV
      <3>3. fork_prefix_len[n] \in Nat /\ pipeline.prompt[n] \in Nat
        BY <1>0, NodeType, PipelineType
      <3> QED
        BY <3>1, <3>2, <3>3, PositionsJoin DEF ForkKV, forkVars
    <2> QED
      BY <2>1, <2>2
  <1>11. CASE PublishOutput(n) \/ CloseBranchContext(n) \/ SignalConsumed(n)
    BY <1>1, <1>11
    DEF PublishOutput, CloseBranchContext, SignalConsumed,
        ThrowUnderGuard, ForkKV
  <1> QED
    BY <1>4, <1>5, <1>6, <1>7, <1>8, <1>9, <1>10, <1>11
    DEF AnalyticalNodeExecute

-----------------------------------------------------------------------------
(* The orchestrator.                                                       *)

\* Registering, launching, waiting and settling touch no KV.
LEMMA OrchestratorLeavesPrefix ==
  ASSUME TypeOK, PrefixInv, UNCHANGED pipeline,
         MainThread \/ \E n \in Node : Gate(n) \/ Settle(n)
  PROVE  PrefixInv'
  <1>1. UNCHANGED <<kvBoard, kv, prefilled, forkVars>>
    BY DEF MainThread, RegisterMilestone, SpawnWorker, BeginSpawn, SpawnFails,
           BeginJoin, JoinWorkers, Leave, FreePool, Gate, Settle,
           UnknownDependency,
           WaitWatermark, WaitCompletion, PassCompletion, BeginExecute,
           Fulfil, SettleAs,
           CatchException, wait_for_watermark, sleep_for_watermark,
           signal_milestone_consumed, consume, stateVars, exportVars,
           engineVars,
           kvBoard
  <1>2. ASSUME NEW m \in Node
        PROVE  \/ pc'[m] = pc[m]
               \/ /\ pc[m] \in {"idle", "gate"}
                  /\ pc'[m] \in {"gate", "execute", "abandoned"}
               \/ pc[m] # "publish" /\ pc'[m] = "done"
    BY DEF MainThread, RegisterMilestone, SpawnWorker, BeginSpawn, SpawnFails,
           BeginJoin, JoinWorkers, Leave, FreePool, Gate, Settle,
           UnknownDependency, WaitWatermark, WaitCompletion, PassCompletion,
           BeginExecute, Fulfil, SettleAs, CatchException, Goto, TypeOK,
           NodeTypeOK, PcTypeOK
  <1>3. Prefillers \subseteq Node /\ Branches \subseteq Node
    BY NodesAssumption DEF Branches
  <1>4. ExportKV'
    BY <1>1, <1>2, <1>3
    DEF PrefixInv, ExportKV, LongestExported, kvBoard, exportVars
  <1>5. ASSUME NEW p \in Prefillers
        PROVE  PrefillKV(p)'
    <2>1. PrefillKV(p) /\ p \in Node
      BY <1>3 DEF PrefixInv
    <2> QED
      BY <1>1, <1>2, <2>1 DEF PrefillKV
  <1>6. ASSUME NEW n \in Branches
        PROVE  ForkKV(n)'
    <2>1. ForkKV(n) /\ n \in Node
      BY <1>3 DEF PrefixInv
    <2> QED
      BY <1>1, <1>2, <2>1
      DEF ForkKV, kvBoard, exportVars, forkVars, forks_at_watermark,
          required_prefix_tokens
  <1> QED
    BY <1>4, <1>5, <1>6 DEF PrefixInv

LEMMA PrefixInductive ==
  ASSUME "export" \notin PrefillFaults, TypeOK, ForkedFromSnapshot,
         GuardHeldInScope, ProgressInv, PrefixInv, [Next]_vars
  PROVE  PrefixInv'
  <1>0. UNCHANGED pipeline
    BY PipelineFixed
  <1>1. CASE UNCHANGED vars \/ Terminated
    BY <1>1
    DEF vars, Terminated, stateVars, exportVars, engineVars, forkVars,
        PrefixInv, PrefillKV, ExportKV, LongestExported, ForkKV,
        forks_at_watermark,
        required_prefix_tokens
  <1>2. ASSUME NEW p \in Prefillers, PrefillNodeExecute(p), UNCHANGED forkVars
        PROVE  PrefixInv'
    <2>1. \A q \in Prefillers : q = p
      BY NodesAssumption
    <2> QED
      BY <1>0, <1>2, <2>1, PrefillKVInductive, ExportKVInductive,
         PrefillLeavesForks DEF PrefixInv
  <1>3. ASSUME NEW n \in Branches, AnalyticalNodeExecute(n), UNCHANGED prefilled
        PROVE  PrefixInv'
    BY <1>0, <1>3, BranchLeavesOthers, ForkKVInductive DEF PrefixInv
  <1> QED
    BY <1>0, <1>1, <1>2, <1>3, OrchestratorLeavesPrefix
    DEF Next, Worker, ExecuteStep

LEMMA InitPrefix == Init => PrefixInv
  BY NoPositions, NodesAssumption
  DEF Init, StateInit, EngineInit, EmptyMap, Branches, PrefixInv, PrefillKV,
      ExportKV, LongestExported, ForkKV

LEMMA PrefixHolds ==
  ASSUME "export" \notin PrefillFaults
  PROVE  Spec => []PrefixInv
  <1>1. TypeOK /\ ForkedFromSnapshot /\ GuardHeldInScope /\ ProgressInv
        /\ PrefixInv /\ [Next]_vars => PrefixInv'
    BY PrefixInductive
  <1> QED
    BY <1>1, InitPrefix, TypeCorrect, GuardCorrect, ProgressCorrect, PTL
    DEF Spec

\* Every token is decoded right after the document prefix its context holds,
\* in the prefiller's first context, in the one it reopens after a milestone
\* and in every branch, unless the engine reports an export of 0 bytes.
THEOREM PrefixCorrect ==
  ASSUME "export" \notin PrefillFaults
  PROVE  Spec => [](BranchContinuesItsPrefix /\ PrefillContinuesDocument)
  <1>1. PrefixInv => BranchContinuesItsPrefix /\ PrefillContinuesDocument
    BY DEF PrefixInv, PrefillKV, ForkKV, BranchContinuesItsPrefix,
           PrefillContinuesDocument
  <1> QED
    BY <1>1, PrefixHolds, PTL

-----------------------------------------------------------------------------
(* What SharedPrefix shows.                                                *)

LEMMA PhaseIs ==
  \A at :
    /\ at \in {"prepare", "decode"} => PhaseAt(at) = "forked"
    /\ at = "output" => PhaseAt(at) = "decoded"
    /\ at \in {"close", "signal"} => PhaseAt(at) = "answered"
    /\ at \in {"returned", "done"} => PhaseAt(at) = "ended"
    /\ at = "thrown" => PhaseAt(at) = "failed"
    /\ at \in {"idle", "gate", "execute", "fork", "materialize", "open",
               "abandoned"} => PhaseAt(at) = "waiting"
  BY DEF PhaseAt

LEMMA SameCardinality == \A S : Promise!Cardinality(S) = Cardinality(S)
  BY DEF Promise!Cardinality, Cardinality

\* What SharedPrefix shows of a branch.
View(n) == <<Phase(n), Context(n), Reported(n)>>
SameBoard == UNCHANGED <<pipeline, watermark, DOMAIN prefix_snapshots, Over>>

LEMMA NothingShown ==
  ASSUME SameBoard, \A n \in Branches : UNCHANGED View(n)
  PROVE  UNCHANGED Promise!promiseVars
  BY DEF SameBoard, View, Promise!promiseVars, Promise!prefixVars,
         Promise!branchVars

\* A step that shows only in branch n is the abstract step of that branch.
LEMMA BranchShows ==
  ASSUME NEW n \in Branches, SameBoard, ~Over,
         \A m \in Branches \ {n} : UNCHANGED View(m)
  PROVE  /\ /\ Phase(n) = "waiting" /\ Phase(n)' = "forked"
            /\ \E t \in Promise!Forkable(n) : Context(n)' = Promise!First(t)
            /\ UNCHANGED Reported(n)
            => Promise!Next
         /\ /\ Phase(n) = "forked" /\ Phase(n)' = "decoded"
            /\ Context(n)' = Promise!First(Cardinality(Context(n))
                                           + pipeline.prompt[n])
            /\ UNCHANGED Reported(n)
            => Promise!Next
         /\ /\ Phase(n) = "decoded" /\ Phase(n)' = "answered"
            /\ Context(n)' = {}
            /\ Reported(n)' = {Cardinality(Context(n)) - pipeline.prompt[n]}
            => Promise!Next
         /\ /\ Phase(n) \in {"waiting", "forked"} /\ Phase(n)' = "failed"
            /\ UNCHANGED Reported(n)
            => Promise!Next
         /\ /\ Phase(n) \in {"answered", "failed"} /\ Phase(n)' = "ended"
            /\ UNCHANGED Reported(n)
            => Promise!Next
  <1> DEFINE phase == [m \in Branches |-> Phase(m)]
             context == [m \in Branches |-> Context(m)]
             answer == [m \in Branches |-> Reported(m)]
  <1>1. phase' = [phase EXCEPT ![n] = Phase(n)']
    BY DEF View
  <1>2. context' = [context EXCEPT ![n] = Context(n)']
    BY DEF View
  <1>3. answer' = [answer EXCEPT ![n] = Reported(n)']
    BY DEF View
  <1>4. /\ phase[n] = Phase(n)
        /\ context[n] = Context(n)
        /\ answer[n] = Reported(n)
    OBVIOUS
  <1>5. UNCHANGED Reported(n) => UNCHANGED answer
    BY DEF View
  <1>6. /\ Phase(n) \in {"answered", "failed"} => Context(n) = {}
        /\ Phase(n)' \in {"answered", "failed", "ended"} => Context(n)' = {}
    BY DEF Context
  <1>7. Phase(n) \in {"answered", "failed"} /\ Phase(n)' = "ended"
          => UNCHANGED context
    BY <1>6 DEF View
  <1>8. /\ ~Over /\ ~Over' /\ UNCHANGED <<pipeline, Over>>
        /\ UNCHANGED Promise!prefixVars
    BY DEF SameBoard, Promise!prefixVars
  <1>9. ASSUME NEW A,
               A => \/ Promise!Fork(n) \/ Promise!Decode(n)
                    \/ Promise!Answer(n) \/ Promise!Fail(n) \/ Promise!End(n)
        PROVE  A => Promise!Next
    BY <1>8, <1>9 DEF Promise!Next
  <1>10. /\ Phase(n) = "waiting" /\ Phase(n)' = "forked"
         /\ \E t \in Promise!Forkable(n) : Context(n)' = Promise!First(t)
         /\ UNCHANGED Reported(n)
         => Promise!Fork(n)
    BY <1>1, <1>2, <1>4, <1>5, <1>8 DEF Promise!Fork, Promise!Advance
  <1>11. /\ Phase(n) = "forked" /\ Phase(n)' = "decoded"
         /\ Context(n)' = Promise!First(Cardinality(Context(n))
                                        + pipeline.prompt[n])
         /\ UNCHANGED Reported(n)
         => Promise!Decode(n)
    <2> SUFFICES ASSUME Phase(n) = "forked", Phase(n)' = "decoded",
                        Context(n)' = Promise!First(Cardinality(Context(n))
                                                    + pipeline.prompt[n]),
                        UNCHANGED Reported(n)
                 PROVE  Promise!Decode(n)
      OBVIOUS
    <2>1. context' = [context EXCEPT ![n] =
                        Promise!First(Cardinality(@) + pipeline.prompt[n])]
      BY <1>2, <1>4
    <2>2. phase[n] = "forked" /\ phase' = [phase EXCEPT ![n] = "decoded"]
      BY <1>1, <1>4
    <2>3. Promise!Advance(n, "forked", "decoded")
      BY <1>8, <2>2 DEF Promise!Advance
    <2>4. UNCHANGED answer
      BY <1>5
    <2> QED
      BY <2>1, <2>3, <2>4, SameCardinality DEF Promise!Decode
  <1>12. /\ Phase(n) = "decoded" /\ Phase(n)' = "answered"
         /\ Context(n)' = {}
         /\ Reported(n)' = {Cardinality(Context(n)) - pipeline.prompt[n]}
         => Promise!Answer(n)
    <2> SUFFICES ASSUME Phase(n) = "decoded", Phase(n)' = "answered",
                        Context(n)' = {},
                        Reported(n)' = {Cardinality(Context(n))
                                        - pipeline.prompt[n]}
                 PROVE  Promise!Answer(n)
      OBVIOUS
    <2>1. answer' = [answer EXCEPT ![n] =
                       {Cardinality(context[n]) - pipeline.prompt[n]}]
      BY <1>3, <1>4
    <2>2. context' = [context EXCEPT ![n] = {}]
      BY <1>2
    <2>3. phase[n] = "decoded" /\ phase' = [phase EXCEPT ![n] = "answered"]
      BY <1>1, <1>4
    <2>4. Promise!Advance(n, "decoded", "answered")
      BY <1>8, <2>3 DEF Promise!Advance
    <2> QED
      BY <2>1, <2>2, <2>4, SameCardinality DEF Promise!Answer
  <1>13. /\ Phase(n) \in {"waiting", "forked"} /\ Phase(n)' = "failed"
         /\ UNCHANGED Reported(n)
         => Promise!Fail(n)
    BY <1>1, <1>2, <1>4, <1>5, <1>6, <1>8 DEF Promise!Fail, Promise!Advance
  <1>14. /\ Phase(n) \in {"answered", "failed"} /\ Phase(n)' = "ended"
         /\ UNCHANGED Reported(n)
         => Promise!End(n)
    BY <1>1, <1>4, <1>5, <1>7, <1>8 DEF Promise!End, Promise!Advance
  <1> QED
    BY <1>9, <1>10, <1>11, <1>12, <1>13, <1>14

-----------------------------------------------------------------------------
(* A step of a branch.                                                     *)

\* What is shown of m comes from its location, its context and its output.
LEMMA SameView ==
  ASSUME NEW m, Phase(m)' = Phase(m),
         kv'[m] = kv[m],
         m \in DOMAIN node_outputs' <=> m \in DOMAIN node_outputs,
         m \in DOMAIN node_outputs => node_outputs'[m] = node_outputs[m]
  PROVE  UNCHANGED View(m)
  BY DEF View, Context, Reported

\* Nobody works once the pipeline is over.
LEMMA WorkingMeansNotOver ==
  ASSUME TypeOK, JoinInv, NEW n \in Node, Worker(n)
  PROVE  ~Over /\ ~Over'
  BY WorkerMoves, WorkerLeavesMain DEF JoinInv, Settled, Over, mainVars

\* A branch's step leaves everything else that is shown alone.
LEMMA BranchFrame ==
  ASSUME TypeOK, JoinInv, UNCHANGED pipeline, NEW n \in Branches, Worker(n),
         AnalyticalNodeExecute(n) \/ Settle(n)
  PROVE  /\ SameBoard
         /\ \A m \in Branches \ {n} : UNCHANGED View(m)
  <1>0. n \in Node /\ Branches \subseteq Node
    BY DEF Branches
  <1>1. UNCHANGED <<watermark, DOMAIN prefix_snapshots>>
    BY <1>0, OthersDoNotPublish DEF Unpublished
  <1>2. SameBoard
    BY <1>0, <1>1, WorkerLeavesMain DEF SameBoard, Over, mainVars
  <1>3. ASSUME NEW m \in Branches \ {n}
        PROVE  /\ kv'[m] = kv[m]
               /\ m \in DOMAIN node_outputs' <=> m \in DOMAIN node_outputs
               /\ m \in DOMAIN node_outputs =>
                    node_outputs'[m] = node_outputs[m]
    BY <1>0
    DEF AnalyticalNodeExecute, EnterBranch, ForkSnapshot, ForkCanonical,
        Materialize, OpenBranchContext, PrepareBatch, DecodeBranch,
        PublishOutput, CloseBranchContext, SignalConsumed, Settle, Fulfil,
        SettleAs, CatchException, llama_open, llama_decode, llama_free,
        engineVars, publish_output, signal_milestone_consumed, consume, Put,
        stateVars, TypeOK, NodeTypeOK, EngineTypeOK, WaitTypeOK
  <1> QED
    BY <1>0, <1>2, <1>3, WorkerMoves, SameView DEF Phase

\* A branch forks what SharedPrefix lets it fork, in the step that opens its
\* context, and decodes its prompt and reports as SharedPrefix says.
LEMMA BranchImplements ==
  ASSUME TypeOK, JoinInv, ForkedFromSnapshot, PrefixInv, PrefixInv',
         UNCHANGED pipeline, NEW n \in Branches, Worker(n),
         AnalyticalNodeExecute(n)
  PROVE  Promise!Next \/ UNCHANGED Promise!promiseVars
  <1>0. /\ n \in Node /\ pipeline.prompt[n] \in Nat
        /\ required_prefix_tokens(n) \in Int
        /\ fork_prefix_len[n] \in Nat /\ prefix_seq_len \in Nat
        /\ DOMAIN prefix_snapshots \subseteq Nat
    BY PipelineType DEF Branches, TypeOK, NodeTypeOK, StateTypeOK, ForkTypeOK
  <1>1. /\ SameBoard /\ ~Over
        /\ \A m \in Branches \ {n} : UNCHANGED View(m)
    BY <1>0, BranchFrame, WorkingMeansNotOver
  <1>2. ASSUME NEW from, NEW to, Goto(n, from, to)
        PROVE  pc[n] = from /\ pc'[n] = to
    BY <1>0, <1>2 DEF Goto, TypeOK, NodeTypeOK, PcTypeOK
  <1>3. ForkKV(n) /\ ForkKV(n)' /\ ExportKV
    BY DEF PrefixInv
  <1>4. ASSUME UNCHANGED stateVars
        PROVE  UNCHANGED Reported(n)
    BY <1>4 DEF stateVars, Reported
  <1>5. ASSUME Phase(n)' = Phase(n), UNCHANGED Reported(n),
               kv'[n] = kv[n] \/ Phase(n) \notin {"forked", "decoded"}
        PROVE  UNCHANGED Promise!promiseVars
    BY <1>1, <1>5, NothingShown DEF View, Context
  <1>6. CASE pc'[n] = "thrown"
    <2>1. /\ pc[n] \in {"fork", "materialize", "open", "prepare", "decode"}
          /\ UNCHANGED stateVars
      BY <1>2, <1>6
      DEF AnalyticalNodeExecute, EnterBranch, ForkSnapshot, ForkCanonical,
          Materialize, OpenBranchContext, PrepareBatch, DecodeBranch,
          PublishOutput, CloseBranchContext, SignalConsumed, ThrowUnderGuard
    <2> QED
      BY <1>1, <1>4, <1>6, <2>1, PhaseIs, BranchShows DEF Phase
  <1>7. CASE /\ pc'[n] # "thrown"
             /\ \/ EnterBranch(n) \/ ForkSnapshot(n) \/ ForkCanonical(n)
                \/ Materialize(n)
    <2>1. /\ pc[n] \in {"execute", "fork", "materialize"}
          /\ pc'[n] \in {"fork", "materialize", "open"}
          /\ UNCHANGED stateVars
      BY <1>2, <1>7
      DEF EnterBranch, ForkSnapshot, ForkCanonical, Materialize,
          ThrowUnderGuard
    <2> QED
      BY <1>4, <1>5, <2>1, PhaseIs DEF Phase
  <1>8. CASE pc'[n] # "thrown" /\ OpenBranchContext(n)
    <2>1. /\ pc[n] = "open" /\ pc'[n] = "prepare"
          /\ UNCHANGED <<stateVars, forkVars>>
      BY <1>2, <1>8 DEF OpenBranchContext, ThrowUnderGuard
    <2>2. kv'[n] = Positions(0, fork_prefix_len[n])
      BY <1>3, <2>1 DEF ForkKV, forkVars
    <2>3. fork_prefix_len[n] \in Promise!Forkable(n)
      <3>1. CASE forks_at_watermark(n)
        BY <1>0, <1>3, <2>1, <3>1
        DEF ForkKV, ForkedFromSnapshot, Forked, BranchPC, has_prefix_snapshot,
            forks_at_watermark, required_prefix_tokens, Promise!Forkable
      <3>2. CASE ~forks_at_watermark(n)
        <4>1. fork_prefix_len[n] = prefix_seq_len /\ LongestExported
          BY <1>3, <2>1, <3>2 DEF ForkKV, ExportKV
        <4> QED
          BY <1>0, <3>2, <4>1
          DEF LongestExported, forks_at_watermark, required_prefix_tokens,
              Promise!Forkable
      <3> QED
        BY <3>1, <3>2
    <2>4. Phase(n) = "waiting" /\ Phase(n)' = "forked"
      BY <2>1, PhaseIs DEF Phase
    <2>5. Context(n)' = Promise!First(fork_prefix_len[n])
      BY <1>0, <2>2, <2>4 DEF Context, Positions, Promise!First
    <2> QED
      BY <1>1, <1>4, <2>1, <2>3, <2>4, <2>5, BranchShows
  <1>9. CASE pc'[n] # "thrown" /\ PrepareBatch(n)
    <2>1. /\ pc[n] = "prepare" /\ pc'[n] = "decode"
          /\ UNCHANGED <<stateVars, kv>>
      BY <1>2, <1>9 DEF PrepareBatch, ThrowUnderGuard, engineVars
    <2> QED
      BY <1>4, <1>5, <2>1, PhaseIs DEF Phase
  <1>10. CASE pc'[n] # "thrown" /\ DecodeBranch(n)
    <2>1. /\ pc[n] = "decode" /\ pc'[n] = "output"
          /\ UNCHANGED <<stateVars, forkVars>>
      BY <1>2, <1>10 DEF DecodeBranch, ThrowUnderGuard
    <2>2. /\ kv[n] = Positions(0, fork_prefix_len[n])
          /\ kv'[n] = Positions(0, fork_prefix_len[n] + pipeline.prompt[n])
      BY <1>3, <2>1 DEF ForkKV, forkVars
    <2>3. Phase(n) = "forked" /\ Phase(n)' = "decoded"
      BY <2>1, PhaseIs DEF Phase
    <2>4. Cardinality(Context(n)) = fork_prefix_len[n]
      BY <1>0, <2>2, <2>3, PositionsSize DEF Context
    <2>5. Context(n)' = Promise!First(Cardinality(Context(n))
                                      + pipeline.prompt[n])
      BY <1>0, <2>2, <2>3, <2>4 DEF Context, Positions, Promise!First
    <2> QED
      BY <1>1, <1>4, <2>1, <2>3, <2>5, BranchShows
  <1>11. CASE PublishOutput(n)
    <2>1. /\ pc[n] = "output" /\ pc'[n] = "close"
          /\ n \in DOMAIN node_outputs'
          /\ node_outputs'[n].prefix = fork_prefix_len[n]
      BY <1>2, <1>11 DEF PublishOutput, publish_output, Put
    <2>2. Phase(n) = "decoded" /\ Phase(n)' = "answered"
      BY <2>1, PhaseIs DEF Phase
    <2>3. Cardinality(Context(n)) = fork_prefix_len[n] + pipeline.prompt[n]
      BY <1>0, <1>3, <2>1, <2>2, PositionsSize DEF ForkKV, Context
    <2>4. Reported(n)' = {Cardinality(Context(n)) - pipeline.prompt[n]}
      BY <1>0, <2>1, <2>3 DEF Reported
    <2>5. Context(n)' = {}
      BY <2>2 DEF Context
    <2> QED
      BY <1>1, <2>2, <2>4, <2>5, BranchShows
  <1>12. CASE CloseBranchContext(n)
    <2>1. pc[n] = "close" /\ pc'[n] = "signal" /\ UNCHANGED stateVars
      BY <1>2, <1>12 DEF CloseBranchContext
    <2> QED
      BY <1>4, <1>5, <2>1, PhaseIs DEF Phase
  <1>13. CASE SignalConsumed(n)
    <2>1. /\ pc[n] = "signal" /\ pc'[n] = "returned"
          /\ UNCHANGED node_outputs
      BY <1>2, <1>13
      DEF SignalConsumed, signal_milestone_consumed, consume
    <2> QED
      BY <1>1, <2>1, PhaseIs, BranchShows DEF Phase, Reported
  <1> QED
    BY <1>6, <1>7, <1>8, <1>9, <1>10, <1>11, <1>12, <1>13
    DEF AnalyticalNodeExecute

-----------------------------------------------------------------------------
(* Everybody else's steps.                                                 *)

\* A prefiller shows nothing of a branch.
LEMMA PrefillFrame ==
  ASSUME TypeOK, NEW p \in Prefillers, PrefillNodeExecute(p), NEW n \in Branches
  PROVE  UNCHANGED View(n)
  <1>0. p \in Node /\ n \in Node /\ n # p
    BY NodesAssumption DEF Branches
  <1>1. Phase(n)' = Phase(n)
    BY <1>0, NodeType, PrefillDiscipline DEF Disciplined, Phase
  <1>2. kv'[n] = kv[n] /\ UNCHANGED node_outputs
    BY <1>0
    DEF PrefillNodeExecute, PrefillInit, PrefillTokenize, BeginChunk,
        DecodeChunk, CommitChunk, ExportMilestone, PublishMilestone,
        ReleaseContext, AwaitConsumers, ResumeLock, RestorePrefix,
        CompletePrefill, FreePrefill, commit_plain, commit_export,
        commit_publish, publish, wait_for_milestone_consumers,
        sleep_for_milestone_consumers, mark_prefill_complete, llama_open,
        llama_decode, llama_free, engineVars, stateVars, TypeOK, NodeTypeOK,
        EngineTypeOK
  <1> QED
    BY <1>1, <1>2, SameView

\* The prefix grows in the step that publishes a chunk, and by then every
\* branch of a milestone it grows past has ended.
LEMMA PrefillImplements ==
  ASSUME TypeOK, JoinInv, ProgressInv, BarrierInv, UNCHANGED pipeline,
         NEW p \in Prefillers, Worker(p), PrefillNodeExecute(p)
  PROVE  Promise!Next \/ UNCHANGED Promise!promiseVars
  <1>0. /\ p \in Node /\ prefilled[p] \in Nat /\ watermark \in Nat
        /\ pipeline.total \in Nat
        /\ DOMAIN prefix_snapshots \subseteq Nat
    BY NodesAssumption, PipelineType DEF TypeOK, NodeTypeOK, StateTypeOK
  <1>1. ~Over /\ ~Over' /\ UNCHANGED Over
    BY <1>0, WorkingMeansNotOver, WorkerLeavesMain DEF Over, mainVars
  <1>2. \A n \in Branches : UNCHANGED View(n)
    BY PrefillFrame
  <1>3. UNCHANGED Promise!branchVars
    BY <1>2 DEF View, Promise!branchVars
  <1>4. CASE Quiet(p) \/ Advances(p)
    BY <1>1, <1>2, <1>4, NothingShown
    DEF Quiet, Advances, Unpublished, SameBoard
  <1>5. CASE Announces(p) \/ Freezes(p)
    <2>1. /\ watermark' = prefilled[p] /\ watermark < prefilled[p]
          /\ prefilled[p] <= pipeline.total
          /\ \A w \in DOMAIN prefix_snapshots : w < prefilled[p]
          /\ \/ UNCHANGED prefix_snapshots
             \/ DOMAIN prefix_snapshots' =
                  DOMAIN prefix_snapshots \cup {prefilled[p]}
      BY <1>5 DEF Announces, Freezes, Put, ProgressInv, Lag
    <2>2. ASSUME NEW n \in Branches,
                 pipeline.required[n] \in DOMAIN prefix_snapshots
          PROVE  Phase(n) = "ended"
      <3>1. prefilled[p] > required_prefix_tokens(n)
        BY <1>0, <2>1, <2>2 DEF required_prefix_tokens
      <3>2. Consumed(n)
        BY <2>2, <3>1 DEF BarrierInv, Past, required_prefix_tokens
      <3> QED
        BY <3>2, PhaseIs DEF Consumed, Phase
    <2>3. Promise!Grow(prefilled[p])
      BY <1>3, <2>1, <2>2 DEF Promise!Grow
    <2>4. prefilled[p] \in 1 .. pipeline.total
      BY <1>0, <2>1
    <2> QED
      BY <1>1, <2>3, <2>4 DEF Promise!Next
  <1> QED
    BY <1>4, <1>5, NodeType, PrefillProgress

\* A gate shows nothing, and settling a promise shows that a branch that
\* failed has ended.
LEMMA OutsideImplements ==
  ASSUME TypeOK, JoinInv, UNCHANGED pipeline, NEW n \in Node, Worker(n),
         Gate(n) \/ Settle(n)
  PROVE  Promise!Next \/ UNCHANGED Promise!promiseVars
  <1>1. ASSUME NEW from, NEW to, Goto(n, from, to)
        PROVE  pc[n] = from /\ pc'[n] = to
    BY <1>1 DEF Goto, TypeOK, NodeTypeOK, PcTypeOK
  <1>2. UNCHANGED <<watermark, DOMAIN prefix_snapshots, Over>>
    BY OthersDoNotPublish, WorkerLeavesMain
    DEF Unpublished, Over, mainVars
  <1>3. UNCHANGED <<kv, node_outputs>>
    BY DEF Gate, Settle, UnknownDependency, WaitWatermark, WaitCompletion,
           PassCompletion, BeginExecute, Fulfil, SettleAs, CatchException,
           wait_for_watermark, sleep_for_watermark,
           signal_milestone_consumed, consume, engineVars, stateVars
  <1>4. ASSUME n \in Branches => UNCHANGED Phase(n)
        PROVE  UNCHANGED Promise!promiseVars
    <2>1. \A m \in Branches : UNCHANGED Phase(m)
      BY <1>4, WorkerMoves DEF Branches, Phase
    <2> QED
      BY <1>2, <1>3, <2>1, SameView, NothingShown DEF SameBoard
  <1>5. CASE Gate(n)
    <2>1. pc[n] = "gate" /\ pc'[n] \in {"gate", "execute", "abandoned"}
      BY <1>1, <1>5
      DEF Gate, UnknownDependency, WaitWatermark, WaitCompletion,
          PassCompletion, AtDependency, BeginExecute
    <2> QED
      BY <1>4, <2>1, PhaseIs DEF Phase
  <1>6. CASE Fulfil(n)
    BY <1>1, <1>4, <1>6, PhaseIs DEF Fulfil, SettleAs, Phase
  <1>7. CASE CatchException(n)
    <2>1. pc[n] = "thrown" /\ pc'[n] = "done"
      BY <1>1, <1>7 DEF CatchException, SettleAs
    <2>2. CASE n \in Branches
      BY <1>3, <1>7, <2>1, <2>2, BranchFrame, WorkingMeansNotOver, PhaseIs,
         BranchShows DEF Settle, Phase, Reported
    <2> QED
      BY <1>4, <2>2
  <1> QED
    BY <1>5, <1>6, <1>7 DEF Settle

\* Everything SharedPrefix shows is at rest when the caller gets control back.
LEMMA MainImplements ==
  ASSUME TypeOK, JoinInv, JoinInv', UNCHANGED pipeline, MainThread
  PROVE  Promise!Next \/ UNCHANGED Promise!promiseVars
  <1>1. Branches \subseteq Node
    BY DEF Branches
  <1>2. UNCHANGED <<watermark, prefix_snapshots, kv, node_outputs>>
    BY DEF MainThread, RegisterMilestone, SpawnWorker, BeginSpawn, SpawnFails,
           BeginJoin, JoinWorkers, Leave, FreePool, engineVars, stateVars,
           exportVars
  <1>3. ASSUME NEW n \in Branches
        PROVE  UNCHANGED Phase(n)
    <2>1. pc'[n] = pc[n] \/ (pc[n] = "idle" /\ pc'[n] = "gate")
      BY <1>1
      DEF MainThread, RegisterMilestone, SpawnWorker, BeginSpawn, SpawnFails,
          BeginJoin, JoinWorkers, Leave, FreePool, Goto, TypeOK, NodeTypeOK,
          PcTypeOK
    <2> QED
      BY <2>1, PhaseIs DEF Phase
  <1>4. \A n \in Branches : UNCHANGED View(n)
    BY <1>2, <1>3, SameView
  <1>5. CASE ~JoinWorkers
    <2>1. UNCHANGED Over
      BY <1>5
      DEF MainThread, RegisterMilestone, SpawnWorker, BeginSpawn, SpawnFails,
          BeginJoin, FreePool, Over
    <2> QED
      BY <1>2, <1>4, <2>1, NothingShown DEF SameBoard
  <1>6. CASE JoinWorkers
    <2>1. ~Over /\ Over'
      BY <1>6 DEF JoinWorkers, Leave, Over
    <2>2. ASSUME NEW n \in Branches
          PROVE  Phase(n) \in {"waiting", "ended"}
      <3>1. pc[n] \in {"idle", "done", "abandoned"}
        BY <1>1, <1>6 DEF JoinInv, JoinWorkers, Settled
      <3> QED
        BY <3>1, PhaseIs DEF Phase
    <2>3. UNCHANGED <<Promise!prefixVars, Promise!branchVars>>
      BY <1>2, <1>4 DEF View, Promise!prefixVars, Promise!branchVars
    <2>4. Promise!Return
      BY <2>1, <2>2, <2>3 DEF Promise!Return
    <2> QED
      BY <2>1, <2>4 DEF Promise!Next
  <1> QED
    BY <1>5, <1>6

-----------------------------------------------------------------------------
(* The refinement.                                                         *)

LEMMA StepImplements ==
  ASSUME TypeOK, ForkedFromSnapshot, JoinInv, ProgressInv, BarrierInv,
         PrefixInv, PrefixInv', [Next]_vars
  PROVE  [Promise!Next]_Promise!promiseVars
  <1>1. JoinInv'
    BY JoinInductive
  <1>2. UNCHANGED pipeline
    BY PipelineFixed
  <1>3. CASE UNCHANGED vars \/ Terminated
    <2>1. /\ UNCHANGED <<pc, kv, node_outputs, main, watermark>>
          /\ UNCHANGED prefix_snapshots
      BY <1>3 DEF Terminated, vars, stateVars, exportVars, engineVars, mainVars
    <2> QED
      BY <1>2, <2>1, NothingShown
      DEF SameBoard, View, Phase, Context, Reported, Over
  <1>4. ASSUME NEW n \in Node, Worker(n)
        PROVE  Promise!Next \/ UNCHANGED Promise!promiseVars
    BY <1>2, <1>4, OutsideImplements, PrefillImplements, BranchImplements
    DEF Worker, ExecuteStep
  <1> QED
    BY <1>1, <1>2, <1>3, <1>4, MainImplements DEF Next

LEMMA InitImplements == Init => Promise!Init
  BY PhaseIs
  DEF Init, StateInit, EngineInit, EmptyMap, Branches, Phase, Context,
      Reported, Over, Promise!Init

\* The pipeline implements the shared prefix: branches fork a frozen length
\* of one growing prefix, decode and report in one step each, the prefix
\* does not outgrow a milestone whose branches have not ended, and nothing
\* moves once the caller has control again; unless the engine reports an
\* export of 0 bytes.
THEOREM RefinementCorrect ==
  ASSUME "export" \notin PrefillFaults
  PROVE  Spec => ImplementsSharedPrefix
  <1>1. TypeOK /\ ForkedFromSnapshot /\ JoinInv /\ ProgressInv /\ BarrierInv
        /\ PrefixInv /\ PrefixInv' /\ [Next]_vars
        => [Promise!Next]_Promise!promiseVars
    BY StepImplements
  <1> QED
    BY <1>1, InitImplements, TypeCorrect, JoinInvCorrect, ProgressCorrect,
       BarrierCorrect, PrefixHolds, PTL
    DEF Spec, ImplementsSharedPrefix, Promise!Spec

=============================================================================
