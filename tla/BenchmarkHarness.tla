-------------------------- MODULE BenchmarkHarness --------------------------
(***************************************************************************)
(* The program of src/benchmarks/swarmkv_benchmark.cpp: the same nodes     *)
(* without the orchestrator.  The prefiller runs on a std::thread and the  *)
(* two agents one after the other on the thread that must join it.  An     *)
(* agent is also the name of the main thread while it waits for the agent  *)
(* or runs it.                                                             *)
(*                                                                         *)
(* pipeline.total counts the tokens of the file the prefiller reads.  The  *)
(* write of the document is not checked, so it may be less than doc_n.     *)
(***************************************************************************)
EXTENDS NodeProperties

CONSTANTS Prefiller, AgentA, AgentB,
          HarnessFaults  \* calls of the main thread that may fail

ASSUME HarnessAssumption ==
  /\ Node = {Prefiller, AgentA, AgentB} /\ AgentA # AgentB
  /\ Prefillers = {Prefiller}
  /\ \A g \in Pipelines :
       0 < g.required[AgentA] /\ g.required[AgentA] <= g.required[AgentB]

VARIABLES main,  \* where the main thread is
          doc_n  \* tokens of the document it built

vars == <<stateVars, engineVars, active_buffers, pipeline, pc, prefilled,
          forkVars, main, doc_n>>

Init ==
  /\ pipeline \in Pipelines
  /\ StateInit
  /\ EngineInit
  /\ active_buffers = {}
  /\ pc = [n \in Node |-> "idle"]
  /\ prefilled = [p \in Prefillers |-> 0]
  /\ fork_prefix_len = [n \in Branches |-> 0]
  /\ fork_kv_bytes = [n \in Branches |-> 0]
  /\ branch_buf = [n \in Branches |-> {}]
  /\ main = "build"
  /\ doc_n \in pipeline.total .. NCtx
  /\ "write" \in HarnessFaults \/ doc_n = pipeline.total

-----------------------------------------------------------------------------
(* The main thread.                                                        *)

MainGoto(from, to) == main = from /\ main' = to

Fails(call, from, to) == call \in HarnessFaults /\ MainGoto(from, to)

\* A step of main() with no thread beside it and nothing shared to change.
Alone == UNCHANGED <<stateVars, engineVars, active_buffers, pc>>

\* build_document and the file it is written to; every failure is caught.
BuildDocument ==
  /\ MainGoto("build", "check") \/ Fails("build", "build", "refused")
  /\ Alone

\* Wrong: only what the agents fork is checked, not the whole document.
BudgetsFit_agents ==
  \A n \in Branches :
    validate_context_budget(required_prefix_tokens(n), {pipeline.prompt[n]})

BudgetsFit ==
  /\ validate_context_budget(doc_n, {pipeline.prompt[n] : n \in Branches})
  /\ \A n \in Branches :
       validate_context_budget(required_prefix_tokens(n), {pipeline.prompt[n]})

\* The prompts are tokenized outside any try block; then the document must
\* reach the watermark of AgentB and the budgets must fit.
CheckDocument ==
  /\ \/ Fails("tokenize", "check", "terminated")
     \/ /\ MainGoto("check", "refused")
        /\ doc_n < required_prefix_tokens(AgentB) \/ ~BudgetsFit
     \/ /\ MainGoto("check", "baseline")
        /\ doc_n >= required_prefix_tokens(AgentB)
        /\ BudgetsFit
  /\ Alone

\* The baseline is skipped, or run with contexts of its own; it is outside
\* any try block.
RunBaseline ==
  /\ \/ MainGoto("baseline", "allocate")
     \/ Fails("baseline", "baseline", "terminated")
  /\ Alone

AllocatePrefix ==
  /\ \/ MainGoto("allocate", "register_a") /\ allocate_cache(Staging)
     \/ /\ Fails("alloc", "allocate", "unwind")
        /\ UNCHANGED active_buffers
  /\ UNCHANGED <<stateVars, engineVars, pc>>

\* The milestone and the consumer of one agent.
RegisterAgent(n, from, to) ==
  /\ MainGoto(from, to)
  /\ register_snapshot_milestone(required_prefix_tokens(n))
  /\ register_milestone_consumer(required_prefix_tokens(n))
  /\ UNCHANGED <<materialized_branch_buffer, exportVars, watermark,
                 prefill_complete, node_outputs, watermark_cv,
                 prefill_resume_cv, engineVars, active_buffers, pc>>

\* std::thread prefill_thread([&]() { try { prefill.execute } catch ... });
StartPrefiller ==
  /\ \/ MainGoto("spawn", "wait_a") /\ Goto(Prefiller, "idle", "execute")
     \/ Fails("thread", "spawn", "unwind") /\ UNCHANGED pc
  /\ UNCHANGED <<stateVars, engineVars, active_buffers>>

\* state->wait_for_watermark(W), then the agent's execute() begins.
WaitForAgent(n, from, to) ==
  /\ \/ /\ MainGoto(from, to)
        /\ wait_for_watermark(n, required_prefix_tokens(n))
        /\ Goto(n, "idle", "execute")
     \/ /\ MainGoto(from, from)
        /\ sleep_for_watermark(n, required_prefix_tokens(n))
        /\ UNCHANGED pc
  /\ UNCHANGED <<engineVars, active_buffers>>

\* execute() is left.  An exception unwinds past the joinable std::thread,
\* whose destructor calls std::terminate.
LeaveAgent(n, from, to) ==
  /\ \/ pc[n] = "returned" /\ MainGoto(from, to)
     \/ pc[n] = "thrown" /\ MainGoto(from, "terminated")
  /\ Alone

PrefillerOver == pc[Prefiller] \in {"returned", "thrown"}

\* Wrong: the exception of the prefiller is not rethrown.
JoinPrefiller_swallowed ==
  /\ PrefillerOver
  /\ MainGoto("join", "free")
  /\ Alone

\* Wrong: does not wait for the thread.
JoinPrefiller_detached == MainGoto("join", "free") /\ Alone

\* prefill_thread.join(), and rethrow_exception(prefill_ex).
JoinPrefiller ==
  /\ PrefillerOver
  /\ MainGoto("join", IF pc[Prefiller] = "thrown" THEN "unwind" ELSE "free")
  /\ Alone

\* pool.free_all(), or ~MemoryPool on the way to the handler.
FreePool ==
  /\ MainGoto("free", "returned") \/ MainGoto("unwind", "reported")
  /\ free_all
  /\ UNCHANGED <<stateVars, engineVars, pc>>

MainThread ==
  /\ \/ BuildDocument \/ CheckDocument \/ RunBaseline \/ AllocatePrefix
     \/ RegisterAgent(AgentA, "register_a", "register_b")
     \/ RegisterAgent(AgentB, "register_b", "spawn")
     \/ StartPrefiller
     \/ WaitForAgent(AgentA, "wait_a", "run_a")
     \/ LeaveAgent(AgentA, "run_a", "wait_b")
     \/ WaitForAgent(AgentB, "wait_b", "run_b")
     \/ LeaveAgent(AgentB, "run_b", "join")
     \/ JoinPrefiller \/ FreePool
  /\ UNCHANGED <<prefilled, forkVars, doc_n>>

RunPrefiller ==
  /\ main # "terminated"
  /\ PrefillNodeExecute(Prefiller)
  /\ UNCHANGED <<forkVars, main, doc_n>>

RunAgent(n) == AnalyticalNodeExecute(n) /\ UNCHANGED <<prefilled, main, doc_n>>

\* The process has exited.
Ended == main \in {"refused", "returned", "reported", "terminated"}

Next ==
  \/ /\ MainThread \/ RunPrefiller \/ \E n \in Branches : RunAgent(n)
     /\ UNCHANGED pipeline
  \/ Ended /\ UNCHANGED vars

Spec == Init /\ [][Next]_vars

\* The scheduler runs both threads; the main thread is in main() or in the
\* execute() of one agent.
FairSpec ==
  /\ Spec
  /\ WF_vars(MainThread /\ UNCHANGED pipeline)
  /\ WF_vars(RunPrefiller /\ UNCHANGED pipeline)
  /\ \A n \in Branches : WF_vars(RunAgent(n) /\ UNCHANGED pipeline)

-----------------------------------------------------------------------------
(* Properties.                                                             *)

\* The types of every variable.
HarnessTypeOK ==
  /\ NodeTypeOK
  /\ main \in {"build", "check", "baseline", "allocate", "register_a",
               "register_b", "spawn", "wait_a", "run_a", "wait_b", "run_b",
               "join", "free", "unwind"} \/ Ended
  /\ doc_n \in Nat

\* The blackboard and the pool, locals of main() that the thread refers to,
\* are destroyed only when the prefiller is not running; the one other way
\* out is the end of the process.
TeardownAfterPrefiller ==
  main \in {"free", "unwind", "returned", "reported"} =>
    PrefillerOver \/ pc[Prefiller] = "idle"

\* Exit status 0 means that the run it reports took place: the whole
\* document of the file was prefilled, both agents answered from a prefix of
\* exactly the length they name, both milestones are used up, and neither a
\* context nor a buffer is left.
ReturnMeansWholeRun ==
  main = "returned" =>
    /\ prefill_complete /\ watermark = pipeline.total
    /\ \A n \in Branches :
         /\ n \in DOMAIN node_outputs
         /\ node_outputs[n].prefix = required_prefix_tokens(n)
         /\ milestone_consumed(required_prefix_tokens(n))
    /\ live_ctx = {} /\ active_buffers = {}

\* The checks before the run are enough: neither the prefiller nor an agent
\* then finds that its tokens do not fit in the context.
BudgetCheckSuffices ==
  /\ pc[Prefiller] = "tokenize" => pipeline.total < NCtx
  /\ \A n \in Branches : pc[n] = "prepare" => fits_context_budget(n)

\* The main thread sleeps on a watermark that will not come.
Stranded ==
  \E n \in watermark_cv :
    \/ pc[Prefiller] = "thrown"
    \/ pc[Prefiller] = "returned" /\ pipeline.total < required_prefix_tokens(n)

\* The program ends, or hangs for one of two reasons only: the prefiller
\* threw, or the file holds less of the document than was checked.
HarnessEndsOrStrands == <>[](Ended \/ Stranded)

\* "AgentA starts at 512 tokens, AgentB at 3000 (document continues to
\* ~3500)" (swarmkv_benchmark.cpp:33): an agent that was woken does not
\* throw when no engine call fails.
AgentsStart == \A n \in Branches : pc[n] # "thrown"

=============================================================================
