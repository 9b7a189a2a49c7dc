-------------------------- MODULE MemoryPoolThreads -------------------------
(***************************************************************************)
(* The class of src/memory/memory_pool.cpp step by step, called by several *)
(* threads at once: the two allocation functions, which differ in name     *)
(* only, free_all and the destructor.  pool_mutex is held from the first   *)
(* to the last step of a call.  In the pipeline it is always taken inside  *)
(* LlamaGuard, or with no worker running, and never the other way round.   *)
(***************************************************************************)
EXTENDS Integers, Sequences, SequencesExt

CONSTANTS Thread,
          Nobody,     \* the value of pool_mutex when it is free
          Buffer,     \* the handles the backend can give out
          PoolFaults  \* engine calls that may fail

ASSUME ThreadAssumption == Nobody \notin Thread

VARIABLES
  pool_mutex,
  active_buffers,  \* the registry, in order of allocation
  live_buffers,    \* buffers of the backend that are not freed
  sizing_ctx,      \* threads whose disposable llama_context exists
  fresh,           \* the buffer each thread has not registered yet, or {}
  next_free,       \* index of the next buffer free_all frees
  alive,           \* the destructor has not begun
  at               \* where each thread is in its call

vars == <<pool_mutex, active_buffers, live_buffers, sizing_ctx, fresh,
          next_free, alive, at>>

Init ==
  /\ pool_mutex = Nobody
  /\ active_buffers = <<>>
  /\ live_buffers = {}
  /\ sizing_ctx = {}
  /\ fresh = [t \in Thread |-> {}]
  /\ next_free = 1
  /\ alive = TRUE
  /\ at = [t \in Thread |-> "out"]

Step(t, from, to) == at[t] = from /\ at' = [at EXCEPT ![t] = to]

\* std::lock_guard, and its end on a return or an exception.
Enter(t, op) ==
  /\ Step(t, "out", op)
  /\ pool_mutex = Nobody
  /\ pool_mutex' = t
Leave(t, from) == Step(t, from, "out") /\ pool_mutex' = Nobody

\* Wrong: an exception leaves the mutex locked.
Throw_locked(t, call, from) ==
  call \in PoolFaults /\ Step(t, from, "out") /\ UNCHANGED pool_mutex

Throw(t, call, from) == call \in PoolFaults /\ Leave(t, from)

\* allocate_prefix_cache or allocate_branch_cache is called.
BeginAllocate(t) ==
  /\ alive
  /\ Enter(t, "size")
  /\ UNCHANGED <<active_buffers, live_buffers, sizing_ctx, fresh, next_free,
                 alive>>

\* get_required_kv_size opens a disposable context ...
OpenSizing(t) ==
  /\ \/ Throw(t, "init", "size") /\ UNCHANGED sizing_ctx
     \/ /\ Step(t, "size", "measure")
        /\ sizing_ctx' = sizing_ctx \cup {t}
        /\ UNCHANGED pool_mutex
  /\ UNCHANGED <<active_buffers, live_buffers, fresh, next_free, alive>>

\* ... and frees it.
CloseSizing(t) ==
  /\ Step(t, "measure", "allocate")
  /\ sizing_ctx' = sizing_ctx \ {t}
  /\ UNCHANGED <<pool_mutex, active_buffers, live_buffers, fresh, next_free,
                 alive>>

\* Wrong: a null handle, here Nobody, is not refused.
AllocBuffer_unchecked(t) ==
  /\ Step(t, "allocate", "register")
  /\ fresh' = [fresh EXCEPT ![t] = {Nobody}]
  /\ UNCHANGED <<pool_mutex, active_buffers, live_buffers, sizing_ctx,
                 next_free, alive>>

\* ggml_backend_buft_alloc_buffer, which may return null.
AllocBuffer(t) ==
  /\ \/ Throw(t, "alloc", "allocate") /\ UNCHANGED <<live_buffers, fresh>>
     \/ /\ Step(t, "allocate", "register")
        /\ \E b \in Buffer \ live_buffers :
             /\ live_buffers' = live_buffers \cup {b}
             /\ fresh' = [fresh EXCEPT ![t] = {b}]
        /\ UNCHANGED pool_mutex
  /\ UNCHANGED <<active_buffers, sizing_ctx, next_free, alive>>

\* active_buffers.push_back(buffer), and the return.
RegisterBuffer(t) ==
  /\ Leave(t, "register")
  /\ \E b \in fresh[t] : active_buffers' = Append(active_buffers, b)
  /\ fresh' = [fresh EXCEPT ![t] = {}]
  /\ UNCHANGED <<live_buffers, sizing_ctx, next_free, alive>>

\* free_all is called.
BeginFree(t) ==
  /\ alive
  /\ Enter(t, "free")
  /\ UNCHANGED <<active_buffers, live_buffers, sizing_ctx, fresh, next_free,
                 alive>>

\* ~MemoryPool: its owner lets nobody call the pool any more.
Destroy(t) ==
  /\ alive
  /\ \A u \in Thread : at[u] = "out"
  /\ alive' = FALSE
  /\ Enter(t, "free")
  /\ UNCHANGED <<active_buffers, live_buffers, sizing_ctx, fresh, next_free>>

FreeOne(t) ==
  /\ Step(t, "free", "free")
  /\ next_free <= Len(active_buffers)
  /\ live_buffers' = live_buffers \ {active_buffers[next_free]}
  /\ next_free' = next_free + 1
  /\ UNCHANGED <<pool_mutex, active_buffers, sizing_ctx, fresh, alive>>

\* The loop is over: the registry becomes cleared.
Finish(t, cleared) ==
  /\ Leave(t, "free")
  /\ active_buffers' = cleared
  /\ next_free' = 1
  /\ UNCHANGED <<live_buffers, sizing_ctx, fresh, alive>>

\* Wrong: the freed handles stay registered.
ClearRegistry_kept(t) ==
  next_free > Len(active_buffers) /\ Finish(t, active_buffers)

\* Wrong: stops before the last buffer.
ClearRegistry_short(t) == next_free >= Len(active_buffers) /\ Finish(t, <<>>)

ClearRegistry(t) == next_free > Len(active_buffers) /\ Finish(t, <<>>)

Call(t) ==
  \/ OpenSizing(t) \/ CloseSizing(t) \/ AllocBuffer(t) \/ RegisterBuffer(t)
  \/ FreeOne(t) \/ ClearRegistry(t)

Next ==
  \E t \in Thread : BeginAllocate(t) \/ BeginFree(t) \/ Destroy(t) \/ Call(t)

Spec == Init /\ [][Next]_vars

-----------------------------------------------------------------------------
(* Properties.                                                             *)

\* The types of every variable.
PoolTypeOK ==
  /\ pool_mutex \in Thread \cup {Nobody}
  /\ active_buffers \in Seq(Buffer)
  /\ live_buffers \subseteq Buffer
  /\ sizing_ctx \subseteq Thread
  /\ fresh \in [Thread -> SUBSET Buffer]
  /\ next_free \in 1 .. Len(active_buffers) + 1
  /\ alive \in BOOLEAN
  /\ at \in [Thread -> {"out", "size", "measure", "allocate", "register",
                        "free"}]

\* The mutex is held by exactly the thread inside a call, so that two threads
\* never size, allocate or free at once; an exception releases it.
MutexHeldInCall == \A t \in Thread : at[t] # "out" <=> pool_mutex = t

Unfreed == {active_buffers[i] : i \in next_free .. Len(active_buffers)}

\* The registry holds every buffer of the backend exactly once: nothing is
\* freed twice, by a second free_all, a concurrent one or the destructor,
\* and nothing is lost when an allocation fails half-way.
RegistryExact ==
  /\ live_buffers = Unfreed \cup UNION {fresh[t] : t \in Thread}
  /\ IsInjective(SubSeq(active_buffers, next_free, Len(active_buffers)))

\* The destructor leaves no buffer and no context behind.
DestroyedPoolIsEmpty ==
  ~alive /\ pool_mutex = Nobody => live_buffers = {} /\ sizing_ctx = {}

\* The pool as the other modules see it: free_all takes effect when it
\* begins, an allocation when it registers its buffer.
Arena == INSTANCE MemoryPool WITH
  Staging <- Nobody,
  active_buffers <- IF \E t \in Thread : at[t] = "free" THEN {}
                    ELSE Range(active_buffers)

\* Every call has the effect of one atomic step of MemoryPool, however the
\* calls of several threads interleave.
ImplementsMemoryPool == Arena!PoolInit /\ [][Arena!PoolNext(Buffer)]_vars

=============================================================================
