-------------------------- MODULE MemoryPoolProofs --------------------------
(***************************************************************************)
(* The pool's mutex makes every call one atomic step, and the registry is  *)
(* exactly what the backend has given out: what each thread holds at each  *)
(* point of its call, for any number of threads and buffers.               *)
(***************************************************************************)
EXTENDS MemoryPoolThreads, TLAPS

\* What a thread has in its hands, by where it is in its call.
CallInv(t) ==
  /\ at[t] = "register" => \E b \in Buffer : fresh[t] = {b}
  /\ at[t] # "register" => fresh[t] = {}
  /\ t \in sizing_ctx <=> at[t] = "measure"
  /\ at[t] \in {"size", "measure", "allocate", "register"} => alive

Freeing == \E t \in Thread : at[t] = "free"

\* The registered buffers not yet freed are distinct, and with those about
\* to be registered they are the live ones.
RegistryInv ==
  /\ ~Freeing => next_free = 1
  /\ ~alive /\ ~Freeing => active_buffers = <<>>
  /\ \A i, j \in next_free .. Len(active_buffers) :
       active_buffers[i] = active_buffers[j] => i = j
  /\ live_buffers = Unfreed \cup UNION {fresh[t] : t \in Thread}
  /\ \A t \in Thread : fresh[t] \cap Unfreed = {}

PoolInv ==
  /\ PoolTypeOK
  /\ MutexHeldInCall
  /\ \A t \in Thread : CallInv(t)
  /\ RegistryInv

LEMMA InitPool == Init => PoolInv
  BY ThreadAssumption
  DEF Init, PoolInv, PoolTypeOK, MutexHeldInCall, CallInv, RegistryInv,
      Freeing, Unfreed

-----------------------------------------------------------------------------
(* One thread at a time.                                                   *)

\* Every step moves one thread, which holds the mutex before it or takes it.
Moves(t) ==
  /\ at[t] # "out" \/ pool_mutex = Nobody
  /\ at' = [at EXCEPT ![t] = at'[t]]
  /\ pool_mutex' = IF at'[t] = "out" THEN Nobody ELSE t
  /\ at'[t] \in {"out", "size", "measure", "allocate", "register", "free"}

LEMMA StepMoves ==
  ASSUME PoolInv, NEW t \in Thread,
         BeginAllocate(t) \/ BeginFree(t) \/ Destroy(t) \/ Call(t)
  PROVE  Moves(t)
  BY DEF PoolInv, PoolTypeOK, MutexHeldInCall, BeginAllocate, BeginFree,
         Destroy, Call, OpenSizing, CloseSizing, AllocBuffer, RegisterBuffer,
         FreeOne, ClearRegistry, Finish, Enter, Leave, Throw, Step, Moves

LEMMA MutexInductive ==
  ASSUME PoolInv, NEW t \in Thread, Moves(t)
  PROVE  /\ MutexHeldInCall'
         /\ pool_mutex' \in Thread \cup {Nobody}
         /\ at' \in [Thread -> {"out", "size", "measure", "allocate",
                                "register", "free"}]
  BY ThreadAssumption DEF PoolInv, PoolTypeOK, MutexHeldInCall, Moves

\* Nobody else is in a call, before or after.
LEMMA Alone ==
  ASSUME PoolInv, NEW t \in Thread, Moves(t)
  PROVE  /\ \A u \in Thread \ {t} :
              /\ at[u] = "out" /\ at'[u] = "out"
              /\ fresh[u] = {} /\ u \notin sizing_ctx
         /\ Freeing <=> at[t] = "free"
         /\ Freeing' <=> at'[t] = "free"
         /\ UNION {fresh[u] : u \in Thread} = fresh[t]
  <1>1. \A u \in Thread \ {t} : at[u] = "out" /\ at'[u] = "out"
    BY ThreadAssumption DEF PoolInv, PoolTypeOK, MutexHeldInCall, Moves
  <1>2. \A u \in Thread \ {t} : fresh[u] = {} /\ u \notin sizing_ctx
    BY <1>1 DEF PoolInv, CallInv
  <1>3. UNION {fresh[u] : u \in Thread} = fresh[t]
    BY <1>2
  <1> QED
    BY <1>1, <1>2, <1>3 DEF Freeing

\* So only the mover's part of the invariant is at stake.
LEMMA OnlyMover ==
  ASSUME PoolInv, NEW t \in Thread, Moves(t), CallInv(t)',
         fresh' = [fresh EXCEPT ![t] = fresh'[t]],
         sizing_ctx' \ {t} = sizing_ctx \ {t},
         /\ active_buffers' \in Seq(Buffer) /\ live_buffers' \subseteq Buffer
         /\ sizing_ctx' \subseteq Thread /\ fresh'[t] \subseteq Buffer
         /\ next_free' \in 1 .. Len(active_buffers') + 1
         /\ alive' \in BOOLEAN,
         /\ at'[t] # "free" => next_free' = 1
         /\ ~alive' /\ at'[t] # "free" => active_buffers' = <<>>
         /\ \A i, j \in next_free' .. Len(active_buffers') :
              active_buffers'[i] = active_buffers'[j] => i = j
         /\ live_buffers' = Unfreed' \cup fresh'[t]
         /\ fresh'[t] \cap Unfreed' = {}
  PROVE  PoolInv'
  <1>1. \A u \in Thread \ {t} : at'[u] = "out" /\ fresh'[u] = {}
    BY Alone DEF PoolInv, PoolTypeOK
  <1>2. fresh' \in [Thread -> SUBSET Buffer]
    BY DEF PoolInv, PoolTypeOK
  <1>3. PoolTypeOK' /\ MutexHeldInCall'
    BY <1>2, MutexInductive DEF PoolTypeOK
  <1>4. \A u \in Thread : CallInv(u)'
    BY <1>1, Alone DEF CallInv
  <1>5. UNION {fresh'[u] : u \in Thread} = fresh'[t]
    BY <1>1
  <1>6. RegistryInv'
    BY <1>1, <1>5, Alone DEF RegistryInv
  <1> QED
    BY <1>3, <1>4, <1>6 DEF PoolInv

-----------------------------------------------------------------------------
(* The steps of a call.                                                    *)

LEMMA PoolInductive ==
  ASSUME PoolInv, [Next]_vars
  PROVE  PoolInv'
  <1>1. CASE UNCHANGED vars
    BY <1>1
    DEF vars, PoolInv, PoolTypeOK, MutexHeldInCall, CallInv, RegistryInv,
        Freeing, Unfreed
  <1>2. ASSUME NEW t \in Thread,
               BeginAllocate(t) \/ BeginFree(t) \/ Destroy(t) \/ Call(t)
        PROVE  PoolInv'
    <2>0. /\ Moves(t)
          /\ pool_mutex \in Thread \cup {Nobody} /\ active_buffers \in Seq(Buffer)
          /\ live_buffers \subseteq Buffer /\ sizing_ctx \subseteq Thread
          /\ fresh \in [Thread -> SUBSET Buffer]
          /\ next_free \in 1 .. Len(active_buffers) + 1 /\ alive \in BOOLEAN
          /\ at \in [Thread -> {"out", "size", "measure", "allocate",
                                 "register", "free"}]
      BY <1>2, StepMoves DEF PoolInv, PoolTypeOK
    <2>1. /\ CallInv(t)
          /\ \A i, j \in next_free .. Len(active_buffers) :
               active_buffers[i] = active_buffers[j] => i = j
          /\ live_buffers = Unfreed \cup fresh[t]
          /\ fresh[t] \cap Unfreed = {}
          /\ at[t] # "free" => next_free = 1
          /\ ~alive /\ at[t] # "free" => active_buffers = <<>>
      BY <2>0, Alone DEF PoolInv, RegistryInv
    <2>2. ASSUME NEW from, NEW to, Step(t, from, to)
          PROVE  at[t] = from /\ at'[t] = to
      BY <2>0, <2>2 DEF Step
    <2>3. ASSUME UNCHANGED <<active_buffers, next_free>>
          PROVE  UNCHANGED Unfreed
      BY <2>3 DEF Unfreed
    <2>4. CASE BeginAllocate(t) \/ BeginFree(t) \/ Destroy(t)
      <3>1. /\ at[t] = "out" /\ at'[t] \in {"size", "free"}
            /\ UNCHANGED <<active_buffers, live_buffers, sizing_ctx, fresh,
                           next_free>>
        BY <2>2, <2>4 DEF BeginAllocate, BeginFree, Destroy, Enter
      <3>2. alive' \in BOOLEAN /\ (at'[t] = "size" => alive')
        <4>1. CASE BeginAllocate(t) \/ BeginFree(t)
          BY <2>0, <4>1 DEF BeginAllocate, BeginFree
        <4>2. CASE Destroy(t)
          <5>1. at'[t] = "free"
            BY <2>2, <4>2 DEF Destroy, Enter
          <5>2. at'[t] # "size"
            BY <5>1
          <5>3. alive' = FALSE
            BY <4>2 DEF Destroy
          <5> QED
            BY <5>2, <5>3
        <4> QED
          BY <2>4, <4>1, <4>2
      <3>3. CallInv(t)'
        BY <2>1, <3>1, <3>2 DEF CallInv
      <3>4. ~alive' /\ at'[t] # "free" => active_buffers' = <<>>
        BY <3>1, <3>2
      <3>5. fresh' = [fresh EXCEPT ![t] = fresh'[t]]
        BY <2>0, <3>1
      <3> QED
        BY <2>0, <2>1, <2>3, <3>1, <3>2, <3>3, <3>4, <3>5, OnlyMover
    <2>5. CASE OpenSizing(t) \/ CloseSizing(t)
      <3>1. /\ at[t] \in {"size", "measure"}
            /\ at'[t] \in {"out", "measure", "allocate"}
            /\ at'[t] = "measure" => sizing_ctx' = sizing_ctx \cup {t}
            /\ at'[t] # "measure" => sizing_ctx' = sizing_ctx \ {t}
            /\ UNCHANGED <<active_buffers, live_buffers, fresh, next_free,
                           alive>>
        BY <2>1, <2>2, <2>5
        DEF OpenSizing, CloseSizing, Throw, Leave, CallInv
      <3>2. CallInv(t)'
        BY <2>1, <3>1 DEF CallInv
      <3>3. fresh' = [fresh EXCEPT ![t] = fresh'[t]]
        BY <2>0, <3>1
      <3> QED
        BY <2>0, <2>1, <2>3, <3>1, <3>2, <3>3, OnlyMover
    <2>6. CASE AllocBuffer(t)
      <3>1. /\ at[t] = "allocate" /\ fresh[t] = {}
            /\ UNCHANGED <<active_buffers, sizing_ctx, next_free, alive>>
        BY <2>1, <2>2, <2>6 DEF AllocBuffer, Throw, Leave, CallInv
      <3>2. CASE at'[t] = "out"
        <4>1. UNCHANGED <<live_buffers, fresh>>
          BY <2>2, <2>6, <3>2 DEF AllocBuffer
        <4>2. CallInv(t)'
          BY <2>1, <3>1, <3>2, <4>1 DEF CallInv
        <4>3. fresh' = [fresh EXCEPT ![t] = fresh'[t]]
          BY <2>0, <4>1
        <4> QED
          BY <2>0, <2>1, <2>3, <3>1, <3>2, <4>1, <4>2, <4>3, OnlyMover
      <3>3. CASE at'[t] # "out"
        <4>1. PICK b \in Buffer \ live_buffers :
                /\ at'[t] = "register"
                /\ live_buffers' = live_buffers \cup {b}
                /\ fresh' = [fresh EXCEPT ![t] = {b}]
          BY <2>2, <2>6, <3>3 DEF AllocBuffer, Throw, Leave
        <4>2. fresh'[t] = {b} /\ fresh' = [fresh EXCEPT ![t] = fresh'[t]]
          BY <2>0, <4>1
        <4>3. CallInv(t)'
          BY <2>1, <3>1, <4>1, <4>2 DEF CallInv
        <4>4. /\ live_buffers' = Unfreed' \cup fresh'[t]
              /\ fresh'[t] \cap Unfreed' = {}
          BY <2>1, <2>3, <3>1, <4>1, <4>2
        <4> QED
          BY <2>0, <2>1, <3>1, <4>1, <4>2, <4>3, <4>4, OnlyMover
      <3> QED
        BY <3>2, <3>3
    <2>7. CASE RegisterBuffer(t)
      <3>1. /\ at[t] = "register" /\ at'[t] = "out" /\ alive
            /\ next_free = 1
            /\ UNCHANGED <<live_buffers, sizing_ctx, next_free, alive>>
            /\ fresh' = [fresh EXCEPT ![t] = {}]
        BY <2>1, <2>2, <2>7 DEF RegisterBuffer, Leave, CallInv
      <3>2. PICK b \in Buffer :
              fresh[t] = {b} /\ active_buffers' = Append(active_buffers, b)
        BY <2>1, <2>7, <3>1 DEF RegisterBuffer, CallInv
      <3>3. fresh'[t] = {} /\ fresh' = [fresh EXCEPT ![t] = fresh'[t]]
        BY <2>0, <3>1
      <3>4. CallInv(t)'
        BY <2>1, <3>1, <3>3 DEF CallInv
      <3>5. /\ active_buffers' \in Seq(Buffer)
            /\ Len(active_buffers') = Len(active_buffers) + 1
            /\ \A i \in 1 .. Len(active_buffers) :
                 active_buffers'[i] = active_buffers[i]
            /\ active_buffers'[Len(active_buffers) + 1] = b
        BY <2>0, <3>2
      <3>6. Unfreed' = Unfreed \cup {b}
        <4>1. 1 .. Len(active_buffers') =
                1 .. Len(active_buffers) \cup {Len(active_buffers) + 1}
          BY <2>0, <3>5
        <4>2. Unfreed' = {active_buffers'[i] : i \in 1 .. Len(active_buffers')}
          BY <3>1 DEF Unfreed
        <4>3. Unfreed = {active_buffers[i] : i \in 1 .. Len(active_buffers)}
          BY <3>1 DEF Unfreed
        <4> QED
          BY <3>5, <4>1, <4>2, <4>3
      <3>7. \A i, j \in next_free' .. Len(active_buffers') :
              active_buffers'[i] = active_buffers'[j] => i = j
        <4>1. \A i \in 1 .. Len(active_buffers) : active_buffers[i] # b
          BY <2>1, <3>1, <3>2 DEF Unfreed
        <4> QED
          BY <2>0, <2>1, <3>1, <3>5, <4>1
      <3>8. /\ live_buffers' = Unfreed' \cup fresh'[t]
            /\ fresh'[t] \cap Unfreed' = {}
        BY <2>1, <3>1, <3>2, <3>3, <3>6
      <3>9. next_free' \in 1 .. Len(active_buffers') + 1
        BY <2>0, <3>1, <3>5
      <3> QED
        BY <2>0, <3>1, <3>3, <3>4, <3>5, <3>7, <3>8, <3>9, OnlyMover
    <2>8. CASE FreeOne(t)
      <3>1. /\ at[t] = "free" /\ at'[t] = "free" /\ fresh[t] = {}
            /\ next_free <= Len(active_buffers)
            /\ live_buffers' = live_buffers \ {active_buffers[next_free]}
            /\ next_free' = next_free + 1
            /\ UNCHANGED <<active_buffers, sizing_ctx, fresh, alive>>
        BY <2>1, <2>2, <2>8 DEF FreeOne, CallInv
      <3>2. CallInv(t)' /\ fresh' = [fresh EXCEPT ![t] = fresh'[t]]
        BY <2>0, <2>1, <3>1 DEF CallInv
      <3>3. Unfreed' = Unfreed \ {active_buffers[next_free]}
        BY <2>0, <2>1, <3>1 DEF Unfreed
      <3> QED
        BY <2>0, <2>1, <3>1, <3>2, <3>3, OnlyMover
    <2>9. CASE ClearRegistry(t)
      <3>1. /\ at[t] = "free" /\ at'[t] = "out" /\ fresh[t] = {}
            /\ next_free > Len(active_buffers)
            /\ active_buffers' = <<>> /\ next_free' = 1
            /\ UNCHANGED <<live_buffers, sizing_ctx, fresh, alive>>
        BY <2>1, <2>2, <2>9 DEF ClearRegistry, Finish, Leave, CallInv
      <3>2. CallInv(t)' /\ fresh' = [fresh EXCEPT ![t] = fresh'[t]]
        BY <2>0, <2>1, <3>1 DEF CallInv
      <3>3. Unfreed = {} /\ Unfreed' = {}
        BY <2>0, <3>1 DEF Unfreed
      <3> QED
        BY <2>0, <2>1, <3>1, <3>2, <3>3, OnlyMover
    <2> QED
      BY <1>2, <2>4, <2>5, <2>6, <2>7, <2>8, <2>9 DEF Call
  <1> QED
    BY <1>1, <1>2 DEF Next

LEMMA PoolHolds == Spec => []PoolInv
  BY InitPool, PoolInductive, PTL DEF Spec

-----------------------------------------------------------------------------
(* What a caller may rely on.                                              *)

\* Every variable of the pool keeps its type.
THEOREM PoolTypeCorrect == Spec => []PoolTypeOK
  BY PoolHolds, PTL DEF PoolInv

\* std::lock_guard: one thread in a call, and none that keeps the mutex when
\* an engine call throws.
THEOREM PoolMutexCorrect == Spec => []MutexHeldInCall
  BY PoolHolds, PTL DEF PoolInv

\* Every live buffer is registered, or about to be, exactly once: nothing is
\* freed twice or lost by failing allocations, by free_all called again or by
\* the destructor.
THEOREM RegistryCorrect == Spec => []RegistryExact
  <1>1. ASSUME PoolInv
        PROVE  RegistryExact
    <2> DEFINE rest == SubSeq(active_buffers, next_free, Len(active_buffers))
    <2>1. /\ active_buffers \in Seq(Buffer)
          /\ next_free \in 1 .. Len(active_buffers) + 1
          /\ \A i, j \in next_free .. Len(active_buffers) :
               active_buffers[i] = active_buffers[j] => i = j
      BY <1>1 DEF PoolInv, PoolTypeOK, RegistryInv
    <2>2. /\ DOMAIN rest = 1 .. Len(active_buffers) - next_free + 1
          /\ \A i \in DOMAIN rest :
               rest[i] = active_buffers[i + next_free - 1]
      BY <2>1
    <2>3. IsInjective(rest)
      <3> SUFFICES ASSUME NEW i \in DOMAIN rest, NEW j \in DOMAIN rest,
                          rest[i] = rest[j]
                   PROVE  i = j
        BY DEF IsInjective
      <3>1. /\ i + next_free - 1 \in next_free .. Len(active_buffers)
            /\ j + next_free - 1 \in next_free .. Len(active_buffers)
        BY <2>1, <2>2
      <3> QED
        BY <2>1, <2>2, <3>1
    <2> QED
      BY <1>1, <2>3 DEF PoolInv, RegistryInv, RegistryExact
  <1> QED
    BY <1>1, PoolHolds, PTL

\* ~MemoryPool frees whatever is registered, and no sizing context survives.
THEOREM DestructorCorrect == Spec => []DestroyedPoolIsEmpty
  <1>1. ASSUME PoolInv, ~alive, pool_mutex = Nobody
        PROVE  live_buffers = {} /\ sizing_ctx = {}
    <2>1. \A t \in Thread : at[t] = "out"
      BY <1>1, ThreadAssumption DEF PoolInv, MutexHeldInCall
    <2>2. \A t \in Thread : fresh[t] = {} /\ t \notin sizing_ctx
      BY <1>1, <2>1 DEF PoolInv, CallInv
    <2>3. active_buffers = <<>> /\ next_free = 1
      BY <1>1, <2>1 DEF PoolInv, RegistryInv, Freeing
    <2>4. Unfreed = {}
      BY <2>3 DEF Unfreed
    <2> QED
      BY <1>1, <2>2, <2>4 DEF PoolInv, PoolTypeOK, RegistryInv
  <1>2. PoolInv => DestroyedPoolIsEmpty
    BY <1>1 DEF DestroyedPoolIsEmpty
  <1> QED
    BY <1>2, PoolHolds, PTL

\* What the other modules see of the registry: nothing once free_all began.
Seen == IF Freeing THEN {} ELSE Range(active_buffers)

\* A call takes effect in one step: an allocation registers a buffer that is
\* not registered, free_all empties the registry when it begins.
LEMMA CallTakesEffect ==
  ASSUME PoolInv, NEW t \in Thread,
         BeginAllocate(t) \/ BeginFree(t) \/ Destroy(t) \/ Call(t)
  PROVE  \/ UNCHANGED Seen
         \/ Seen' = {}
         \/ \E b \in Buffer \ Seen : Seen' = Seen \cup {b}
  <1>0. /\ Moves(t)
        /\ active_buffers \in Seq(Buffer)
        /\ next_free \in 1 .. Len(active_buffers) + 1
        /\ at \in [Thread -> {"out", "size", "measure", "allocate",
                               "register", "free"}]
    BY StepMoves DEF PoolInv, PoolTypeOK
  <1>1. /\ Freeing <=> at[t] = "free"
        /\ Freeing' <=> at'[t] = "free"
    BY <1>0, Alone
  <1>2. ASSUME NEW from, NEW to, Step(t, from, to)
        PROVE  at[t] = from /\ at'[t] = to
    BY <1>0, <1>2 DEF Step
  <1>3. CASE at'[t] = "free"
    BY <1>1, <1>3 DEF Seen
  <1>4. CASE ClearRegistry(t)
    <2>1. at[t] = "free" /\ at'[t] = "out" /\ active_buffers' = <<>>
      BY <1>2, <1>4 DEF ClearRegistry, Finish, Leave
    <2>2. Range(active_buffers') = {}
      BY <2>1 DEF Range
    <2> QED
      BY <1>1, <2>1, <2>2 DEF Seen
  <1>5. CASE BeginAllocate(t) \/ OpenSizing(t) \/ CloseSizing(t)
             \/ AllocBuffer(t)
    <2>1. /\ at[t] # "free" /\ at'[t] # "free"
          /\ UNCHANGED active_buffers
      BY <1>2, <1>5
      DEF BeginAllocate, OpenSizing, CloseSizing, AllocBuffer, Throw, Enter,
          Leave
    <2> QED
      BY <1>1, <2>1 DEF Seen, Range
  <1>6. CASE RegisterBuffer(t)
    <2>1. at[t] = "register" /\ at'[t] = "out"
      BY <1>2, <1>6 DEF RegisterBuffer, Leave
    <2>2. PICK b \in Buffer :
            fresh[t] = {b} /\ active_buffers' = Append(active_buffers, b)
      BY <1>6, <2>1 DEF RegisterBuffer, PoolInv, CallInv
    <2>3. Seen = {active_buffers[i] : i \in 1 .. Len(active_buffers)}
      BY <1>0, <1>1, <2>1 DEF Seen, Range
    <2>4. Seen' = {active_buffers'[i] : i \in 1 .. Len(active_buffers')}
      BY <1>0, <1>1, <2>1, <2>2 DEF Seen, Range
    <2>5. /\ 1 .. Len(active_buffers') =
               1 .. Len(active_buffers) \cup {Len(active_buffers) + 1}
          /\ \A i \in 1 .. Len(active_buffers) :
               active_buffers'[i] = active_buffers[i]
          /\ active_buffers'[Len(active_buffers) + 1] = b
      BY <1>0, <2>2
    <2>6. Seen' = Seen \cup {b}
      BY <2>3, <2>4, <2>5
    <2>7. b \notin Seen
      <3>1. next_free = 1
        BY <1>1, <2>1 DEF PoolInv, RegistryInv
      <3>2. Seen = Unfreed
        BY <2>3, <3>1 DEF Unfreed
      <3> QED
        BY <2>2, <3>2 DEF PoolInv, RegistryInv
    <2> QED
      BY <2>6, <2>7
  <1>7. CASE BeginFree(t) \/ Destroy(t) \/ FreeOne(t)
    BY <1>2, <1>3, <1>7 DEF BeginFree, Destroy, FreeOne, Enter
  <1> QED
    BY <1>4, <1>5, <1>6, <1>7 DEF Call

\* However the calls of several threads interleave, each has the effect of
\* one atomic step on the registry that the pipeline's modules use.
THEOREM PoolImplements == Spec => ImplementsMemoryPool
  <1>1. Init => Arena!PoolInit
    BY DEF Init, Range, Arena!PoolInit
  <1>2. ASSUME PoolInv, [Next]_vars
        PROVE  [Arena!PoolNext(Buffer)]_vars
    <2>1. ASSUME NEW t \in Thread,
                 BeginAllocate(t) \/ BeginFree(t) \/ Destroy(t) \/ Call(t)
          PROVE  Arena!PoolNext(Buffer)
      BY <1>2, <2>1, CallTakesEffect
      DEF Seen, Freeing, Arena!PoolNext, Arena!free_all, Arena!allocate_cache
    <2> QED
      BY <1>2, <2>1 DEF Next
  <1> QED
    BY <1>1, <1>2, PoolHolds, PTL DEF Spec, ImplementsMemoryPool

=============================================================================
