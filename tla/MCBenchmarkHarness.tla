------------------------- MODULE MCBenchmarkHarness -------------------------
(***************************************************************************)
(* Small instances of BenchmarkHarness.  With chunks of 2 tokens, AgentA   *)
(* at 2 and AgentB at 3 stand for 512 and 3000 with chunks of 128: the     *)
(* second is no multiple of the chunk.  4 stands for an aligned B.         *)
(***************************************************************************)
EXTENDS BenchmarkHarness, TLC

CONSTANTS p, a, b

MCNode == {p, a, b}
MCPrefillers == {p}

Config(wb, total, pa, pb) ==
  [required |-> (p :> -1 @@ a :> 2 @@ b :> wb),
   rev_adj |-> (p :> <<>> @@ a :> <<>> @@ b :> <<>>),
   total |-> total,
   prompt |-> (p :> 0 @@ a :> pa @@ b :> pb),
   staged |-> TRUE]

\* Files shorter than a watermark, ending at it and beyond it, up to one that
\* fills the context; equal and unequal prompts.
HarnessPipelines ==
  {Config(wb, total, pa, pb) :
     wb \in {2, 3, 4}, total \in 1 .. 7, pa \in {1, 2}, pb \in {0, 1, 2}}

\* The constants of the benchmark, scaled down.
BenchmarkPipelines == {Config(3, 5, 1, 1)}
=============================================================================
