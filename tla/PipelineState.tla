--------------------------- MODULE PipelineState ---------------------------
(***************************************************************************)
(* The blackboard shared by the prefiller and the branches                 *)
(* (include/swarmkv/pipeline_state.h, src/core/pipeline_state.cpp).        *)
(*                                                                         *)
(* Every method body that runs under watermark_mutex is one action         *)
(* fragment: it fixes the next value of every variable it owns.  A         *)
(* serialized KV blob is the set of token positions it carries, and its    *)
(* size in bytes is the number of positions (0 bytes is the empty blob).   *)
(*                                                                         *)
(* The two condition variables are the sets of threads asleep on them:     *)
(* wait(lock, pred) either finds pred true or joins the set, and           *)
(* notify_all empties the set, so a notification that is missing leaves    *)
(* its sleepers asleep for good.                                           *)
(***************************************************************************)
EXTENDS Integers, FiniteSets

VARIABLES
  materialized_branch_buffer,    \* positions in the staging buffer's last export
  prefix_kv_serial_bytes,        \* valid bytes of the last canonical export
  prefix_seq_len,                \* RoPE offset of the last canonical export
  watermark,                     \* highest prefix token count published
  prefill_complete,              \* set after the whole document is prefilled
  node_outputs,                  \* node name -> what the branch reports
  snapshot_milestones,           \* token counts that must get a frozen snapshot
  prefix_snapshots,              \* token count -> [data, seq_len]
  milestone_consumers_remaining, \* token count -> branches not yet consumed
  watermark_cv,                  \* threads asleep in wait_for_watermark
  prefill_resume_cv              \* threads asleep in wait_for_milestone_consumers

exportVars == <<prefix_kv_serial_bytes, prefix_seq_len, prefix_snapshots>>
milestoneVars == <<snapshot_milestones, milestone_consumers_remaining>>
stateVars == <<materialized_branch_buffer, exportVars, watermark,
               prefill_complete, node_outputs, milestoneVars,
               watermark_cv, prefill_resume_cv>>

\* A KV blob: finitely many token positions.
Cells == {c \in SUBSET Nat : IsFiniteSet(c)}

PrefixKvSnapshot == [data : Cells, seq_len : Nat]

EmptyMap == [k \in {} |-> 0]

\* unordered_map::operator[] followed by an assignment.
Put(map, k, v) == [x \in DOMAIN map \cup {k} |-> IF x = k THEN v ELSE map[x]]

\* The types of the blackboard's fields.
StateTypeOK ==
  /\ materialized_branch_buffer \in Cells
  /\ prefix_kv_serial_bytes \in Nat
  /\ prefix_seq_len \in Nat
  /\ watermark \in Nat
  /\ prefill_complete \in BOOLEAN
  /\ snapshot_milestones \subseteq Nat \ {0}
  /\ DOMAIN prefix_snapshots \subseteq Nat
  /\ prefix_snapshots \in [DOMAIN prefix_snapshots -> PrefixKvSnapshot]
  /\ DOMAIN milestone_consumers_remaining \subseteq Nat \ {0}
  /\ milestone_consumers_remaining \in
       [DOMAIN milestone_consumers_remaining -> Int]

\* PipelineState state{}: every field value-initialized.
StateInit ==
  /\ materialized_branch_buffer = {}
  /\ prefix_kv_serial_bytes = 0
  /\ prefix_seq_len = 0
  /\ watermark = 0
  /\ prefill_complete = FALSE
  /\ node_outputs = EmptyMap
  /\ snapshot_milestones = {}
  /\ prefix_snapshots = EmptyMap
  /\ milestone_consumers_remaining = EmptyMap
  /\ watermark_cv = {}
  /\ prefill_resume_cv = {}

-----------------------------------------------------------------------------
(* Registration, by the orchestrator before any worker runs.               *)

register_snapshot_milestone(w) ==
  snapshot_milestones' = snapshot_milestones \cup {w}

register_milestone_consumer(w) ==
  milestone_consumers_remaining' =
    Put(milestone_consumers_remaining, w,
        1 + IF w \in DOMAIN milestone_consumers_remaining
            THEN milestone_consumers_remaining[w] ELSE 0)

is_snapshot_milestone(t) == t \in snapshot_milestones

-----------------------------------------------------------------------------
(* commit_watermark: one critical section when t is no milestone; an       *)
(* export outside watermark_mutex and a second section when it is.         *)

commit_plain(t) ==
  /\ ~is_snapshot_milestone(t)
  /\ watermark' = t
  /\ watermark_cv' = {}
  /\ UNCHANGED <<materialized_branch_buffer, exportVars, prefill_complete,
                 node_outputs, milestoneVars, prefill_resume_cv>>

\* llama_state_seq_get_data into the staging buffer; cells = {} is the
\* engine reporting 0 bytes written.
commit_export(t, cells) ==
  /\ is_snapshot_milestone(t)
  /\ materialized_branch_buffer' = cells
  /\ UNCHANGED <<exportVars, watermark, prefill_complete, node_outputs,
                 milestoneVars, watermark_cv, prefill_resume_cv>>

\* The second critical section: the bytes exported are still in the staging
\* buffer and in export_buf.
publish(t, snapshots) ==
  /\ watermark' = t
  /\ prefix_seq_len' = t
  /\ prefix_kv_serial_bytes' = Cardinality(materialized_branch_buffer)
  /\ prefix_snapshots' = snapshots
  /\ watermark_cv' = {}
  /\ UNCHANGED <<materialized_branch_buffer, prefill_complete, node_outputs,
                 milestoneVars, prefill_resume_cv>>

Exported(t) == [data |-> materialized_branch_buffer, seq_len |-> t]

\* Wrong: the snapshot keeps the RoPE length of the previous export.
commit_publish_stale_length(t) ==
  publish(t, Put(prefix_snapshots, t, Exported(prefix_seq_len)))

\* Wrong: the snapshot is filed under the length of the previous export.
commit_publish_stale_key(t) ==
  publish(t, Put(prefix_snapshots, prefix_seq_len, Exported(t)))

\* Wrong: snapshots share the bytes of the staging buffer.
commit_publish_aliased(t) ==
  publish(t, [w \in DOMAIN prefix_snapshots \cup {t} |-> Exported(w)])

commit_publish(t) == publish(t, Put(prefix_snapshots, t, Exported(t)))

-----------------------------------------------------------------------------
(* Waiting, waking and reading.                                            *)

\* Wrong: one token too early.
wait_for_watermark_early(t, w) ==
  /\ t \notin watermark_cv
  /\ watermark >= w - 1
  /\ UNCHANGED stateVars

wait_for_watermark(t, w) ==
  /\ t \notin watermark_cv
  /\ watermark >= w
  /\ UNCHANGED stateVars

sleep_for_watermark(t, w) ==
  /\ t \notin watermark_cv
  /\ watermark < w
  /\ watermark_cv' = watermark_cv \cup {t}
  /\ UNCHANGED <<materialized_branch_buffer, exportVars, watermark,
                 prefill_complete, node_outputs, milestoneVars,
                 prefill_resume_cv>>

mark_prefill_complete ==
  /\ prefill_complete' = TRUE
  /\ watermark_cv' = {}
  /\ UNCHANGED <<materialized_branch_buffer, exportVars, watermark,
                 node_outputs, milestoneVars, prefill_resume_cv>>

has_prefix_snapshot(w) == w \in DOMAIN prefix_snapshots

\* Wrong: satisfied with one branch still to come.
milestone_consumed_early(w) ==
  w \in DOMAIN milestone_consumers_remaining =>
    milestone_consumers_remaining[w] <= 1

milestone_consumed(w) ==
  w \in DOMAIN milestone_consumers_remaining =>
    milestone_consumers_remaining[w] <= 0

\* A count of at most 0 tokens, or an unknown milestone, is ignored; the
\* prefiller is notified when the count found was at most last.
consume(w, last) ==
  /\ IF w > 0 /\ w \in DOMAIN milestone_consumers_remaining
     THEN /\ milestone_consumers_remaining' =
               [milestone_consumers_remaining EXCEPT ![w] = @ - 1]
          /\ prefill_resume_cv' =
               IF milestone_consumers_remaining[w] <= last
               THEN {} ELSE prefill_resume_cv
     ELSE UNCHANGED <<milestone_consumers_remaining, prefill_resume_cv>>
  /\ UNCHANGED <<materialized_branch_buffer, exportVars, watermark,
                 prefill_complete, node_outputs, snapshot_milestones,
                 watermark_cv>>

\* Wrong: the count is compared before it is decremented.
signal_milestone_consumed_late(w) == consume(w, 0)

signal_milestone_consumed(w) == consume(w, 1)

wait_for_milestone_consumers(t, w) ==
  /\ t \notin prefill_resume_cv
  /\ milestone_consumed(w)
  /\ UNCHANGED stateVars

sleep_for_milestone_consumers(t, w) ==
  /\ t \notin prefill_resume_cv
  /\ ~milestone_consumed(w)
  /\ prefill_resume_cv' = prefill_resume_cv \cup {t}
  /\ UNCHANGED <<materialized_branch_buffer, exportVars, watermark,
                 prefill_complete, node_outputs, milestoneVars, watermark_cv>>

\* node_outputs[key] = ..., under output_lock.
publish_output(n, out) ==
  /\ node_outputs' = Put(node_outputs, n, out)
  /\ UNCHANGED <<materialized_branch_buffer, exportVars, watermark,
                 prefill_complete, milestoneVars, watermark_cv,
                 prefill_resume_cv>>

=============================================================================
