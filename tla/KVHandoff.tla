------------------------------ MODULE KVHandoff -----------------------------
(***************************************************************************)
(* src/core/kv_handoff.cpp.  A serialized KV blob is the set of positions  *)
(* it carries, one byte each in increasing order.                          *)
(***************************************************************************)
EXTENDS Integers, FiniteSets

\* The first nbytes bytes of a blob.
memcpy(src, nbytes) ==
  {c \in src : Cardinality({d \in src : d < c}) < nbytes}

\* A byte count of 0 stands for the whole source.
materialize_branch_cache(source, nbytes) ==
  memcpy(source, IF nbytes = 0 THEN Cardinality(source) ELSE nbytes)

\* Binding is a no-op except for its check of the buffer handle.
bind_throws(has_buffer) == ~has_buffer

=============================================================================
