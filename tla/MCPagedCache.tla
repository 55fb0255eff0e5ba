----------------------------- MODULE MCPagedCache -----------------------------
(* Constant values for model-checking PagedCache. *)
EXTENDS PagedCache

MCRetain ==
    [g \in PagedGroups |->
        CASE g = "all"    -> [windowed |-> FALSE, n |-> 0, w |-> 1]
          [] g = "window" -> [windowed |-> TRUE,  n |-> 0, w |-> 1]
          [] g = "sink"   -> [windowed |-> TRUE,  n |-> 1, w |-> 1]]

MCTokens == 0 .. (MaxSeqId + 1) * MaxCtx * Cardinality(Versions) - 1

=============================================================================
