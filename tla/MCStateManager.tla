---------------------------- MODULE MCStateManager ----------------------------
(* Constant values for model-checking StateManager. *)
EXTENDS StateManager

\* One group of each retention rule, and one recurrent group.
MCRetain ==
    [g \in PagedGroups |->
        CASE g = "all"    -> [windowed |-> FALSE, n |-> 0, w |-> 1]
          [] g = "window" -> [windowed |-> TRUE,  n |-> 0, w |-> 1]
          [] g = "sink"   -> [windowed |-> TRUE,  n |-> 1, w |-> 2]]

=============================================================================
