----------------------------- MODULE MCScheduler -----------------------------
(* Constant values for model-checking Scheduler. *)
EXTENDS Scheduler

MCRetain == [g \in PagedGroups |-> [windowed |-> FALSE, n |-> 0, w |-> 1]]

Request(p, m) == [prompt |-> p, max_tokens |-> m]

\* Requests that fit MaxCtx = 4: a chunked prompt, and one whose decode needs a
\* block of its own.
FittingRequests == {Request(3, 1), Request(2, 2)}

\* The same, with a chunked prompt whose tokens run past MaxCtx = 4.
SafetyRequests == {Request(3, 3), Request(2, 2)}

\* A request whose tokens run past MaxCtx = 2.
LongRequest == {Request(1, 3)}

=============================================================================
