-------------------------- MODULE MCLLMFallback --------------------------
(***************************************************************************)
(* Small instances of LLMFallback for TLC.                                  *)
(***************************************************************************)
EXTENDS LLMFallback

CONSTANTS a, b, p1, p2

\* Two callers share a process and its semaphores; the other process is idle.
Pair == {a, b}
ApiAndWorker == {p1, p2}
Together == [x \in Callers |-> p1]
GroundedCallers == {a}
=============================================================================
