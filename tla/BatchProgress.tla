---------------------------- MODULE BatchProgress ----------------------------
(***************************************************************************)
(* What JobTracker promises about one batch, without any of its Redis       *)
(* commands: outcomes settle one by one, and the batch is announced         *)
(* complete only when every member of it has settled.  The record of a      *)
(* batch is kept for a limited time, after which the announcement is gone.  *)
(***************************************************************************)
CONSTANT Batch  \* the members of the batch

VARIABLES
    settled,    \* members whose outcome is recorded
    announced   \* the batch reads as completed

vars == <<settled, announced>>

TypeOK ==
    /\ settled \subseteq Batch
    /\ announced \in BOOLEAN

Init ==
    /\ settled = {}
    /\ announced = FALSE

\* The outcome of one more member is recorded.
Settle(u) ==
    /\ u \notin settled
    /\ settled' = settled \cup {u}
    /\ UNCHANGED announced

\* The batch reads as completed from now on.
Announce ==
    /\ settled = Batch
    /\ announced' = TRUE
    /\ UNCHANGED settled

\* The retention time elapses.
Forget ==
    /\ announced' = FALSE
    /\ UNCHANGED settled

Next ==
    \/ \E u \in Batch : Settle(u)
    \/ Announce
    \/ Forget

Spec == Init /\ [][Next]_vars
=============================================================================
