----------------------------- MODULE DailyQuota -----------------------------
(***************************************************************************)
(* What the cap on Vertex calls promises, without Redis: on each day at     *)
(* most DailyLimit calls are granted, and a caller is denied only when the  *)
(* whole quota of that day has been granted (a grant may be wasted).        *)
(***************************************************************************)
EXTENDS Naturals

CONSTANTS Callers, Days, DailyLimit

VARIABLES granted, \* calls granted, per day
          denied   \* callers denied so far

Init ==
    /\ granted = [d \in Days |-> 0]
    /\ denied = {}

Grant(d) ==
    /\ granted[d] < DailyLimit
    /\ granted' = [granted EXCEPT ![d] = @ + 1]
    /\ UNCHANGED denied

Deny(d, c) ==
    /\ granted[d] = DailyLimit
    /\ denied' = denied \cup {c}
    /\ UNCHANGED granted

Next == \E d \in Days : Grant(d) \/ \E c \in Callers : Deny(d, c)

Spec == Init /\ [][Next]_<<granted, denied>>
=============================================================================
